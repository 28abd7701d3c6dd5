------------------------------- MODULE BackJs -------------------------------
(***************************************************************************)
(* The JavaScript backend's functions with gotos (src/back_js.c):          *)
(* JavaScript has none, so the function becomes numbered blocks in         *)
(* "for (;;) switch (pc)", where each block must end by setting pc, or     *)
(* control runs into the block written next.                               *)
(***************************************************************************)
EXTENDS Linear

CONSTANTS
    MaxBlocks,   \* blocks[1024]
    MaxLabels    \* lmap[512]
ASSUME JsAssumption == MaxBlocks \in Nat \ {0} /\ MaxLabels \in Nat

\* g.cur is the block being written, lmap gives labels a block, i counts the
\* blocks that are printed.
Blk == [code |-> <<>>, term |-> FALSE]
JsStart == [blocks |-> <<Blk>>, cur |-> 1, lmap |-> [l \in {} |-> 0], i |-> 1]

new_block(g) == [g EXCEPT !.blocks = Append(@, Blk)]
block_no(g, n) == Len(g.blocks) + n   \* the n-th one made from here
at_block(g, b) == [g EXCEPT !.cur = b]
js_term(g) == g.blocks[g.cur].term

EMIT(g, i) == [g EXCEPT !.blocks[g.cur].code = Append(@, i)]
js_end(g, i) == [g EXCEPT !.blocks[g.cur] = [code |-> Append(@.code, i), term |-> TRUE]]
jump_to(g, b) == js_end(g, Br(b))
js_branch(g, c, tb, fb) == js_end(g, CondBr(c, tb, fb))
jump_if_open(g, b) == IF js_term(g) THEN g ELSE jump_to(g, b)

label_block(g, l) ==
    IF l \in DOMAIN g.lmap THEN g
    ELSE [new_block(g) EXCEPT !.lmap = [x \in DOMAIN g.lmap \cup {l} |->
                                          IF x = l THEN block_no(g, 1) ELSE g.lmap[x]]]

\* Code after a jump gets a block of its own, unless it starts with a label.
js_open(g, n) ==
    IF js_term(g) /\ n.k # "label" THEN at_block(new_block(g), block_no(g, 1)) ELSE g

\* error: too many blocks, too many labels
js_too_big(g) == Len(g.blocks) > MaxBlocks \/ Cardinality(DOMAIN g.lmap) > MaxLabels

(***************************************************************************)
(* emit_stmt, by the kind of the statement.                                *)
(***************************************************************************)
JsDoes(g, items) ==
    /\ em' = g
    /\ todo' = items \o Tail(todo)
    /\ phase' = IF js_too_big(g) THEN "toobig" ELSE "emit"
    /\ UNCHANGED <<code, run>>

JsExprStmt == Emitting(Simple) /\ JsDoes(EMIT(js_open(em, Top), Expr(Top)), <<>>)
JsBlock == Emitting({"block"}) /\ JsDoes(js_open(em, Top), Top.body)
JsReturn == Emitting({"return"}) /\ JsDoes(js_end(js_open(em, Top), Ret), <<>>)
JsGoto == /\ Emitting({"goto"})
          /\ LET g == label_block(js_open(em, Top), Top.l) IN JsDoes(jump_to(g, g.lmap[Top.l]), <<>>)
JsLabel ==
    /\ Emitting({"label"})
    /\ LET g == label_block(em, Top.l)
       IN JsDoes(at_block(jump_if_open(g, g.lmap[Top.l]), g.lmap[Top.l]), <<>>)

JsIf ==
    /\ Emitting({"if"})
    /\ LET g == js_open(em, Top)
           has == Top.els # <<>>
           two == new_block(new_block(g))
           tb == block_no(g, 1)
           db == block_no(g, IF has THEN 3 ELSE 2)
           fb == block_no(g, 2)
       IN JsDoes(at_block(js_branch(IF has THEN new_block(two) ELSE two, Top.cond, tb, fb), tb),
                 Top.then \o <<Join(db, fb)>>
                   \o IF has THEN Top.els \o <<Join(db, db)>> ELSE <<>>)

LoopOf(n) == [k |-> "loop", n |-> n]
IncOf(n) == [k |-> "inc", inc |-> n.inc]
JsLoop == Emitting({"while", "for"}) /\ JsDoes(js_open(em, Top), Top.init \o <<LoopOf(Top)>>)
JsHead ==
    /\ Emitting({"loop"})
    /\ LET n == Top.n
           hb == block_no(em, 1)
           bb == block_no(em, 2)
           db == block_no(em, 3)
           g == at_block(jump_to(new_block(new_block(new_block(em))), hb), hb)
       IN JsDoes(at_block(IF n.cond.t = "always" THEN jump_to(g, bb)
                          ELSE js_branch(g, n.cond, bb, db), bb),
                 n.body \o <<IncOf(n), Join(hb, db)>>)

\* The increment is skipped where the body's end cannot be reached.
JsInc == Emitting({"inc"}) /\ JsDoes(em, IF js_term(em) THEN <<>> ELSE Top.inc)

JsDo ==
    /\ Emitting({"do"})
    /\ LET g == js_open(em, Top)
           bb == block_no(g, 1)
           hb == block_no(g, 2)
           db == block_no(g, 3)
       IN JsDoes(at_block(jump_to(new_block(new_block(new_block(g))), bb), bb),
                 Top.body \o <<TestOf(Top, hb, bb, db)>>)
JsTest ==
    /\ Emitting({"test"})
    /\ LET g == at_block(jump_if_open(em, Top.hl), Top.hl)
       IN JsDoes(at_block(js_branch(g, Top.cond, Top.bl, Top.el), Top.el), <<>>)

JsJoin == Emitting({"join"}) /\ JsDoes(at_block(jump_if_open(em, Top.l), Top.at), <<>>)

(***************************************************************************)
(* emit_func, after the body: the blocks become the cases of one switch,   *)
(* in order, then "default:return 0".                                      *)
(***************************************************************************)
JsDone == /\ phase = "emit" /\ todo = <<>>
          /\ phase' = "print"
          /\ em' = IF js_term(em) THEN em ELSE EMIT(em, Ret)
          /\ UNCHANGED <<todo, code, run>>
JsPrint == /\ phase = "print" /\ em.i <= Len(em.blocks)
           /\ code' = code \o <<Lbl(em.i)>> \o em.blocks[em.i].code
           /\ em' = [em EXCEPT !.i = @ + 1]
           /\ UNCHANGED <<phase, todo, run>>
JsPrinted == /\ phase = "print" /\ em.i > Len(em.blocks)
             /\ phase' = "run"
             /\ code' = code \o <<Lbl(em.i), Ret>>
             /\ UNCHANGED <<emission, run>>

JsStep == JsExprStmt \/ JsBlock \/ JsReturn \/ JsGoto \/ JsLabel \/ JsIf \/ JsLoop \/ JsHead
            \/ JsInc \/ JsDo \/ JsTest \/ JsJoin \/ JsDone \/ JsPrint \/ JsPrinted

(* The function with body tree, from emission to its end.                  *)
JsInit(tree) == phase = "emit" /\ todo = tree /\ em = JsStart /\ code = <<>> /\ Idling
JsNext == JsStep \/ Exec
JsSpec(tree) == JsInit(tree) /\ [][JsNext]_lvars
=============================================================================
