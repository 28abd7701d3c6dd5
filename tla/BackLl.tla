------------------------------- MODULE BackLl -------------------------------
(***************************************************************************)
(* The LLVM backend's statements (src/back_ll.c): a linear list of         *)
(* instructions in which place_label, br_to and ensure_block keep track of *)
(* whether a basic block is open.                                          *)
(***************************************************************************)
EXTENDS Linear

LlStart == [code |-> <<>>, block_open |-> TRUE, nlab |-> 0]   \* after "entry:"
LlEmit(lg, i) == [lg EXCEPT !.code = Append(@, i)]

\* The label made by the n-th call of newlab from here; what n calls leave.
newlab(lg, hint, n) == <<"B", hint, lg.nlab + n>>
took(lg, n) == [lg EXCEPT !.nlab = @ + n]
labname(l) == <<"L", l, 0>>

\* Mutant: code after a jump is emitted into the closed block.
ensure_block_never(lg) == lg

ensure_block(lg) ==
    IF lg.block_open THEN lg
    ELSE [LlEmit(took(lg, 1), Lbl(<<"dead", "", lg.nlab + 1>>)) EXCEPT !.block_open = TRUE]

closed(lg, i) == [LlEmit(lg, i) EXCEPT !.block_open = FALSE]
br_to(lg, l) == closed(ensure_block(lg), Br(l))
place_label(lg, l) ==
    [LlEmit(IF lg.block_open THEN LlEmit(lg, Br(l)) ELSE lg, Lbl(l)) EXCEPT !.block_open = TRUE]

\* Evaluating an expression opens a block if none is open.
LlExpr(lg, i) == LlEmit(ensure_block(lg), i)
emit_cond_br(lg, c, tl, fl) == closed(ensure_block(lg), CondBr(c, tl, fl))

(***************************************************************************)
(* emit_stmt, by the kind of the statement.                                *)
(***************************************************************************)
LlExprStmt == Emitting(Simple) /\ Does(LlExpr(em, Expr(Top)), <<>>)
LlBlock == Emitting({"block"}) /\ Does(em, Top.body)
LlReturn == Emitting({"return"}) /\ Does(closed(ensure_block(em), Ret), <<>>)
LlGoto == Emitting({"goto"}) /\ Does(br_to(em, labname(Top.l)), <<>>)
LlLabel == Emitting({"label"}) /\ Does(place_label(em, labname(Top.l)), <<>>)

LlIf ==
    /\ Emitting({"if"})
    /\ LET tl == newlab(em, "then", 1)
           el == newlab(em, "else", 2)
           dl == newlab(em, "endif", 3)
           fl == IF Top.els # <<>> THEN el ELSE dl
       IN Does(place_label(emit_cond_br(took(em, 3), Top.cond, tl, fl), tl),
               Top.then \o <<Join(dl, fl)>>
                 \o IF Top.els # <<>> THEN Top.els \o <<Join(dl, dl)>> ELSE <<>>)

HeadOf(n, hl, bl, el) == [k |-> "head", cond |-> n.cond, hl |-> hl, bl |-> bl, el |-> el]

\* while and for: test at the head, increment after the body.
LlLoop ==
    /\ Emitting({"while", "for"})
    /\ LET hl == newlab(em, "head", 1)
           bl == newlab(em, "body", 2)
           el == newlab(em, "end", 3)
       IN Does(took(em, 3),
               Top.init \o <<HeadOf(Top, hl, bl, el)>> \o Top.body \o Top.inc \o <<Join(hl, el)>>)
LlHead ==
    /\ Emitting({"head"})
    /\ LET lg == place_label(br_to(em, Top.hl), Top.hl)
       IN Does(place_label(IF Top.cond.t = "always" THEN br_to(lg, Top.bl)
                           ELSE emit_cond_br(lg, Top.cond, Top.bl, Top.el), Top.bl), <<>>)

LlDo ==
    /\ Emitting({"do"})
    /\ LET bl == newlab(em, "body", 1)
           hl == newlab(em, "cond", 2)
           el == newlab(em, "end", 3)
       IN Does(place_label(br_to(took(em, 3), bl), bl), Top.body \o <<TestOf(Top, hl, bl, el)>>)
LlTest ==
    /\ Emitting({"test"})
    /\ LET lg == place_label(br_to(em, Top.hl), Top.hl)
       IN Does(place_label(emit_cond_br(lg, Top.cond, Top.bl, Top.el), Top.el), <<>>)

LlJoin == Emitting({"join"}) /\ Does(place_label(br_to(em, Top.l), Top.at), <<>>)

\* Mutant: a function that emits nothing is left without its return.
ll_end_empty(lg) == IF lg.block_open /\ lg.code # <<>> THEN LlEmit(lg, Ret).code ELSE lg.code

\* emit_func, after the body.
ll_end(lg) == IF lg.block_open THEN LlEmit(lg, Ret).code ELSE lg.code
LlDone == /\ phase = "emit" /\ todo = <<>>
          /\ phase' = "run" /\ code' = ll_end(em)
          /\ UNCHANGED <<emission, run>>

LlStep == LlExprStmt \/ LlBlock \/ LlReturn \/ LlGoto \/ LlLabel \/ LlIf \/ LlLoop \/ LlHead
            \/ LlDo \/ LlTest \/ LlJoin \/ LlDone

(* The function with body tree, from emission to its end.                  *)
LlInit(tree) == phase = "emit" /\ todo = tree /\ em = LlStart /\ code = <<>> /\ Idling
LlNext == LlStep \/ Exec
LlSpec(tree) == LlInit(tree) /\ [][LlNext]_lvars
=============================================================================
