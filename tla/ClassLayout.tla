----------------------------- MODULE ClassLayout -----------------------------
(***************************************************************************)
(* parse_class of parse.c: where the members of a class or union lie and   *)
(* how large it is.  The declarations of a unit are read item by item: a   *)
(* header, fields, moves of the cursor $$, the closing brace.  A type is   *)
(* looked up when it is used, so a class may be used before it is complete *)
(* and a size may be asked for too early.                                  *)
(***************************************************************************)
EXTENDS Integers, Sequences

VARIABLES todo,          \* the items still to be read
          classes,       \* ps->classes: what is known under each name
          lay,           \* the class being read, or NoClass
          refused        \* error_tok has been called
layoutVars == <<todo, classes, lay, refused>>

NoName == ""         \* of a class that has no parent
NoClass == [name |-> NoName]
Item == Head(todo)
Reading(op) == ~refused /\ todo # <<>> /\ Item.op = op

\* A type is len elements of a base: a number or pointer of a given size, or
\* a class by name.  len is 0 for what is no array.
BaseSize(b) == IF b.k = "class" THEN classes[b.name].size ELSE b.size
BaseAlign(b) == IF b.k = "class" THEN classes[b.name].align ELSE b.size
SizeOf(ty) == IF ty.len = 0 THEN BaseSize(ty.base) ELSE BaseSize(ty.base) * ty.len
AlignOf(ty) == BaseAlign(ty.base)
Known(ty) == ty.base.k # "class" \/ ty.base.name \in DOMAIN classes

\* The next multiple of a, which is a power of two.
align_up(n, a) == ((n + a - 1) \div a) * a

LayoutInit(items) == /\ todo = items
                     /\ classes = [c \in {} |-> 0]
                     /\ lay = NoClass
                     /\ refused = FALSE

Refuse == /\ refused' = TRUE
          /\ UNCHANGED <<todo, classes, lay>>
Advance == todo' = Tail(todo) /\ UNCHANGED refused

\* The entry a name gets when it is first seen; later ones reuse it.
Fresh == [size |-> 0, align |-> 1, parent |-> NoName, members |-> <<>>, neg |-> 0, back |-> FALSE, moves |-> {},
          start |-> 0, end |-> 0, padded |-> FALSE, union |-> FALSE]
Entered(name) == IF name \in DOMAIN classes THEN classes
                 ELSE [c \in DOMAIN classes \cup {name} |-> IF c = name THEN Fresh ELSE classes[c]]

\* class C;
Forward == /\ Reading("forward")
           /\ classes' = Entered(Item.name)
           /\ Advance /\ UNCHANGED lay

\* class C : P {    The child starts where the parent ends; a class that is
\* defined again keeps the parent it had.  all is the policy of a hint before
\* the class: 0 none, -1 natural, or a boundary.  Nothing reads the entry
\* before the brace, where the parent goes into it with the rest.
OpenClass ==
    /\ Reading("open")
    /\ IF Item.parent # NoName /\ Item.parent \notin DOMAIN Entered(Item.name) THEN Refuse
       ELSE LET known == Entered(Item.name)
                parent == IF Item.parent = NoName THEN known[Item.name].parent ELSE Item.parent
                from == IF parent = NoName THEN Fresh ELSE known[parent]
            IN /\ classes' = known
               /\ lay' = [name |-> Item.name, parent |-> parent, union |-> Item.union,
                          all |-> Item.all, start |-> from.size, off |-> from.size, align |-> from.align,
                          layout_align |-> from.align, neg |-> 0, union_base |-> 0,
                          aligned |-> Item.all # 0, members |-> <<>>, back |-> FALSE, moves |-> {}]
               /\ Advance

Cursor == IF lay.union THEN lay.union_base ELSE lay.off

\* $$ = e;    e is a number, or the cursor and a number.  moves is history:
\* where the end of the class was set to, and after how many members.
Lowest(to) == IF -to > lay.neg THEN -to ELSE lay.neg
MoveTo == Item.to + (IF Item.rel THEN Cursor ELSE 0)
MoveCursor ==
    /\ Reading("move")
    /\ lay' = [lay EXCEPT !.neg = Lowest(MoveTo),
                          !.union_base = IF lay.union THEN MoveTo ELSE @,
                          !.off = IF lay.union THEN @ ELSE MoveTo,
                          !.back = @ \/ (MoveTo < Cursor /\ (lay.members # <<>> \/ lay.parent # NoName)),
                          !.moves = IF lay.union THEN @ ELSE @ \cup {[after |-> Len(lay.members), to |-> MoveTo]}]
    /\ Advance /\ UNCHANGED classes

Policy == IF Item.align # 0 THEN Item.align ELSE lay.all
Boundary == IF Policy < 0 THEN AlignOf(Item.ty) ELSE Policy
\* Mutant: the cursor is rounded down to the boundary.
PositionDown == IF Policy = 0 THEN Cursor ELSE Cursor - (Cursor % Boundary)
Position == IF Policy = 0 THEN Cursor ELSE align_up(Cursor, Boundary)

\* Where the class ends after a member of the given size at pos.  Mutant: a
\* union ends where its last member does.
EndOfLast(pos, size) == pos + size
End(pos, size) == IF lay.union /\ pos + size <= lay.off THEN lay.off ELSE pos + size

NaturalAlign(natural) == IF natural > lay.align THEN natural ELSE lay.align
LayoutAlign == IF Policy # 0 /\ Boundary > lay.layout_align THEN Boundary ELSE lay.layout_align

\* T m;    A class that is not complete cannot be a member.
AddMember ==
    /\ Reading("field")
    /\ IF ~Known(Item.ty) \/ (Item.ty.base.k = "class" /\ Item.ty.len = 0 /\ SizeOf(Item.ty) = 0) THEN Refuse
       ELSE /\ lay' = [lay EXCEPT
                         !.members = Append(@, [name |-> Item.name, ty |-> Item.ty, offset |-> Position,
                                                size |-> SizeOf(Item.ty),
                                                bound |-> IF Policy = 0 THEN 1 ELSE Boundary]),
                         !.off = End(Position, SizeOf(Item.ty)),
                         !.align = NaturalAlign(AlignOf(Item.ty)),
                         !.layout_align = LayoutAlign,
                         !.aligned = @ \/ Item.align # 0]
            /\ Advance /\ UNCHANGED classes

FinalUnpadded == lay.off + lay.neg
FinalSize == IF lay.aligned THEN align_up(lay.off + lay.neg, lay.layout_align) ELSE lay.off + lay.neg

\* };
CloseClass ==
    /\ Reading("close")
    /\ classes' = [classes EXCEPT ![lay.name] =
                     [size |-> FinalSize, align |-> IF lay.aligned THEN lay.layout_align ELSE lay.align,
                      parent |-> lay.parent, members |-> lay.members, neg |-> lay.neg, back |-> lay.back, moves |-> lay.moves,
                      start |-> lay.start, end |-> lay.off, padded |-> lay.aligned, union |-> lay.union]]
    /\ lay' = NoClass
    /\ Advance

\* What parse_class is called for: headers and, between the header of a class
\* and its brace, members and moves.
Types(Names) == [base : [k : {"num"}, size : Nat \ {0}] \cup [k : {"class"}, name : Names], len : Nat]
Decls(Names) == [op : {"forward"}, name : Names]
                  \cup [op : {"open"}, name : Names, parent : Names \cup {NoName}, union : BOOLEAN, all : Int]
                  \cup [op : {"move"}, to : Int, rel : BOOLEAN]
                  \cup [op : {"field"}, name : STRING, ty : Types(Names), align : Int]
                  \cup [op : {"close"}]
Inner(decl) == decl.op \in {"move", "field", "close"}
Opens(decl) == decl.op \in {"open", "move", "field"}
DeclSeqs(Names) == {s \in Seq(Decls(Names)) : /\ s # <<>> => ~Inner(s[1])
                                             /\ \A i \in 1 .. Len(s) - 1 : Inner(s[i + 1]) <=> Opens(s[i])}

LayoutNext == Forward \/ OpenClass \/ MoveCursor \/ AddMember \/ CloseClass
LayoutDone == refused \/ todo = <<>>

-----------------------------------------------------------------------------
\* find_member walks up the parents: what is in every set of classes that holds
\* c and, with a class, its parent.
Ascends(S) == \A d \in S : classes[d].parent # NoName => classes[d].parent \in S
Parents(c) == {d \in DOMAIN classes : \A S \in SUBSET DOMAIN classes : c \in S /\ Ascends(S) => d \in S}
Own(c) == {classes[c].members[i] : i \in DOMAIN classes[c].members}
Reach(c) == UNION {Own(d) : d \in Parents(c)}
Bytes(m) == m.offset .. m.offset + SizeOf(m.ty) - 1

\* What the findings are about: the size of a parent or of an array's elements
\* taken while that class was incomplete, and an inherited or embedded object
\* with members below its own address.
Early(c) == \/ \E m \in Reach(c) : m.size # SizeOf(m.ty)
            \/ \E d \in Parents(c) : classes[d].parent # NoName /\ classes[d].start # classes[classes[d].parent].size
Below(c) == \/ \E d \in Parents(c) \ {c} : classes[d].neg # 0
            \/ \E m \in Reach(c) : m.ty.base.k = "class" /\ classes[m.ty.base.name].neg # 0

EndOf(m) == m.offset + SizeOf(m.ty)

\* "One honest quirk, kept on purpose": $$ was set below the end of a member,
\* after it in its own class or anywhere in one that inherits it.
Rewound(c, e, i) ==
    \E d \in Parents(c) : e \in Parents(d) /\ \E v \in classes[d].moves :
       v.to < EndOf(classes[e].members[i]) /\ (d = e => i <= v.after)
AllInside(c) ==
    \A e \in Parents(c) : \A i \in DOMAIN classes[e].members :
       /\ -classes[c].neg <= classes[e].members[i].offset
       /\ ~Rewound(c, e, i) => EndOf(classes[e].members[i]) <= classes[c].size - classes[c].neg
AllApart(c) == (\A d \in Parents(c) : ~classes[d].back /\ ~classes[d].union) =>
                  \A m, n \in Reach(c) : m # n => Bytes(m) \cap Bytes(n) = {}

\* "the class occupies [lowest offset, last position] and sizeof is that
\* span": no member, inherited ones too, begins below the memory sizeof
\* counts, and none ends above it but one that $$ was moved back over (parse.c
\* parse_class).
MembersInside == \A c \in DOMAIN classes : ~Early(c) /\ ~Below(c) => AllInside(c)

\* Members share bytes only where the source asks for it: in a union, or
\* after $$ was moved back over them (parse.c parse_class).
MembersApart == \A c \in DOMAIN classes : ~Early(c) /\ ~Below(c) => AllApart(c)

\* "padded to the selected aggregate alignment so arrays and nested instances
\* remain correctly aligned": a member placed on a boundary is on one in
\* every element of an array of its class, and inside every class that aligns
\* its members (parse.c align_up, parse_class).
StaysAligned ==
    \A c \in DOMAIN classes : classes[c].padded /\ ~Early(c) =>
        /\ \A m \in Reach(c) : m.offset % m.bound = 0 /\ classes[c].size % m.bound = 0
        /\ \A m \in Own(c) : m.ty.base.k = "class" /\ m.bound >= AlignOf(m.ty) =>
              \A n \in Reach(m.ty.base.name) :
                 classes[m.ty.base.name].padded => (m.offset + n.offset) % n.bound = 0

\* MembersInside and MembersApart without the exceptions, for UnitAsDocumented.
LaidOutAsDocumented == \A c \in DOMAIN classes : AllInside(c) /\ AllApart(c)
=============================================================================
