-------------------------- MODULE ClassLayoutProofs --------------------------
(***************************************************************************)
(* Where parse_class puts the members of a class, proved for any           *)
(* declarations: any number of classes, members, moves of $$, sizes and    *)
(* alignment hints, in any order the grammar allows.                       *)
(***************************************************************************)
EXTENDS ClassLayout, SequenceTheorems, TLAPS

-----------------------------------------------------------------------------
\* What a class looks like while it is read and when it is known.
Boundaries == Nat \ {0}
Members(Names) == [name : STRING, ty : Types(Names), offset : Int, size : Nat, bound : Boundaries]
Moves == [after : Nat, to : Int]
Entries(Names) == [size : Nat, align : Boundaries, parent : Names \cup {NoName}, members : Seq(Members(Names)),
                   neg : Nat, back : BOOLEAN, moves : SUBSET Moves, start : Nat, end : Int, padded : BOOLEAN, union : BOOLEAN]
Lays(Names) == [name : Names, parent : Names \cup {NoName}, union : BOOLEAN, all : Int, start : Nat, off : Int,
                align : Boundaries, layout_align : Boundaries, neg : Nat, union_base : Int, aligned : BOOLEAN,
                members : Seq(Members(Names)), back : BOOLEAN, moves : SUBSET Moves]

\* Nothing lies below neg, and the types of the members are there to be looked up.
Holds(r, known) ==
    \A i \in DOMAIN r.members :
       /\ -r.neg <= r.members[i].offset
       /\ r.members[i].ty.base.k = "class" => r.members[i].ty.base.name \in known

EndOfMember(r, i) == r.members[i].offset + r.members[i].size

\* While $$ only moves up, members follow each other from start to end.
InOrder(r, end) ==
    ~r.back /\ ~r.union =>
        /\ r.parent # NoName => r.start <= end
        /\ \A i \in DOMAIN r.members :
              /\ r.parent # NoName => r.start <= r.members[i].offset
              /\ r.members[i].offset + r.members[i].size <= end
              /\ \A j \in DOMAIN r.members :
                    i < j => r.members[i].offset + r.members[i].size <= r.members[j].offset

\* The end is not below the start or a member unless $$ was set below it.
Covered(r, end) ==
    /\ r.start <= end \/ \E v \in r.moves : v.to <= end
    /\ \A i \in DOMAIN r.members :
          EndOfMember(r, i) <= end \/ \E v \in r.moves : i <= v.after /\ v.to < EndOfMember(r, i)

\* The rest of the unit fits what has been read.
TodoInv(Names) ==
    /\ todo \in Seq(Decls(Names))
    /\ todo # <<>> => (Inner(todo[1]) <=> lay # NoClass)
    /\ \A i \in 1 .. Len(todo) - 1 : Inner(todo[i + 1]) <=> Opens(todo[i])

ClassesInv(Names) ==
    /\ DOMAIN classes \subseteq Names
    /\ classes \in [DOMAIN classes -> Entries(Names)]
    /\ \A c \in DOMAIN classes :
          /\ classes[c].parent \in DOMAIN classes \cup {NoName}
          /\ -classes[c].neg <= classes[c].end
          /\ classes[c].end + classes[c].neg <= classes[c].size
          /\ Holds(classes[c], DOMAIN classes)
          /\ InOrder(classes[c], classes[c].end)
          /\ Covered(classes[c], classes[c].end)

LayInv(Names) ==
    lay # NoClass =>
        /\ lay \in Lays(Names)
        /\ lay.name \in DOMAIN classes
        /\ lay.parent \in DOMAIN classes \cup {NoName}
        /\ -lay.neg <= lay.off
        /\ -lay.neg <= lay.union_base
        /\ Holds(lay, DOMAIN classes)
        /\ InOrder(lay, lay.off)
        /\ Covered(lay, lay.off)

LayoutInv(Names) == TodoInv(Names) /\ ClassesInv(Names) /\ LayInv(Names) /\ refused \in BOOLEAN

-----------------------------------------------------------------------------
\* Rounding up never moves down.
LEMMA AlignUp ==
    ASSUME NEW n \in Int, NEW a \in Boundaries
    PROVE  align_up(n, a) \in Int /\ n <= align_up(n, a)
  BY DEF align_up, Boundaries

\* The sizes and alignments of types that are known.
LEMMA KnownSize ==
    ASSUME NEW Names, ClassesInv(Names), NEW ty \in Types(Names), Known(ty)
    PROVE  SizeOf(ty) \in Nat /\ AlignOf(ty) \in Boundaries
<1>1. ty.len \in Nat
  BY DEF Types
<1>2. BaseSize(ty.base) \in Nat /\ BaseAlign(ty.base) \in Boundaries
  BY DEF Types, Known, BaseSize, BaseAlign, ClassesInv, Entries, Boundaries
<1> QED
  BY <1>1, <1>2 DEF SizeOf, AlignOf

\* What each declaration brings.
LEMMA ItemType ==
    ASSUME NEW Names, TodoInv(Names), todo # <<>>
    PROVE  /\ Item = todo[1]
           /\ Inner(Item) <=> lay # NoClass
           /\ Item.op = "forward" => Item.name \in Names /\ ~Inner(Item) /\ ~Opens(Item)
           /\ Item.op = "open" => /\ Item.name \in Names /\ Item.parent \in Names \cup {NoName}
                                  /\ Item.union \in BOOLEAN /\ Item.all \in Int
                                  /\ ~Inner(Item) /\ Opens(Item)
           /\ Item.op = "move" => Item.to \in Int /\ Item.rel \in BOOLEAN /\ Inner(Item) /\ Opens(Item)
           /\ Item.op = "field" => /\ Item.name \in STRING /\ Item.ty \in Types(Names) /\ Item.align \in Int
                                   /\ Inner(Item) /\ Opens(Item)
           /\ Item.op = "close" => Inner(Item) /\ ~Opens(Item)
<1>1. Item = todo[1] /\ todo[1] \in Decls(Names)
  BY DEF TodoInv, Item
<1>2. Inner(Item) <=> lay # NoClass
  BY <1>1 DEF TodoInv
<1> HIDE DEF Item
<1> DEFINE d == Item
<1>3. d \in Decls(Names)
  BY <1>1
<1> HIDE DEF d
<1>4. /\ d.op = "forward" => d.name \in Names
      /\ d.op = "open" => /\ d.name \in Names /\ d.parent \in Names \cup {NoName}
                          /\ d.union \in BOOLEAN /\ d.all \in Int
      /\ d.op = "move" => d.to \in Int /\ d.rel \in BOOLEAN
      /\ d.op = "field" => d.name \in STRING /\ d.ty \in Types(Names) /\ d.align \in Int
  BY <1>3 DEF Decls
<1> QED
  BY <1>1, <1>2, <1>4 DEF d, Inner, Opens

\* A step forward in the unit: what is left is as well formed as before.
LEMMA NextDecl ==
    ASSUME NEW Names, TodoInv(Names), todo # <<>>, todo' = Tail(todo), Opens(Item) <=> lay' # NoClass
    PROVE  TodoInv(Names)'
<1>1. /\ Tail(todo) \in Seq(Decls(Names))
      /\ Len(Tail(todo)) = Len(todo) - 1
      /\ \A i \in 1 .. Len(Tail(todo)) : Tail(todo)[i] = todo[i + 1]
  BY DEF TodoInv
<1>2. Tail(todo) # <<>> => Len(todo) > 1
  BY <1>1 DEF TodoInv
<1>3. Item = todo[1]
  BY ItemType
<1>4. Tail(todo) # <<>> => Inner(Tail(todo)[1]) = (lay' # NoClass)
  BY <1>1, <1>2, <1>3 DEF TodoInv, Inner
<1> QED
  BY <1>1, <1>2, <1>4 DEF TodoInv, Inner, Opens

\* The members of a class are numbers of bytes at places.
LEMMA MemberType ==
    ASSUME NEW Names, NEW ms \in Seq(Members(Names)), NEW i \in DOMAIN ms
    PROVE  ms[i].offset \in Int /\ ms[i].size \in Nat /\ ms[i].bound \in Boundaries
<1>1. ms[i] \in Members(Names)
  OBVIOUS
<1> QED
  BY <1>1 DEF Members

\* The entry of a name that is first seen.
LEMMA FreshEntry ==
    ASSUME NEW Names
    PROVE  /\ Fresh \in Entries(Names)
           /\ Fresh.parent = NoName /\ Fresh.neg = 0 /\ Fresh.end = 0 /\ Fresh.size = 0 /\ Fresh.start = 0
           /\ DOMAIN Fresh.members = {} /\ DOMAIN (<<>>) = {}
           /\ <<>> \in Seq(Members(Names))
  BY DEF Fresh, Entries, Boundaries

\* A name that is entered adds an empty class and changes no other.
LEMMA EntersName ==
    ASSUME NEW Names, NEW name \in Names, ClassesInv(Names), classes' = Entered(name)
    PROVE  /\ ClassesInv(Names)'
           /\ DOMAIN classes' = DOMAIN classes \cup {name}
           /\ \A c \in DOMAIN classes : classes'[c] = classes[c]
<1>1. CASE name \in DOMAIN classes
  <2>1. classes' = classes
    BY <1>1 DEF Entered
  <2> QED
    BY <1>1, <2>1 DEF ClassesInv
<1>2. CASE name \notin DOMAIN classes
  <2>1. /\ DOMAIN classes' = DOMAIN classes \cup {name}
        /\ \A c \in DOMAIN classes : classes'[c] = classes[c]
        /\ classes'[name] = Fresh
        /\ classes' = [c \in DOMAIN classes' |-> classes'[c]]
    BY <1>2 DEF Entered
  <2>2. /\ Fresh \in Entries(Names)
        /\ Fresh.parent = NoName /\ Fresh.neg = 0 /\ Fresh.end = 0 /\ Fresh.size = 0 /\ Fresh.start = 0
        /\ DOMAIN Fresh.members = {}
    BY FreshEntry
  <2>3. classes' \in [DOMAIN classes' -> Entries(Names)] /\ DOMAIN classes' \subseteq Names
    BY <2>1, <2>2 DEF ClassesInv
  <2>4. ASSUME NEW c \in DOMAIN classes'
        PROVE  /\ classes'[c].parent \in DOMAIN classes' \cup {NoName}
               /\ -classes'[c].neg <= classes'[c].end
               /\ classes'[c].end + classes'[c].neg <= classes'[c].size
               /\ Holds(classes'[c], DOMAIN classes')
               /\ InOrder(classes'[c], classes'[c].end)
               /\ Covered(classes'[c], classes'[c].end)
    <3>1. CASE c \in DOMAIN classes
      BY <2>1, <3>1 DEF ClassesInv, Holds
    <3>2. CASE c = name
      <4>1. classes'[c] = Fresh
        BY <2>1, <3>2
      <4>2. Holds(Fresh, DOMAIN classes') /\ InOrder(Fresh, 0) /\ Covered(Fresh, 0)
        BY <2>2 DEF Holds, InOrder, Covered
      <4>3. -Fresh.neg <= 0 /\ 0 + Fresh.neg <= 0
        BY <2>2
      <4> QED
        BY <2>2, <4>1, <4>2, <4>3
    <3> QED
      BY <2>1, <3>1, <3>2
  <2> QED
    BY <2>1, <2>3, <2>4 DEF ClassesInv
<1> QED
  BY <1>1, <1>2

\* A class that is being read does not mind that more names become known.
LEMMA LayKeeps ==
    ASSUME NEW Names, LayInv(Names), UNCHANGED lay, DOMAIN classes \subseteq DOMAIN classes'
    PROVE  LayInv(Names)'
  BY DEF LayInv, Holds

-----------------------------------------------------------------------------
LEMMA ForwardKeeps ==
    ASSUME NEW Names, NoName \notin Names, LayoutInv(Names), Forward
    PROVE  LayoutInv(Names)'
<1>1. TodoInv(Names) /\ todo # <<>> /\ Item.op = "forward"
  BY DEF Forward, Reading, LayoutInv
<1>2. Item.name \in Names /\ lay = NoClass /\ ~Opens(Item)
  BY <1>1, ItemType
<1>3. /\ classes' = Entered(Item.name) /\ lay' = lay
      /\ todo' = Tail(todo) /\ refused' = refused
  BY DEF Forward, Advance
<1>4. ClassesInv(Names)'
  BY <1>2, <1>3, EntersName DEF LayoutInv
<1>5. TodoInv(Names)'
  BY <1>1, <1>2, <1>3, NextDecl
<1> QED
  BY <1>2, <1>3, <1>4, <1>5 DEF LayoutInv, LayInv

LEMMA OpenClassKeeps ==
    ASSUME NEW Names, NoName \notin Names, LayoutInv(Names), OpenClass
    PROVE  LayoutInv(Names)'
<1>1. TodoInv(Names) /\ todo # <<>> /\ Item.op = "open"
  BY DEF OpenClass, Reading, LayoutInv
<1>2. /\ Item.name \in Names /\ Item.parent \in Names \cup {NoName}
      /\ Item.union \in BOOLEAN /\ Item.all \in Int
      /\ lay = NoClass /\ Opens(Item)
  BY <1>1, ItemType
<1>3. CASE Refuse
  BY <1>3 DEF Refuse, LayoutInv, TodoInv, ClassesInv, LayInv
<1>4. CASE ~Refuse
  <2> DEFINE known == Entered(Item.name)
             parent == IF Item.parent = NoName THEN known[Item.name].parent ELSE Item.parent
             from == IF parent = NoName THEN Fresh ELSE known[parent]
  <2>1. /\ Item.parent # NoName => Item.parent \in DOMAIN known
        /\ classes' = known
        /\ lay' = [name |-> Item.name, parent |-> parent, union |-> Item.union,
                   all |-> Item.all, start |-> from.size, off |-> from.size, align |-> from.align,
                   layout_align |-> from.align, neg |-> 0, union_base |-> 0,
                   aligned |-> Item.all # 0, members |-> <<>>, back |-> FALSE, moves |-> {}]
        /\ todo' = Tail(todo) /\ refused' = refused
    BY <1>4 DEF OpenClass, Advance
  <2> HIDE DEF known
  <2>2. ClassesInv(Names)' /\ DOMAIN classes' = DOMAIN classes \cup {Item.name}
    BY <1>2, <2>1, EntersName DEF LayoutInv, known
  <2>2a. parent \in DOMAIN classes' \cup {NoName} /\ parent \in Names \cup {NoName}
    BY <1>2, <2>1, <2>2 DEF ClassesInv
  <2> HIDE DEF parent
  <2>3. from \in Entries(Names)
    <3>1. CASE parent = NoName
      BY <3>1, FreshEntry
    <3>2. CASE parent # NoName
      BY <3>2, <2>1, <2>2, <2>2a DEF ClassesInv
    <3> QED
      BY <3>1, <3>2
  <2>4. from.size \in Nat /\ from.align \in Boundaries
    <3> HIDE DEF from
    <3> QED
      BY <2>3 DEF Entries
  <2> HIDE DEF from
  <2>5. lay' \in Lays(Names)
    <3>1. from.size \in Int
      BY <2>4
    <3>2. <<>> \in Seq(Members(Names))
      BY FreshEntry
    <3> QED
      BY <1>2, <2>1, <2>2a, <2>4, <3>1, <3>2 DEF Lays
  <2>6. lay' # NoClass
    BY <1>2, <2>1 DEF NoClass
  <2>7. LayInv(Names)'
    <3>1. /\ lay'.name = Item.name /\ lay'.parent = parent /\ lay'.start = from.size
          /\ lay'.off = from.size /\ lay'.neg = 0 /\ lay'.union_base = 0 /\ lay'.members = <<>>
      BY <2>1
    <3>2. DOMAIN lay'.members = {}
      BY <3>1, FreshEntry
    <3>3. lay'.name \in DOMAIN classes' /\ lay'.parent \in DOMAIN classes' \cup {NoName}
      BY <1>2, <2>1, <2>2, <2>2a, <3>1
    <3> QED
      <4>1. Holds(lay', DOMAIN classes')
        BY <3>2 DEF Holds
      <4>2. InOrder(lay', from.size)
        BY <2>4, <3>1, <3>2 DEF InOrder
      <4>2a. Covered(lay', from.size)
        BY <2>4, <3>1, <3>2 DEF Covered
      <4>3. -lay'.neg <= lay'.off /\ -lay'.neg <= lay'.union_base
        BY <2>4, <3>1
      <4> QED
        BY <2>5, <3>1, <3>3, <4>1, <4>2, <4>2a, <4>3 DEF LayInv
  <2>8. TodoInv(Names)'
    BY <1>1, <1>2, <2>1, <2>6, NextDecl
  <2> QED
    BY <2>1, <2>2, <2>7, <2>8 DEF LayoutInv
<1> QED
  BY <1>3, <1>4

LEMMA MoveCursorKeeps ==
    ASSUME NEW Names, NoName \notin Names, LayoutInv(Names), MoveCursor
    PROVE  LayoutInv(Names)'
<1>1. TodoInv(Names) /\ todo # <<>> /\ Item.op = "move"
  BY DEF MoveCursor, Reading, LayoutInv
<1>2. Item.to \in Int /\ Item.rel \in BOOLEAN /\ lay # NoClass /\ Opens(Item)
  BY <1>1, ItemType
<1>3. /\ lay \in Lays(Names) /\ lay.name \in DOMAIN classes
      /\ lay.parent \in DOMAIN classes \cup {NoName}
      /\ -lay.neg <= lay.off /\ -lay.neg <= lay.union_base
      /\ Holds(lay, DOMAIN classes) /\ InOrder(lay, lay.off) /\ Covered(lay, lay.off)
  BY <1>2 DEF LayInv, LayoutInv
<1>4. /\ lay.off \in Int /\ lay.neg \in Nat /\ lay.union_base \in Int /\ lay.start \in Nat
      /\ lay.union \in BOOLEAN /\ lay.back \in BOOLEAN /\ lay.name \in Names
      /\ lay.moves \subseteq Moves /\ lay.members \in Seq(Members(Names))
      /\ \A i \in DOMAIN lay.members : lay.members[i].offset \in Int /\ lay.members[i].size \in Nat
  <2>1. lay.members \in Seq(Members(Names))
    BY <1>3 DEF Lays
  <2> QED
    BY <1>3, <2>1, MemberType DEF Lays
<1>5. /\ MoveTo \in Int /\ Cursor \in Int
      /\ ~lay.union => Cursor = lay.off
  BY <1>2, <1>4 DEF MoveTo, Cursor
<1>6. Lowest(MoveTo) \in Nat /\ lay.neg <= Lowest(MoveTo) /\ -Lowest(MoveTo) <= MoveTo
  BY <1>4, <1>5 DEF Lowest
<1> DEFINE move == [after |-> Len(lay.members), to |-> MoveTo]
<1>6a. move \in Moves /\ move.to = MoveTo /\ \A i \in DOMAIN lay.members : i <= move.after
  BY <1>4, <1>5 DEF Moves
<1>7. /\ lay' = [lay EXCEPT !.neg = Lowest(MoveTo),
                            !.union_base = IF lay.union THEN MoveTo ELSE @,
                            !.off = IF lay.union THEN @ ELSE MoveTo,
                            !.back = @ \/ (MoveTo < Cursor /\ (lay.members # <<>> \/ lay.parent # NoName)),
                            !.moves = IF lay.union THEN @ ELSE @ \cup {move}]
      /\ todo' = Tail(todo) /\ refused' = refused /\ classes' = classes
  BY DEF MoveCursor, Advance
<1> HIDE DEF move
<1>8. /\ lay'.neg = Lowest(MoveTo) /\ lay'.members = lay.members /\ lay'.parent = lay.parent
      /\ lay'.union = lay.union /\ lay'.start = lay.start /\ lay'.name = lay.name
      /\ lay'.off = IF lay.union THEN lay.off ELSE MoveTo
      /\ lay'.union_base = IF lay.union THEN MoveTo ELSE lay.union_base
      /\ lay'.back = (lay.back \/ (MoveTo < Cursor /\ (lay.members # <<>> \/ lay.parent # NoName)))
      /\ lay'.moves = IF lay.union THEN lay.moves ELSE lay.moves \cup {move}
  BY <1>3, <1>7 DEF Lays
<1>9. lay' \in Lays(Names)
  <2>1. (IF lay.union THEN lay.moves ELSE lay.moves \cup {move}) \in SUBSET Moves
    BY <1>4, <1>6a
  <2> QED
    BY <1>3, <1>4, <1>5, <1>6, <1>7, <2>1 DEF Lays
<1>10. lay' # NoClass
  BY <1>4, <1>8 DEF NoClass
<1>11. InOrder(lay', lay'.off)
  <2>1. SUFFICES ASSUME ~lay'.back, ~lay.union
                 PROVE  /\ lay.parent # NoName => lay.start <= MoveTo
                        /\ \A i \in DOMAIN lay.members :
                              /\ lay.parent # NoName => lay.start <= lay.members[i].offset
                              /\ lay.members[i].offset + lay.members[i].size <= MoveTo
                              /\ \A j \in DOMAIN lay.members :
                                    i < j => lay.members[i].offset + lay.members[i].size <= lay.members[j].offset
    BY <1>8 DEF InOrder
  <2>2. ~lay.back /\ (lay.parent # NoName \/ lay.members # <<>> => lay.off <= MoveTo)
    <3>1. ~lay.back /\ ~(MoveTo < Cursor /\ (lay.members # <<>> \/ lay.parent # NoName))
      BY <1>4, <1>8, <2>1
    <3> QED
      BY <1>4, <1>5, <2>1, <3>1
  <2>3. \A i \in DOMAIN lay.members : lay.members # <<>>
    BY FreshEntry
  <2> QED
    BY <1>3, <1>4, <1>5, <2>1, <2>2, <2>3 DEF InOrder
<1>11a. Covered(lay', lay'.off)
  <2>1. CASE lay.union
    BY <1>3, <1>8, <2>1 DEF Covered, EndOfMember
  <2>2. CASE ~lay.union
    <3>1. lay'.moves = lay.moves \cup {move} /\ lay'.off = MoveTo
      BY <1>8, <2>2
    <3>2. \E v \in lay'.moves : v.to <= lay'.off
      BY <1>5, <1>6a, <3>1
    <3>3. ASSUME NEW i \in DOMAIN lay'.members
          PROVE  EndOfMember(lay', i) <= MoveTo \/ \E v \in lay'.moves : i <= v.after /\ v.to < EndOfMember(lay', i)
      <4>1. EndOfMember(lay', i) \in Int /\ i \in DOMAIN lay.members
        BY <1>4, <1>8, <3>3 DEF EndOfMember
      <4> QED
        BY <1>5, <1>6a, <3>1, <4>1
    <3> QED
      BY <3>1, <3>2, <3>3 DEF Covered
  <2> QED
    BY <2>1, <2>2
<1>12. Holds(lay', DOMAIN classes')
  BY <1>3, <1>4, <1>6, <1>7, <1>8 DEF Holds
<1>13. LayInv(Names)'
  <2>1. -lay'.neg <= lay'.off /\ -lay'.neg <= lay'.union_base
    BY <1>3, <1>4, <1>5, <1>6, <1>8
  <2> QED
    BY <1>3, <1>7, <1>8, <1>9, <1>11, <1>11a, <1>12, <2>1 DEF LayInv
<1>14. TodoInv(Names)'
  BY <1>1, <1>2, <1>7, <1>10, NextDecl
<1>15. ClassesInv(Names)'
  BY <1>7 DEF LayoutInv, ClassesInv
<1> QED
  BY <1>7, <1>13, <1>14, <1>15 DEF LayoutInv

LEMMA AddMemberKeeps ==
    ASSUME NEW Names, NoName \notin Names, LayoutInv(Names), AddMember
    PROVE  LayoutInv(Names)'
<1>1. TodoInv(Names) /\ todo # <<>> /\ Item.op = "field"
  BY DEF AddMember, Reading, LayoutInv
<1>2. /\ Item.name \in STRING /\ Item.ty \in Types(Names) /\ Item.align \in Int
      /\ lay # NoClass /\ Opens(Item)
  BY <1>1, ItemType
<1>3. /\ lay \in Lays(Names) /\ lay.name \in DOMAIN classes
      /\ lay.parent \in DOMAIN classes \cup {NoName}
      /\ -lay.neg <= lay.off /\ -lay.neg <= lay.union_base
      /\ Holds(lay, DOMAIN classes) /\ InOrder(lay, lay.off) /\ Covered(lay, lay.off)
  BY <1>2 DEF LayInv, LayoutInv
<1>4. /\ lay.off \in Int /\ lay.neg \in Nat /\ lay.union_base \in Int /\ lay.start \in Nat
      /\ lay.all \in Int /\ lay.align \in Boundaries /\ lay.layout_align \in Boundaries
      /\ lay.union \in BOOLEAN /\ lay.back \in BOOLEAN /\ lay.aligned \in BOOLEAN /\ lay.name \in Names
      /\ lay.members \in Seq(Members(Names)) /\ lay.moves \subseteq Moves
      /\ \A i \in DOMAIN lay.members : lay.members[i].offset \in Int /\ lay.members[i].size \in Nat
  <2>1. lay.members \in Seq(Members(Names))
    BY <1>3 DEF Lays
  <2> QED
    BY <1>3, <2>1, MemberType DEF Lays
<1>5. CASE Refuse
  BY <1>5 DEF Refuse, LayoutInv, TodoInv, ClassesInv, LayInv
<1>6. CASE ~Refuse
  <2> DEFINE size == SizeOf(Item.ty)
             m == [name |-> Item.name, ty |-> Item.ty, offset |-> Position, size |-> size,
                   bound |-> IF Policy = 0 THEN 1 ELSE Boundary]
  <2>1. Known(Item.ty)
    BY <1>6 DEF AddMember
  <2>2. size \in Nat /\ AlignOf(Item.ty) \in Boundaries
    BY <1>2, <2>1, KnownSize DEF LayoutInv
  <2>3. Policy \in Int /\ (Policy # 0 => Boundary \in Boundaries)
    BY <1>2, <1>4, <2>2 DEF Policy, Boundary, Boundaries
  <2>4. Cursor \in Int /\ -lay.neg <= Cursor /\ (~lay.union => Cursor = lay.off)
    BY <1>3, <1>4 DEF Cursor
  <2>5. Position \in Int /\ Cursor <= Position
    BY <2>3, <2>4, AlignUp DEF Position
  <2>6. lay' = [lay EXCEPT !.members = Append(@, m),
                           !.off = End(Position, size),
                           !.align = NaturalAlign(AlignOf(Item.ty)),
                           !.layout_align = LayoutAlign,
                           !.aligned = @ \/ Item.align # 0]
        /\ todo' = Tail(todo) /\ refused' = refused /\ classes' = classes
    BY <1>6 DEF AddMember, Advance
  <2>7. /\ m \in Members(Names) /\ m.offset = Position /\ m.size = size /\ m.ty = Item.ty
    BY <1>2, <2>2, <2>3, <2>5 DEF Members, Boundaries
  <2> HIDE DEF size, m
  <2>8. /\ End(Position, size) \in Int
        /\ lay.off <= End(Position, size) /\ Position + size <= End(Position, size)
        /\ Position + size <= End(Position, size) \/ ~lay.union
        /\ -lay.neg <= End(Position, size)
        /\ ~lay.union => End(Position, size) = Position + size
    BY <1>3, <1>4, <2>2, <2>4, <2>5 DEF End
  <2>9. NaturalAlign(AlignOf(Item.ty)) \in Boundaries /\ LayoutAlign \in Boundaries
    BY <1>4, <2>2, <2>3 DEF NaturalAlign, LayoutAlign
  <2>10. /\ lay'.neg = lay.neg /\ lay'.members = Append(lay.members, m) /\ lay'.parent = lay.parent
         /\ lay'.union = lay.union /\ lay'.start = lay.start /\ lay'.name = lay.name /\ lay'.back = lay.back
         /\ lay'.off = End(Position, size) /\ lay'.union_base = lay.union_base
         /\ lay'.moves = lay.moves
    BY <1>3, <2>6 DEF Lays
  <2>11. lay' \in Lays(Names)
    <3>1. (lay.aligned \/ Item.align # 0) \in BOOLEAN
      OBVIOUS
    <3>2. Append(lay.members, m) \in Seq(Members(Names))
      BY <1>4, <2>7
    <3> QED
      BY <1>3, <2>6, <2>8, <2>9, <3>1, <3>2 DEF Lays
  <2>12. lay' # NoClass
    BY <1>4, <2>10 DEF NoClass
  <2>13. /\ DOMAIN lay'.members = DOMAIN lay.members \cup {Len(lay.members) + 1}
         /\ \A i \in DOMAIN lay.members : i < Len(lay.members) + 1 /\ lay'.members[i] = lay.members[i]
         /\ lay'.members[Len(lay.members) + 1] = m
         /\ DOMAIN lay.members \subseteq Nat /\ Len(lay.members) + 1 \in Nat
    BY <1>4, <2>7, <2>10
  <2> DEFINE last == Len(lay.members) + 1
  <2>14. InOrder(lay', lay'.off)
    <3>1. SUFFICES ASSUME ~lay.back, ~lay.union
                   PROVE  /\ lay.parent # NoName => lay.start <= lay'.off
                          /\ \A i \in DOMAIN lay'.members :
                                /\ lay.parent # NoName => lay.start <= lay'.members[i].offset
                                /\ lay'.members[i].offset + lay'.members[i].size <= lay'.off
                                /\ \A j \in DOMAIN lay'.members :
                                      i < j => lay'.members[i].offset + lay'.members[i].size <= lay'.members[j].offset
      BY <2>10 DEF InOrder
    <3>2. lay.off <= Position /\ lay'.off = Position + size
      BY <2>4, <2>5, <2>8, <2>10, <3>1
    <3>3. /\ lay.parent # NoName => lay.start <= lay.off
          /\ \A i \in DOMAIN lay.members :
                /\ lay.parent # NoName => lay.start <= lay.members[i].offset
                /\ lay.members[i].offset + lay.members[i].size <= lay.off
                /\ \A j \in DOMAIN lay.members :
                      i < j => lay.members[i].offset + lay.members[i].size <= lay.members[j].offset
      BY <1>3, <3>1 DEF InOrder
    <3>4. ASSUME NEW i \in DOMAIN lay'.members
          PROVE  /\ lay.parent # NoName => lay.start <= lay'.members[i].offset
                 /\ lay'.members[i].offset + lay'.members[i].size <= lay'.off
                 /\ \A j \in DOMAIN lay'.members :
                       i < j => lay'.members[i].offset + lay'.members[i].size <= lay'.members[j].offset
      <4>1. CASE i \in DOMAIN lay.members
        <5>1. lay'.members[i] = lay.members[i]
          BY <2>13, <4>1
        <5>2. ASSUME NEW j \in DOMAIN lay'.members, i < j
              PROVE  lay.members[i].offset + lay.members[i].size <= lay'.members[j].offset
          <6>1. CASE j \in DOMAIN lay.members
            BY <2>13, <3>3, <4>1, <5>2, <6>1
          <6>2. CASE j = last
            <7>1. lay'.members[j].offset = Position
              BY <2>7, <2>13, <6>2
            <7>2. /\ lay.members[i].offset \in Int /\ lay.members[i].size \in Nat
                  /\ lay.members[i].offset + lay.members[i].size <= lay.off
              BY <1>4, <3>3, <4>1
            <7> QED
              BY <1>4, <2>5, <3>2, <7>1, <7>2
          <6> QED
            BY <2>13, <6>1, <6>2
        <5>3. lay.members[i].offset + lay.members[i].size <= lay'.off
          <6>1. lay.members[i].offset \in Int /\ lay.members[i].size \in Nat
            BY <1>4, <4>1
          <6>2. lay.members[i].offset + lay.members[i].size <= lay.off
            BY <3>3, <4>1
          <6>3. lay.off \in Int /\ size \in Nat /\ Position \in Int
            BY <1>4, <2>2, <2>5
          <6> QED
            BY <3>2, <6>1, <6>2, <6>3
        <5> QED
          BY <3>3, <4>1, <5>1, <5>2, <5>3
      <4>2. CASE i = last
        <5>1. \A j \in DOMAIN lay'.members : ~(i < j)
          BY <2>13, <4>2
        <5> QED
          BY <1>4, <2>2, <2>5, <2>7, <2>13, <3>2, <3>3, <4>2, <5>1
      <4> QED
        BY <2>13, <4>1, <4>2
    <3> QED
      BY <1>4, <2>2, <2>5, <3>2, <3>3, <3>4
  <2>14a. Covered(lay', lay'.off)
    <3>1. lay.off <= lay'.off /\ Position + size <= lay'.off /\ lay'.off \in Int
      BY <2>8, <2>10
    <3>2. lay.start <= lay.off => lay.start <= lay'.off
      BY <1>4, <3>1
    <3>3. ASSUME NEW v \in lay.moves, v.to <= lay.off PROVE v.to <= lay'.off
      <4>1. v.to \in Int
        BY <1>4, <3>3 DEF Moves
      <4> QED
        BY <1>4, <3>1, <3>3, <4>1
    <3>4. ASSUME NEW i \in DOMAIN lay'.members
          PROVE  EndOfMember(lay', i) <= lay'.off \/ \E v \in lay.moves : i <= v.after /\ v.to < EndOfMember(lay', i)
      <4>1. CASE i = last
        BY <2>7, <2>13, <3>1, <4>1 DEF EndOfMember
      <4>2. CASE i \in DOMAIN lay.members
        <5>1. EndOfMember(lay', i) = EndOfMember(lay, i) /\ EndOfMember(lay, i) \in Int
          <6>1. lay'.members[i] = lay.members[i]
            BY <2>13, <4>2
          <6>2. lay.members[i].offset \in Int /\ lay.members[i].size \in Nat
            BY <1>4, <4>2
          <6> QED
            BY <6>1, <6>2 DEF EndOfMember
        <5>2. EndOfMember(lay, i) <= lay.off => EndOfMember(lay, i) <= lay'.off
          BY <1>4, <3>1, <5>1
        <5> QED
          BY <1>3, <4>2, <5>1, <5>2 DEF Covered
      <4> QED
        BY <2>13, <3>4, <4>1, <4>2
    <3> QED
      BY <1>3, <2>10, <3>2, <3>3, <3>4 DEF Covered
  <2>15. Holds(lay', DOMAIN classes')
    <3>1. -lay.neg <= m.offset
      BY <1>4, <2>4, <2>5, <2>7
    <3>2. m.ty.base.k = "class" => m.ty.base.name \in DOMAIN classes
      BY <2>1, <2>7 DEF Known
    <3> QED
      BY <1>3, <2>6, <2>10, <2>13, <3>1, <3>2 DEF Holds
  <2>16. LayInv(Names)'
    BY <1>3, <2>6, <2>8, <2>10, <2>11, <2>14, <2>14a, <2>15 DEF LayInv
  <2>17. TodoInv(Names)'
    BY <1>1, <1>2, <2>6, <2>12, NextDecl
  <2>18. ClassesInv(Names)'
    BY <2>6 DEF LayoutInv, ClassesInv
  <2> QED
    BY <2>6, <2>16, <2>17, <2>18 DEF LayoutInv
<1> QED
  BY <1>5, <1>6

LEMMA CloseClassKeeps ==
    ASSUME NEW Names, NoName \notin Names, LayoutInv(Names), CloseClass
    PROVE  LayoutInv(Names)'
<1>1. TodoInv(Names) /\ todo # <<>> /\ Item.op = "close"
  BY DEF CloseClass, Reading, LayoutInv
<1>2. lay # NoClass /\ ~Opens(Item)
  BY <1>1, ItemType
<1>3. /\ lay \in Lays(Names) /\ lay.name \in DOMAIN classes
      /\ lay.parent \in DOMAIN classes \cup {NoName}
      /\ -lay.neg <= lay.off
      /\ Holds(lay, DOMAIN classes) /\ InOrder(lay, lay.off) /\ Covered(lay, lay.off)
  BY <1>2 DEF LayInv, LayoutInv
<1>4. /\ lay.off \in Int /\ lay.neg \in Nat /\ lay.start \in Nat
      /\ lay.align \in Boundaries /\ lay.layout_align \in Boundaries
      /\ lay.union \in BOOLEAN /\ lay.back \in BOOLEAN /\ lay.aligned \in BOOLEAN
      /\ lay.parent \in Names \cup {NoName} /\ lay.members \in Seq(Members(Names))
      /\ lay.moves \in SUBSET Moves
  BY <1>3 DEF Lays
<1>5. FinalSize \in Nat /\ lay.off + lay.neg <= FinalSize
  <2>1. lay.off + lay.neg \in Int /\ 0 <= lay.off + lay.neg
    BY <1>3, <1>4
  <2>2. /\ align_up(lay.off + lay.neg, lay.layout_align) \in Int
        /\ lay.off + lay.neg <= align_up(lay.off + lay.neg, lay.layout_align)
    BY <1>4, <2>1, AlignUp
  <2> QED
    BY <2>1, <2>2 DEF FinalSize
<1> DEFINE a == IF lay.aligned THEN lay.layout_align ELSE lay.align
           e == [size |-> FinalSize, align |-> a,
                 parent |-> lay.parent, members |-> lay.members, neg |-> lay.neg, back |-> lay.back, moves |-> lay.moves,
                 start |-> lay.start, end |-> lay.off, padded |-> lay.aligned, union |-> lay.union]
<1>6. /\ classes' = [classes EXCEPT ![lay.name] = e]
      /\ lay' = NoClass /\ todo' = Tail(todo) /\ refused' = refused
  BY DEF CloseClass, Advance
<1>7. a \in Boundaries
  BY <1>4
<1> HIDE DEF a
<1>8. /\ e \in Entries(Names)
      /\ e.size = FinalSize /\ e.parent = lay.parent /\ e.members = lay.members /\ e.neg = lay.neg
      /\ e.back = lay.back /\ e.start = lay.start /\ e.end = lay.off /\ e.union = lay.union
      /\ e.moves = lay.moves
  BY <1>4, <1>5, <1>7 DEF Entries
<1> HIDE DEF e
<1>9. /\ DOMAIN classes' = DOMAIN classes /\ classes'[lay.name] = e
      /\ \A c \in DOMAIN classes : c # lay.name => classes'[c] = classes[c]
  BY <1>3, <1>6
<1>10. Holds(e, DOMAIN classes) /\ InOrder(e, e.end) /\ Covered(e, e.end)
  BY <1>3, <1>8 DEF Holds, InOrder, Covered, EndOfMember
<1>11. ClassesInv(Names)'
  <2>1. classes' \in [DOMAIN classes -> Entries(Names)]
    BY <1>6, <1>8 DEF LayoutInv, ClassesInv
  <2>2. ASSUME NEW c \in DOMAIN classes'
        PROVE  /\ classes'[c].parent \in DOMAIN classes' \cup {NoName}
               /\ -classes'[c].neg <= classes'[c].end
               /\ classes'[c].end + classes'[c].neg <= classes'[c].size
               /\ Holds(classes'[c], DOMAIN classes')
               /\ InOrder(classes'[c], classes'[c].end)
               /\ Covered(classes'[c], classes'[c].end)
    <3>1. CASE c = lay.name
      BY <1>3, <1>5, <1>8, <1>9, <1>10, <3>1
    <3>2. CASE c # lay.name
      BY <1>9, <3>2 DEF LayoutInv, ClassesInv
    <3> QED
      BY <3>1, <3>2
  <2> QED
    BY <1>9, <2>1, <2>2 DEF LayoutInv, ClassesInv
<1>12. TodoInv(Names)'
  BY <1>1, <1>2, <1>6, NextDecl
<1> QED
  BY <1>6, <1>11, <1>12 DEF LayoutInv, LayInv

\* LayoutInv is an invariant of reading any unit.
LEMMA LayoutInvariant ==
    ASSUME NEW Names, NoName \notin Names, NEW items \in DeclSeqs(Names)
    PROVE  LayoutInit(items) /\ [][LayoutNext]_layoutVars => []LayoutInv(Names)
<1>1. LayoutInit(items) => LayoutInv(Names)
  <2>1. SUFFICES ASSUME LayoutInit(items) PROVE LayoutInv(Names)
    OBVIOUS
  <2>2. TodoInv(Names)
    BY <2>1 DEF LayoutInit, TodoInv, DeclSeqs
  <2>3. DOMAIN classes = {} /\ classes = [c \in DOMAIN classes |-> classes[c]]
    BY <2>1 DEF LayoutInit
  <2>4. ClassesInv(Names)
    BY <2>3 DEF ClassesInv
  <2> QED
    BY <2>1, <2>2, <2>4 DEF LayoutInit, LayoutInv, LayInv
<1>2. LayoutInv(Names) /\ [LayoutNext]_layoutVars => LayoutInv(Names)'
  <2>1. SUFFICES ASSUME LayoutInv(Names), [LayoutNext]_layoutVars PROVE LayoutInv(Names)'
    OBVIOUS
  <2>2. CASE UNCHANGED layoutVars
    BY <2>1, <2>2 DEF LayoutInv, TodoInv, ClassesInv, LayInv, layoutVars
  <2> QED
    BY <2>1, <2>2, ForwardKeeps, OpenClassKeeps, MoveCursorKeeps, AddMemberKeeps, CloseClassKeeps DEF LayoutNext
<1> QED
  BY <1>1, <1>2, PTL

-----------------------------------------------------------------------------
\* A class is among its own parents.
LEMMA OwnParent ==
    ASSUME NEW c \in DOMAIN classes
    PROVE  c \in Parents(c)
  BY DEF Parents

\* The members of a class and of its parents are its own members or lie in a
\* parent, at places and with sizes that are numbers.
LEMMA ReachMember ==
    ASSUME NEW Names, ClassesInv(Names), NEW c, NEW m \in Reach(c)
    PROVE  \E d \in Parents(c), i \in Nat :
              /\ d \in DOMAIN classes /\ i \in DOMAIN classes[d].members
              /\ m = classes[d].members[i]
              /\ m.offset \in Int /\ m.size \in Nat /\ SizeOf(m.ty) \in Nat
              /\ -classes[d].neg <= m.offset
<1>1. PICK d \in Parents(c) : m \in Own(d)
  BY DEF Reach
<1>2. PICK i \in DOMAIN classes[d].members : m = classes[d].members[i]
  BY <1>1 DEF Own
<1>3. d \in DOMAIN classes
  BY DEF Parents
<1>4. classes[d] \in Entries(Names) /\ Holds(classes[d], DOMAIN classes)
  BY <1>3 DEF ClassesInv
<1>5. classes[d].members \in Seq(Members(Names))
  BY <1>4 DEF Entries
<1>6. m \in Members(Names) /\ i \in Nat
  BY <1>2, <1>5
<1>7. m.offset \in Int /\ m.size \in Nat /\ m.ty \in Types(Names)
  BY <1>6 DEF Members
<1>8. -classes[d].neg <= m.offset /\ Known(m.ty)
  BY <1>2, <1>4 DEF Holds, Known
<1> QED
  BY <1>1, <1>2, <1>3, <1>6, <1>7, <1>8, KnownSize

-----------------------------------------------------------------------------
\* The parents of a class: closed under parent, the least such set, a chain.
LEMMA ParentClosed ==
    ASSUME NEW Names, ClassesInv(Names), NEW c, NEW d \in Parents(c), classes[d].parent # NoName
    PROVE  classes[d].parent \in Parents(c)
<1>1. d \in DOMAIN classes /\ classes[d].parent \in DOMAIN classes
  BY DEF Parents, ClassesInv
<1>2. ASSUME NEW S \in SUBSET DOMAIN classes, c \in S, Ascends(S)
      PROVE  classes[d].parent \in S
  <2>1. d \in S
    BY <1>2 DEF Parents
  <2> QED
    BY <1>2, <2>1 DEF Ascends
<1> QED
  BY <1>1, <1>2 DEF Parents

LEMMA ParentLeast ==
    ASSUME NEW c, NEW S \in SUBSET DOMAIN classes, c \in S, Ascends(S)
    PROVE  Parents(c) \subseteq S
  BY DEF Parents

LEMMA ParentSplit ==
    ASSUME NEW Names, ClassesInv(Names), NEW d \in DOMAIN classes, NEW e \in Parents(d), e # d
    PROVE  classes[d].parent \in DOMAIN classes /\ classes[d].parent # NoName /\ e \in Parents(classes[d].parent)
<1> DEFINE p == classes[d].parent
           S == {d} \cup (IF p = NoName THEN {} ELSE Parents(p))
<1>1. p # NoName => p \in DOMAIN classes
  BY DEF ClassesInv
<1>2. S \in SUBSET DOMAIN classes /\ d \in S
  BY DEF Parents
<1>3. Ascends(S)
  <2>1. ASSUME NEW x \in S, classes[x].parent # NoName PROVE classes[x].parent \in S
    <3>1. CASE x = d
      BY <1>1, <2>1, <3>1, OwnParent
    <3>2. CASE x # d
      BY <2>1, <3>2, ParentClosed
    <3> QED
      BY <3>1, <3>2
  <2> HIDE DEF S
  <2> QED
    BY <2>1 DEF Ascends
<1>4. e \in S
  <2> HIDE DEF S
  <2> QED
    BY <1>2, <1>3, ParentLeast
<1> QED
  BY <1>1, <1>4

LEMMA ParentChain ==
    ASSUME NEW Names, ClassesInv(Names), NEW c \in DOMAIN classes, NEW d \in Parents(c), NEW e \in Parents(c)
    PROVE  e \in Parents(d) \/ d \in Parents(e)
<1> DEFINE S == {x \in DOMAIN classes : e \in Parents(x) \/ x \in Parents(e)}
<1>1. S \in SUBSET DOMAIN classes /\ c \in S
  OBVIOUS
<1>2. ASSUME NEW x \in S, classes[x].parent # NoName PROVE classes[x].parent \in S
  <2>1. classes[x].parent \in DOMAIN classes
    BY <1>2 DEF ClassesInv
  <2>2. CASE x \in Parents(e)
    BY <1>2, <2>1, <2>2, ParentClosed
  <2>3. CASE e \in Parents(x)
    <3>1. CASE e = x
      <4>1. x \in Parents(e)
        BY <3>1, OwnParent
      <4> QED
        BY <1>2, <2>1, <4>1, ParentClosed
    <3>2. CASE e # x
      BY <2>1, <2>3, <3>2, ParentSplit
    <3> QED
      BY <3>1, <3>2
  <2> QED
    BY <2>2, <2>3
<1>3. d \in S
  <2> HIDE DEF S
  <2> QED
    BY <1>1, <1>2, ParentLeast DEF Ascends
<1> QED
  BY <1>3

\* The end of a class is not below the end of a member it inherits: what it
\* starts at was above it, and no class on the way set $$ below it.
LEMMA InheritedCovered ==
    ASSUME NEW Names, ClassesInv(Names), NEW c \in DOMAIN classes, ~Early(c),
           NEW e \in Parents(c), NEW i \in DOMAIN classes[e].members, ~Rewound(c, e, i)
    PROVE  EndOf(classes[e].members[i]) \in Int /\ EndOf(classes[e].members[i]) <= classes[c].end
<1> DEFINE z == EndOf(classes[e].members[i])
           S == {x \in Parents(c) : e \in Parents(x) => classes[x].end < z}
<1>1. \A x \in Parents(c) : /\ x \in DOMAIN classes
                            /\ classes[x].size \in Nat /\ classes[x].neg \in Nat
                            /\ classes[x].start \in Nat /\ classes[x].end \in Int
                            /\ classes[x].moves \subseteq Moves
                            /\ classes[x].end + classes[x].neg <= classes[x].size
                            /\ Covered(classes[x], classes[x].end)
  BY DEF Parents, ClassesInv, Entries
<1>2. z \in Int /\ z = EndOfMember(classes[e], i)
  <2>1. classes[e].members \in Seq(Members(Names))
    BY <1>1 DEF ClassesInv, Entries
  <2>2. classes[e].members[i].offset \in Int /\ classes[e].members[i].size \in Nat
    BY <2>1, MemberType
  <2>3. classes[e].members[i] \in Reach(c)
    BY DEF Reach, Own
  <2>4. classes[e].members[i].size = SizeOf(classes[e].members[i].ty)
    BY <2>3 DEF Early
  <2> QED
    BY <2>2, <2>4 DEF EndOf, EndOfMember
<1> HIDE DEF z
<1>3. \A d \in Parents(c) : e \in Parents(d) => \A v \in classes[d].moves : (d = e => i <= v.after) => ~(v.to < z)
  BY DEF Rewound, z
<1>4. z <= classes[e].end
  <2>1. e \in Parents(e)
    BY <1>1, OwnParent
  <2> QED
    BY <1>1, <1>2, <1>3, <2>1 DEF Covered
<1>5. SUFFICES ASSUME classes[c].end < z PROVE FALSE
  BY <1>1, <1>2, OwnParent DEF z
<1>6. S \in SUBSET DOMAIN classes /\ c \in S
  BY <1>1, <1>5, OwnParent
<1>7. ASSUME NEW x \in S, classes[x].parent # NoName PROVE classes[x].parent \in S
  <2> DEFINE p == classes[x].parent
  <2>1. p \in Parents(c) /\ p \in DOMAIN classes /\ p \in Parents(x)
    BY <1>1, <1>7, ParentClosed, OwnParent DEF ClassesInv
  <2>2. SUFFICES ASSUME e \in Parents(p) PROVE classes[p].end < z
    BY <2>1
  <2>3. e \in Parents(x)
    BY <1>1, <1>7, <2>1, <2>2, ParentClosed, ParentLeast DEF Ascends, Parents
  <2>4. classes[x].end < z /\ x # e
    BY <1>1, <1>2, <1>4, <1>7, <2>3
  <2>5. ASSUME NEW v \in classes[x].moves PROVE ~(v.to <= classes[x].end)
    <3>1. v.to \in Int /\ classes[x].end \in Int
      BY <1>1, <1>7, <2>5 DEF Moves
    <3>2. ~(v.to < z)
      BY <1>3, <1>7, <2>3, <2>4
    <3> QED
      BY <1>2, <2>4, <3>1, <3>2
  <2>6. classes[x].start <= classes[x].end
    BY <1>1, <1>7, <2>5 DEF Covered
  <2>7. classes[x].start = classes[p].size
    BY <1>7 DEF Early
  <2> QED
    BY <1>1, <1>2, <1>7, <2>1, <2>4, <2>6, <2>7
<1>8. e \in S
  <2> HIDE DEF S
  <2> QED
    BY <1>6, <1>7, ParentLeast DEF Ascends
<1> QED
  BY <1>1, <1>2, <1>4, <1>8, OwnParent

\* No member, inherited ones too, begins below the memory that sizeof counts,
\* and none ends above it unless $$ was moved back over it: whatever the unit
\* declares, the lowest offset is kept and the end only grows between moves.
THEOREM MembersStayInside ==
    ASSUME NEW Names, NoName \notin Names, NEW items \in DeclSeqs(Names)
    PROVE  LayoutInit(items) /\ [][LayoutNext]_layoutVars => []MembersInside
<1>1. LayoutInv(Names) => MembersInside
  <2>1. SUFFICES ASSUME ClassesInv(Names), NEW c \in DOMAIN classes, ~Early(c), ~Below(c),
                        NEW e \in Parents(c), NEW i \in DOMAIN classes[e].members
                 PROVE  /\ -classes[c].neg <= classes[e].members[i].offset
                        /\ ~Rewound(c, e, i) => EndOf(classes[e].members[i]) <= classes[c].size - classes[c].neg
    BY DEF LayoutInv, MembersInside, AllInside
  <2>2. /\ classes[c].neg \in Nat /\ classes[c].size \in Nat /\ classes[c].end \in Int
        /\ classes[c].end + classes[c].neg <= classes[c].size
    BY <2>1 DEF ClassesInv, Entries
  <2>3. /\ e \in DOMAIN classes /\ classes[e].neg \in Nat
        /\ classes[e].members[i].offset \in Int /\ -classes[e].neg <= classes[e].members[i].offset
    <3>1. e \in DOMAIN classes
      BY DEF Parents
    <3>2. classes[e].neg \in Nat /\ classes[e].members \in Seq(Members(Names)) /\ Holds(classes[e], DOMAIN classes)
      BY <2>1, <3>1 DEF ClassesInv, Entries
    <3> QED
      BY <3>1, <3>2, MemberType DEF Holds
  <2>4. -classes[c].neg <= classes[e].members[i].offset
    <3>1. CASE e = c
      BY <2>3, <3>1
    <3>2. CASE e # c
      <4>1. classes[e].neg = 0
        BY <2>1, <3>2 DEF Below
      <4> QED
        BY <2>2, <2>3, <4>1
    <3> QED
      BY <3>1, <3>2
  <2>5. ASSUME ~Rewound(c, e, i)
        PROVE  EndOf(classes[e].members[i]) <= classes[c].size - classes[c].neg
    <3>1. EndOf(classes[e].members[i]) \in Int /\ EndOf(classes[e].members[i]) <= classes[c].end
      BY <2>1, <2>5, InheritedCovered
    <3> QED
      BY <2>2, <3>1
  <2> QED
    BY <2>4, <2>5
<1>2. LayoutInit(items) /\ [][LayoutNext]_layoutVars => []LayoutInv(Names)
  BY LayoutInvariant
<1> QED
  BY <1>1, <1>2, PTL

\* While $$ only moves up and no parent was incomplete, a class is at least
\* as long as each of its parents.
LEMMA ParentsFit ==
    ASSUME NEW Names, ClassesInv(Names), NEW c \in DOMAIN classes, ~Early(c),
           \A d \in Parents(c) : ~classes[d].back /\ ~classes[d].union,
           NEW d \in Parents(c), NEW e \in Parents(d)
    PROVE  classes[e].size <= classes[d].size
<1> DEFINE S == {x \in Parents(c) : classes[x].size <= classes[d].size}
<1>1. \A x \in Parents(c) : /\ x \in DOMAIN classes
                            /\ classes[x].size \in Nat /\ classes[x].neg \in Nat
                            /\ classes[x].start \in Nat /\ classes[x].end \in Int
                            /\ classes[x].end + classes[x].neg <= classes[x].size
                            /\ InOrder(classes[x], classes[x].end)
  BY DEF Parents, ClassesInv, Entries
<1>2. S \in SUBSET DOMAIN classes /\ d \in S
  BY <1>1
<1>3. ASSUME NEW x \in S, classes[x].parent # NoName PROVE classes[x].parent \in S
  <2>1. classes[x].parent \in Parents(c)
    BY <1>3, ParentClosed
  <2>2. classes[x].start = classes[classes[x].parent].size
    BY <1>3 DEF Early
  <2>3. classes[x].start <= classes[x].end
    BY <1>1, <1>3 DEF InOrder
  <2> QED
    BY <1>1, <2>1, <2>2, <2>3
<1>4. e \in S
  <2> HIDE DEF S
  <2> QED
    BY <1>2, <1>3, ParentLeast DEF Ascends
<1> QED
  BY <1>4

\* The members of a parent lie before those of the class.
LEMMA ParentFirst ==
    ASSUME NEW Names, ClassesInv(Names), NEW c \in DOMAIN classes, ~Early(c),
           \A d \in Parents(c) : ~classes[d].back /\ ~classes[d].union,
           NEW d \in Parents(c), NEW e \in Parents(d), e # d,
           NEW i \in DOMAIN classes[d].members, NEW j \in DOMAIN classes[e].members
    PROVE  classes[e].members[j].offset + classes[e].members[j].size <= classes[d].members[i].offset
<1> DEFINE p == classes[d].parent
           m == classes[d].members[i]
           n == classes[e].members[j]
<1>1. d \in DOMAIN classes /\ e \in DOMAIN classes
  BY DEF Parents
<1>2. p \in DOMAIN classes /\ p # NoName /\ e \in Parents(p)
  BY <1>1, ParentSplit
<1>3. p \in Parents(c)
  BY <1>2, ParentClosed
<1>4. e \in Parents(c)
  BY <1>3, <1>2, ParentClosed, ParentLeast DEF Parents
<1>5. classes[e].size <= classes[p].size
  BY <1>2, <1>3, ParentsFit
<1>6. classes[d].start = classes[p].size
  BY <1>2 DEF Early
<1>7. /\ classes[e].size \in Nat /\ classes[e].neg \in Nat /\ classes[e].end \in Int
      /\ classes[p].size \in Nat
      /\ classes[e].end + classes[e].neg <= classes[e].size
  BY <1>1, <1>2 DEF ClassesInv, Entries
<1>8. classes[d].start <= m.offset
  BY <1>1, <1>2 DEF ClassesInv, InOrder
<1>9. n.offset + n.size <= classes[e].end
  BY <1>1, <1>4 DEF ClassesInv, InOrder
<1>10. m.offset \in Int /\ n.offset \in Int /\ n.size \in Nat
  <2>1. classes[d].members \in Seq(Members(Names)) /\ classes[e].members \in Seq(Members(Names))
    BY <1>1 DEF ClassesInv, Entries
  <2> QED
    BY <2>1, MemberType
<1> QED
  BY <1>5, <1>6, <1>7, <1>8, <1>9, <1>10

\* Members share bytes only in a union or where $$ was moved back: members
\* of one class follow each other, and a class begins where its parent ends.
THEOREM MembersStayApart ==
    ASSUME NEW Names, NoName \notin Names, NEW items \in DeclSeqs(Names)
    PROVE  LayoutInit(items) /\ [][LayoutNext]_layoutVars => []MembersApart
<1>1. LayoutInv(Names) => MembersApart
  <2>1. SUFFICES ASSUME ClassesInv(Names), NEW c \in DOMAIN classes, ~Early(c),
                        \A d \in Parents(c) : ~classes[d].back /\ ~classes[d].union,
                        NEW m \in Reach(c), NEW n \in Reach(c), m # n
                 PROVE  Bytes(m) \cap Bytes(n) = {}
    BY DEF LayoutInv, MembersApart, AllApart
  <2>2. PICK d \in Parents(c), i \in Nat :
              /\ d \in DOMAIN classes /\ i \in DOMAIN classes[d].members
              /\ m = classes[d].members[i]
              /\ m.offset \in Int /\ m.size \in Nat
    BY <2>1, ReachMember
  <2>3. PICK e \in Parents(c), j \in Nat :
              /\ e \in DOMAIN classes /\ j \in DOMAIN classes[e].members
              /\ n = classes[e].members[j]
              /\ n.offset \in Int /\ n.size \in Nat
    BY <2>1, ReachMember
  <2>4. m.size = SizeOf(m.ty) /\ n.size = SizeOf(n.ty)
    BY <2>1 DEF Early
  <2>5. m.offset + m.size <= n.offset \/ n.offset + n.size <= m.offset
    <3>1. CASE d = e
      <4>1. i < j \/ j < i
        BY <2>1, <2>2, <2>3, <3>1
      <4>2. InOrder(classes[d], classes[d].end) /\ ~classes[d].back /\ ~classes[d].union
        BY <2>1, <2>2 DEF ClassesInv
      <4> QED
        BY <2>2, <2>3, <3>1, <4>1, <4>2 DEF InOrder
    <3>2. CASE d # e /\ e \in Parents(d)
      BY <2>1, <2>2, <2>3, <3>2, ParentFirst
    <3>3. CASE d # e /\ d \in Parents(e)
      BY <2>1, <2>2, <2>3, <3>3, ParentFirst
    <3> QED
      BY <2>1, <3>1, <3>2, <3>3, ParentChain
  <2> QED
    BY <2>2, <2>3, <2>4, <2>5 DEF Bytes
<1>2. LayoutInit(items) /\ [][LayoutNext]_layoutVars => []LayoutInv(Names)
  BY LayoutInvariant
<1> QED
  BY <1>1, <1>2, PTL

-----------------------------------------------------------------------------
\* Multiples.
LEMMA Quotient ==
    ASSUME NEW x \in Int, NEW a \in Nat \ {0}
    PROVE  x \div a \in Int /\ (x % a = 0 <=> x = (x \div a) * a)
  OBVIOUS

LEMMA Multiple ==
    ASSUME NEW x, NEW k \in Int, NEW a \in Nat \ {0}, x = k * a
    PROVE  x % a = 0
<1>1. (k * a) % a = 0
  OBVIOUS
<1> QED
  BY <1>1

LEMMA MultipleSum ==
    ASSUME NEW x \in Int, NEW y \in Int, NEW a \in Nat \ {0}, x % a = 0, y % a = 0
    PROVE  (x + y) % a = 0
<1> DEFINE j == x \div a
           k == y \div a
<1>1. j \in Int /\ k \in Int /\ x = j * a /\ y = k * a
  BY Quotient
<1> HIDE DEF j, k
<1>2. x + y = (j + k) * a /\ j + k \in Int
  BY <1>1
<1> QED
  BY <1>2, Multiple

LEMMA MultipleTrans ==
    ASSUME NEW x \in Int, NEW b \in Nat \ {0}, NEW a \in Nat \ {0}, x % b = 0, b % a = 0
    PROVE  x % a = 0
<1> DEFINE j == x \div b
           k == b \div a
<1>1. j \in Int /\ k \in Int /\ x = j * b /\ b = k * a
  BY Quotient
<1> HIDE DEF j, k
<1>2. x = (j * k) * a /\ j * k \in Int
  BY <1>1
<1> QED
  BY <1>2, Multiple

\* What is rounded up is a multiple.
LEMMA AlignUpMultiple ==
    ASSUME NEW n \in Int, NEW a \in Boundaries
    PROVE  align_up(n, a) % a = 0
<1> DEFINE q == (n + a - 1) \div a
<1>1. q \in Int /\ a \in Nat \ {0} /\ align_up(n, a) = q * a
  BY Quotient DEF align_up, Boundaries
<1> HIDE DEF q
<1> QED
  BY <1>1, Multiple

-----------------------------------------------------------------------------
\* The boundaries that occur: sizes of numbers and the powers of two that
\* hints may give, of which the larger is a multiple of the smaller.
Scale(B) == /\ B \subseteq Boundaries
            /\ 1 \in B
            /\ \A a, b \in B : a <= b => b % a = 0
OnScale(s, B) ==
    \A i \in DOMAIN s :
       /\ s[i].op = "open" => s[i].all <= 0 \/ s[i].all \in B
       /\ s[i].op = "field" => /\ s[i].align <= 0 \/ s[i].align \in B
                               /\ s[i].ty.base.k = "num" => s[i].ty.base.size \in B

\* A class is complete when another inherits from it.
ParentsComplete(s) ==
    \A i, j \in DOMAIN s : i <= j /\ s[i].op = "open" /\ s[j].op = "open" => s[i].parent # s[j].name

\* No header that is still to come opens the class.
Settled(c, s, l) == /\ l # NoClass => l.name # c
                    /\ \A i \in DOMAIN s : s[i].op = "open" => s[i].name # c

\* A member lies on its boundary, and none exceeds the alignment a.
Aligned(ms, a, B) == \A i \in DOMAIN ms : /\ ms[i].bound \in B /\ ms[i].bound <= a
                                          /\ ms[i].offset % ms[i].bound = 0

AlignedClasses(B) ==
    \A c \in DOMAIN classes :
       /\ classes[c].align \in B
       /\ Aligned(classes[c].members, classes[c].align, B)
       /\ classes[c].padded => classes[c].size % classes[c].align = 0
       /\ classes[c].parent # NoName =>
             /\ Settled(classes[c].parent, todo, lay)
             /\ classes[classes[c].parent].align <= classes[c].align

AlignedLay(B) ==
    lay # NoClass =>
        /\ lay.align \in B /\ lay.layout_align \in B /\ (lay.all <= 0 \/ lay.all \in B)
        /\ Aligned(lay.members, lay.layout_align, B)
        /\ ~lay.aligned => lay.all = 0 /\ \A i \in DOMAIN lay.members : lay.members[i].bound = 1
        /\ lay.parent # NoName =>
              /\ Settled(lay.parent, todo, lay)
              /\ classes[lay.parent].align <= lay.align
              /\ classes[lay.parent].align <= lay.layout_align

AlignInv(Names, B) == /\ LayoutInv(Names)
                      /\ OnScale(todo, B) /\ ParentsComplete(todo)
                      /\ AlignedClasses(B) /\ AlignedLay(B)

\* The rest of the unit is on scale, too, and a class that is settled stays so.
LEMMA AlignTail ==
    ASSUME NEW Names, NEW B, AlignInv(Names, B), todo # <<>>, todo' = Tail(todo)
    PROVE  /\ OnScale(todo', B) /\ ParentsComplete(todo')
           /\ \A c : Settled(c, todo, lay) /\ (lay' # NoClass => lay'.name # c) => Settled(c, todo', lay')
<1>1. todo \in Seq(Decls(Names))
  BY DEF AlignInv, LayoutInv, TodoInv
<1>2. \A i \in DOMAIN todo' : i \in Int /\ i + 1 \in DOMAIN todo /\ todo'[i] = todo[i + 1]
  BY <1>1
<1>3. OnScale(todo', B)
  BY <1>2 DEF AlignInv, OnScale
<1>4. ParentsComplete(todo')
  <2>1. ASSUME NEW i \in DOMAIN todo', NEW j \in DOMAIN todo', i <= j, todo'[i].op = "open", todo'[j].op = "open"
        PROVE  todo'[i].parent # todo'[j].name
    <3>1. i + 1 <= j + 1
      BY <1>2, <2>1
    <3> QED
      BY <1>2, <2>1, <3>1 DEF AlignInv, ParentsComplete
  <2> QED
    BY <2>1 DEF ParentsComplete
<1>5. ASSUME NEW c, Settled(c, todo, lay), lay' # NoClass => lay'.name # c PROVE Settled(c, todo', lay')
  BY <1>2, <1>5 DEF Settled
<1> QED
  BY <1>3, <1>4, <1>5

\* What is settled is not the class being read; a name entered changes nothing
\* for it.
LEMMA EntersAligned ==
    ASSUME NEW Names, NEW B, Scale(B), NEW name \in Names, ClassesInv(Names), AlignedClasses(B),
           classes' = Entered(name),
           \A c : Settled(c, todo, lay) => Settled(c, todo', lay')
    PROVE  AlignedClasses(B)'
<1>1. /\ DOMAIN classes' = DOMAIN classes \cup {name}
      /\ \A c \in DOMAIN classes : classes'[c] = classes[c]
  BY EntersName
<1>2. ASSUME NEW c \in DOMAIN classes'
      PROVE  /\ classes'[c].align \in B
             /\ Aligned(classes'[c].members, classes'[c].align, B)
             /\ classes'[c].padded => classes'[c].size % classes'[c].align = 0
             /\ classes'[c].parent # NoName =>
                   /\ Settled(classes'[c].parent, todo', lay')
                   /\ classes'[classes'[c].parent].align <= classes'[c].align
  <2>1. CASE c \in DOMAIN classes
    <3>1. classes[c].parent # NoName => classes[c].parent \in DOMAIN classes
      BY <2>1 DEF ClassesInv
    <3> QED
      BY <1>1, <2>1, <3>1 DEF AlignedClasses
  <2>2. CASE c \notin DOMAIN classes
    <3>1. classes'[c] = Fresh
      BY <1>1, <1>2, <2>2 DEF Entered
    <3>2. Fresh.align = 1 /\ Fresh.padded = FALSE /\ Fresh.parent = NoName /\ DOMAIN Fresh.members = {}
      BY FreshEntry DEF Fresh
    <3> QED
      BY <3>1, <3>2 DEF Scale, Aligned
  <2> QED
    BY <2>1, <2>2
<1> QED
  BY <1>2 DEF AlignedClasses

LEMMA ForwardAligned ==
    ASSUME NEW Names, NEW B, Scale(B), NoName \notin Names, AlignInv(Names, B), Forward
    PROVE  AlignInv(Names, B)'
<1>1. LayoutInv(Names) /\ LayoutInv(Names)' /\ TodoInv(Names) /\ todo # <<>> /\ Item.op = "forward"
  BY ForwardKeeps DEF Forward, Reading, LayoutInv, AlignInv
<1>2. Item.name \in Names /\ lay = NoClass
  BY <1>1, ItemType
<1>3. classes' = Entered(Item.name) /\ lay' = lay /\ todo' = Tail(todo)
  BY DEF Forward, Advance
<1>4. /\ OnScale(todo', B) /\ ParentsComplete(todo')
      /\ \A c : Settled(c, todo, lay) => Settled(c, todo', lay')
  BY <1>1, <1>2, <1>3, AlignTail
<1>5. AlignedClasses(B)'
  BY <1>1, <1>2, <1>3, <1>4, EntersAligned DEF AlignInv, LayoutInv
<1> QED
  BY <1>1, <1>2, <1>3, <1>4, <1>5 DEF AlignInv, AlignedLay

LEMMA RefuseAligned ==
    ASSUME NEW Names, NEW B, AlignInv(Names, B), LayoutInv(Names)', Refuse
    PROVE  AlignInv(Names, B)'
  BY DEF Refuse, AlignInv, AlignedClasses, AlignedLay

LEMMA OpenClassAligned ==
    ASSUME NEW Names, NEW B, Scale(B), NoName \notin Names, AlignInv(Names, B), OpenClass
    PROVE  AlignInv(Names, B)'
<1>1. LayoutInv(Names) /\ LayoutInv(Names)' /\ TodoInv(Names) /\ todo # <<>> /\ Item.op = "open"
  BY OpenClassKeeps DEF OpenClass, Reading, LayoutInv, AlignInv
<1>2. Item.name \in Names /\ lay = NoClass /\ Item.all \in Int
  BY <1>1, ItemType
<1>3. CASE Refuse
  BY <1>1, <1>3, RefuseAligned
<1>4. CASE ~Refuse
  <2> DEFINE known == Entered(Item.name)
             parent == IF Item.parent = NoName THEN known[Item.name].parent ELSE Item.parent
             from == IF parent = NoName THEN Fresh ELSE known[parent]
  <2>1. /\ Item.parent # NoName => Item.parent \in DOMAIN known
        /\ classes' = known
        /\ lay' = [name |-> Item.name, parent |-> parent, union |-> Item.union,
                   all |-> Item.all, start |-> from.size, off |-> from.size, align |-> from.align,
                   layout_align |-> from.align, neg |-> 0, union_base |-> 0,
                   aligned |-> Item.all # 0, members |-> <<>>, back |-> FALSE, moves |-> {}]
        /\ todo' = Tail(todo)
    BY <1>4 DEF OpenClass, Advance
  <2>2. /\ lay'.name = Item.name /\ lay'.parent = parent /\ lay'.all = Item.all
        /\ lay'.align = from.align /\ lay'.layout_align = from.align
        /\ (lay'.aligned <=> Item.all # 0) /\ lay'.members = <<>>
    BY <2>1
  <2>3. /\ 1 \in DOMAIN todo /\ todo[1] = Item /\ todo[1].op = "open"
        /\ \A j \in DOMAIN todo : j \in Nat /\ 1 <= j
    BY <1>1, ItemType DEF TodoInv
  <2>4. Item.all <= 0 \/ Item.all \in B
    BY <2>3 DEF AlignInv, OnScale
  <2>5. \A j \in DOMAIN todo : todo[j].op = "open" => todo[j].name # Item.parent
    BY <2>3 DEF AlignInv, ParentsComplete
  <2>6. /\ OnScale(todo', B) /\ ParentsComplete(todo')
        /\ \A c : Settled(c, todo, lay) => Settled(c, todo', lay')
    <3>1. \A c : Settled(c, todo, lay) => Item.name # c
      BY <2>3 DEF Settled
    <3> QED
      BY <1>1, <2>1, <2>2, <3>1, AlignTail
  <2>7. AlignedClasses(B)'
    BY <1>1, <1>2, <2>1, <2>6, EntersAligned DEF AlignInv, LayoutInv
  <2>7a. parent # NoName => parent \in DOMAIN classes' /\ Settled(parent, todo', lay')
    <3>1. CASE Item.parent # NoName
      <4>1. Settled(Item.parent, todo, lay)
        BY <1>2, <2>5 DEF Settled
      <4> QED
        BY <2>1, <2>6, <3>1, <4>1
    <3>2. CASE Item.parent = NoName
      <4>1. Item.name \in DOMAIN classes' /\ parent = classes'[Item.name].parent
        BY <1>1, <1>2, <2>1, <3>2, EntersName DEF LayoutInv
      <4>2. classes'[Item.name].parent \in DOMAIN classes' \cup {NoName}
        BY <1>1, <4>1 DEF LayoutInv, ClassesInv
      <4> HIDE DEF parent, known
      <4> QED
        BY <2>7, <4>1, <4>2 DEF AlignedClasses
    <3> QED
      BY <3>1, <3>2
  <2> HIDE DEF parent
  <2>8. from.align \in B
    <3>1. CASE parent = NoName
      BY <3>1 DEF Fresh, Scale
    <3>2. CASE parent # NoName
      BY <2>1, <2>7, <2>7a, <3>2 DEF AlignedClasses
    <3> QED
      BY <3>1, <3>2
  <2>9. parent # NoName =>
           /\ Settled(parent, todo', lay')
           /\ classes'[parent].align = from.align
    BY <2>1, <2>7a
  <2>10. from.align \in Nat
    BY <2>8 DEF Scale, Boundaries
  <2>11. Aligned(lay'.members, lay'.layout_align, B) /\ DOMAIN lay'.members = {}
    BY <2>2, FreshEntry DEF Aligned
  <2>12. AlignedLay(B)'
    <3> HIDE DEF known, from
    <3> QED
      BY <2>2, <2>4, <2>8, <2>9, <2>10, <2>11 DEF AlignedLay
  <2> QED
    BY <1>1, <2>6, <2>7, <2>12 DEF AlignInv
<1> QED
  BY <1>3, <1>4

\* A declaration in the middle of a class leaves the known classes alone.
LEMMA InnerAligned ==
    ASSUME NEW Names, NEW B, AlignInv(Names, B), todo # <<>>, todo' = Tail(todo), UNCHANGED classes,
           lay # NoClass, lay'.name = lay.name
    PROVE  /\ OnScale(todo', B) /\ ParentsComplete(todo') /\ AlignedClasses(B)'
           /\ \A c : Settled(c, todo, lay) => Settled(c, todo', lay')
<1>1. \A c : Settled(c, todo, lay) => lay.name # c
  BY DEF Settled
<1>2. /\ OnScale(todo', B) /\ ParentsComplete(todo')
      /\ \A c : Settled(c, todo, lay) => Settled(c, todo', lay')
  BY <1>1, AlignTail
<1>3. AlignedClasses(B)'
  BY <1>2 DEF AlignInv, AlignedClasses
<1> QED
  BY <1>2, <1>3

LEMMA MoveCursorAligned ==
    ASSUME NEW Names, NEW B, Scale(B), NoName \notin Names, AlignInv(Names, B), MoveCursor
    PROVE  AlignInv(Names, B)'
<1>1. LayoutInv(Names) /\ LayoutInv(Names)' /\ TodoInv(Names) /\ todo # <<>> /\ Item.op = "move"
  BY MoveCursorKeeps DEF MoveCursor, Reading, LayoutInv, AlignInv
<1>2. lay # NoClass
  BY <1>1, ItemType
<1>3. lay \in Lays(Names)
  BY <1>1, <1>2 DEF LayoutInv, LayInv
<1>4. /\ lay' = [lay EXCEPT !.neg = Lowest(MoveTo),
                            !.union_base = IF lay.union THEN MoveTo ELSE @,
                            !.off = IF lay.union THEN @ ELSE MoveTo,
                            !.back = @ \/ (MoveTo < Cursor /\ (lay.members # <<>> \/ lay.parent # NoName)),
                            !.moves = IF lay.union THEN @ ELSE @ \cup {[after |-> Len(lay.members), to |-> MoveTo]}]
      /\ todo' = Tail(todo) /\ classes' = classes
  BY DEF MoveCursor, Advance
<1>5. /\ lay'.name = lay.name /\ lay'.parent = lay.parent /\ lay'.all = lay.all
      /\ lay'.align = lay.align /\ lay'.layout_align = lay.layout_align
      /\ lay'.aligned = lay.aligned /\ lay'.members = lay.members
  BY <1>3, <1>4 DEF Lays
<1>6. /\ OnScale(todo', B) /\ ParentsComplete(todo') /\ AlignedClasses(B)'
      /\ \A c : Settled(c, todo, lay) => Settled(c, todo', lay')
  BY <1>1, <1>2, <1>4, <1>5, InnerAligned
<1>7. AlignedLay(B)'
  BY <1>2, <1>4, <1>5, <1>6 DEF AlignInv, AlignedLay
<1> QED
  BY <1>1, <1>6, <1>7 DEF AlignInv

LEMMA AddMemberAligned ==
    ASSUME NEW Names, NEW B, Scale(B), NoName \notin Names, AlignInv(Names, B), AddMember
    PROVE  AlignInv(Names, B)'
<1>1. LayoutInv(Names) /\ LayoutInv(Names)' /\ TodoInv(Names) /\ todo # <<>> /\ Item.op = "field"
  BY AddMemberKeeps DEF AddMember, Reading, LayoutInv, AlignInv
<1>2. lay # NoClass /\ Item.ty \in Types(Names) /\ Item.align \in Int
  BY <1>1, ItemType
<1>3. lay \in Lays(Names)
  BY <1>1, <1>2 DEF LayoutInv, LayInv
<1>4. /\ lay.off \in Int /\ lay.union_base \in Int /\ lay.all \in Int /\ lay.aligned \in BOOLEAN
      /\ lay.members \in Seq(Members(Names))
  BY <1>3 DEF Lays
<1>5. /\ lay.align \in B /\ lay.layout_align \in B /\ (lay.all <= 0 \/ lay.all \in B)
      /\ Aligned(lay.members, lay.layout_align, B)
      /\ ~lay.aligned => lay.all = 0 /\ \A i \in DOMAIN lay.members : lay.members[i].bound = 1
      /\ lay.parent # NoName =>
            /\ Settled(lay.parent, todo, lay)
            /\ classes[lay.parent].align <= lay.align
            /\ classes[lay.parent].align <= lay.layout_align
  BY <1>2 DEF AlignInv, AlignedLay
<1>6. CASE Refuse
  BY <1>1, <1>6, RefuseAligned
<1>7. CASE ~Refuse
  <2> DEFINE natural == AlignOf(Item.ty)
             m == [name |-> Item.name, ty |-> Item.ty, offset |-> Position, size |-> SizeOf(Item.ty),
                   bound |-> IF Policy = 0 THEN 1 ELSE Boundary]
  <2>1. Known(Item.ty)
    BY <1>7 DEF AddMember
  <2>2. lay' = [lay EXCEPT !.members = Append(@, m),
                           !.off = End(Position, SizeOf(Item.ty)),
                           !.align = NaturalAlign(natural),
                           !.layout_align = LayoutAlign,
                           !.aligned = @ \/ Item.align # 0]
        /\ todo' = Tail(todo) /\ classes' = classes
    BY <1>7 DEF AddMember, Advance
  <2>3. Item.align <= 0 \/ Item.align \in B
    <3>1. 1 \in DOMAIN todo /\ todo[1] = Item
      BY <1>1, ItemType DEF TodoInv
    <3> QED
      BY <1>1, <3>1 DEF AlignInv, OnScale
  <2>4. natural \in B
    <3>1. CASE Item.ty.base.k = "class"
      BY <2>1, <3>1 DEF AlignOf, BaseAlign, Known, AlignInv, AlignedClasses
    <3>2. CASE Item.ty.base.k # "class"
      <4>1. 1 \in DOMAIN todo /\ todo[1] = Item
        BY <1>1, ItemType DEF TodoInv
      <4>2. Item.ty.base.k = "num"
        BY <1>2, <3>2 DEF Types
      <4>3. Item.ty.base.size \in B
        BY <1>1, <4>1, <4>2 DEF AlignInv, OnScale
      <4> QED
        BY <3>2, <4>3 DEF AlignOf, BaseAlign
    <3> QED
      BY <3>1, <3>2
  <2> HIDE DEF natural
  <2>5. /\ Policy \in Int /\ (Policy = 0 \/ Boundary \in B)
        /\ Policy = 0 <=> Item.align = 0 /\ lay.all = 0
    BY <1>2, <1>4, <1>5, <2>3, <2>4 DEF Policy, Boundary, natural
  <2>6. \A b \in B : b \in Nat /\ b \in Boundaries /\ 1 <= b
    BY DEF Scale, Boundaries
  <2>7. NaturalAlign(natural) \in B /\ lay.align <= NaturalAlign(natural)
    BY <1>5, <2>4, <2>6 DEF NaturalAlign
  <2>8. /\ LayoutAlign \in B /\ lay.layout_align <= LayoutAlign
        /\ Policy # 0 => Boundary <= LayoutAlign
    BY <1>5, <2>5, <2>6 DEF LayoutAlign
  <2>9. m.bound \in B /\ m.bound <= LayoutAlign /\ m.offset % m.bound = 0
    <3>1. Cursor \in Int
      BY <1>4 DEF Cursor
    <3>2. CASE Policy = 0
      <4>1. m.offset = Cursor /\ m.bound = 1
        BY <3>2 DEF Position
      <4>2. Cursor % 1 = 0
        BY <3>1
      <4> QED
        BY <2>6, <2>8, <4>1, <4>2 DEF Scale
    <3>3. CASE Policy # 0
      <4>1. m.offset = align_up(Cursor, Boundary) /\ m.bound = Boundary
        BY <3>3 DEF Position
      <4>2. align_up(Cursor, Boundary) % Boundary = 0
        BY <2>5, <2>6, <3>1, <3>3, AlignUpMultiple
      <4> QED
        BY <2>5, <2>8, <3>3, <4>1, <4>2
    <3> QED
      BY <3>2, <3>3
  <2>10. Policy = 0 => m.bound = 1
    OBVIOUS
  <2> HIDE DEF m
  <2>11. /\ lay'.name = lay.name /\ lay'.parent = lay.parent /\ lay'.all = lay.all
         /\ lay'.align = NaturalAlign(natural) /\ lay'.layout_align = LayoutAlign
         /\ lay'.members = Append(lay.members, m)
         /\ lay'.aligned = (lay.aligned \/ Item.align # 0)
    BY <1>3, <2>2 DEF Lays
  <2>12. /\ DOMAIN lay'.members = DOMAIN lay.members \cup {Len(lay.members) + 1}
         /\ \A i \in DOMAIN lay.members : lay'.members[i] = lay.members[i]
         /\ lay'.members[Len(lay.members) + 1] = m
    <3>1. DOMAIN lay.members = 1 .. Len(lay.members) /\ Len(lay.members) \in Nat
      BY <1>4
    <3> QED
      BY <1>4, <2>11, <3>1
  <2>13. /\ OnScale(todo', B) /\ ParentsComplete(todo') /\ AlignedClasses(B)'
         /\ \A c : Settled(c, todo, lay) => Settled(c, todo', lay')
    BY <1>1, <1>2, <2>2, <2>11, InnerAligned
  <2>14. Aligned(lay'.members, lay'.layout_align, B)
    <3>1. ASSUME NEW i \in DOMAIN lay'.members
          PROVE  /\ lay'.members[i].bound \in B /\ lay'.members[i].bound <= LayoutAlign
                 /\ lay'.members[i].offset % lay'.members[i].bound = 0
      <4>1. CASE i \in DOMAIN lay.members
        <5>1. /\ lay.members[i].bound \in B /\ lay.members[i].bound <= lay.layout_align
              /\ lay.members[i].offset % lay.members[i].bound = 0
          BY <1>5, <4>1 DEF Aligned
        <5> QED
          BY <1>5, <2>6, <2>8, <2>12, <4>1, <5>1
      <4>2. CASE i = Len(lay.members) + 1
        BY <2>9, <2>12, <4>2
      <4> QED
        BY <2>12, <4>1, <4>2
    <3> QED
      BY <2>11, <3>1 DEF Aligned
  <2>15. ~lay'.aligned => lay'.all = 0 /\ \A i \in DOMAIN lay'.members : lay'.members[i].bound = 1
    <3>1. SUFFICES ASSUME ~lay.aligned, Item.align = 0
                   PROVE  lay.all = 0 /\ \A i \in DOMAIN lay'.members : lay'.members[i].bound = 1
      BY <2>11
    <3>2. lay.all = 0 /\ \A i \in DOMAIN lay.members : lay.members[i].bound = 1
      BY <1>5, <3>1
    <3>3. m.bound = 1
      BY <2>5, <2>10, <3>1, <3>2
    <3> QED
      BY <2>12, <3>2, <3>3
  <2>16. lay.parent # NoName =>
            /\ Settled(lay.parent, todo', lay')
            /\ classes[lay.parent].align <= lay'.align
            /\ classes[lay.parent].align <= lay'.layout_align
    <3>1. lay.parent # NoName => classes[lay.parent].align \in Nat
      <4>1. lay.parent # NoName => lay.parent \in DOMAIN classes
        BY <1>1, <1>2 DEF LayoutInv, LayInv
      <4> QED
        BY <2>6, <4>1 DEF AlignInv, AlignedClasses
    <3> QED
      BY <1>5, <2>6, <2>7, <2>8, <2>11, <2>13, <3>1
  <2>17. AlignedLay(B)'
    BY <1>5, <2>2, <2>7, <2>8, <2>11, <2>14, <2>15, <2>16 DEF AlignedLay
  <2> QED
    BY <1>1, <2>13, <2>17 DEF AlignInv
<1> QED
  BY <1>6, <1>7

LEMMA CloseClassAligned ==
    ASSUME NEW Names, NEW B, Scale(B), NoName \notin Names, AlignInv(Names, B), CloseClass
    PROVE  AlignInv(Names, B)'
<1>1. LayoutInv(Names) /\ LayoutInv(Names)' /\ TodoInv(Names) /\ todo # <<>> /\ Item.op = "close"
  BY CloseClassKeeps DEF CloseClass, Reading, LayoutInv, AlignInv
<1>2. lay # NoClass
  BY <1>1, ItemType
<1>3. /\ lay \in Lays(Names) /\ lay.name \in DOMAIN classes
      /\ lay.parent \in DOMAIN classes \cup {NoName}
  BY <1>1, <1>2 DEF LayoutInv, LayInv
<1>4. lay.off + lay.neg \in Int
  BY <1>3 DEF Lays
<1>5. /\ lay.align \in B /\ lay.layout_align \in B
      /\ Aligned(lay.members, lay.layout_align, B)
      /\ ~lay.aligned => \A i \in DOMAIN lay.members : lay.members[i].bound = 1
      /\ lay.parent # NoName =>
            /\ Settled(lay.parent, todo, lay)
            /\ classes[lay.parent].align <= lay.align
            /\ classes[lay.parent].align <= lay.layout_align
  BY <1>2 DEF AlignInv, AlignedLay
<1>6. \A b \in B : b \in Nat /\ b \in Boundaries /\ 1 <= b
  BY DEF Scale, Boundaries
<1> DEFINE a == IF lay.aligned THEN lay.layout_align ELSE lay.align
           e == [size |-> FinalSize, align |-> a,
                 parent |-> lay.parent, members |-> lay.members, neg |-> lay.neg, back |-> lay.back, moves |-> lay.moves,
                 start |-> lay.start, end |-> lay.off, padded |-> lay.aligned, union |-> lay.union]
<1>7. /\ classes' = [classes EXCEPT ![lay.name] = e]
      /\ lay' = NoClass /\ todo' = Tail(todo)
  BY DEF CloseClass, Advance
<1>8. e.align = a /\ e.members = lay.members /\ e.padded = lay.aligned /\ e.size = FinalSize /\ e.parent = lay.parent
  OBVIOUS
<1>9. a \in B /\ (lay.aligned => a = lay.layout_align) /\ (~lay.aligned => a = lay.align)
  BY <1>5
<1> HIDE DEF a, e
<1>10. Aligned(lay.members, a, B)
  <2>1. CASE lay.aligned
    BY <1>5, <1>9, <2>1
  <2>2. CASE ~lay.aligned
    BY <1>5, <1>6, <1>9, <2>2 DEF Aligned
  <2> QED
    BY <2>1, <2>2
<1>11. lay.aligned => FinalSize % a = 0
  BY <1>4, <1>5, <1>6, <1>9, AlignUpMultiple DEF FinalSize
<1>12. /\ DOMAIN classes' = DOMAIN classes /\ classes'[lay.name] = e
       /\ \A c \in DOMAIN classes : c # lay.name => classes'[c] = classes[c]
  BY <1>3, <1>7
<1>13. /\ OnScale(todo', B) /\ ParentsComplete(todo')
       /\ \A c : Settled(c, todo, lay) => Settled(c, todo', lay') /\ c # lay.name
  <2>1. \A c : Settled(c, todo, lay) => c # lay.name
    BY <1>2 DEF Settled
  <2> QED
    BY <1>1, <1>7, <2>1, AlignTail
<1>14. ASSUME NEW c \in DOMAIN classes'
       PROVE  /\ classes'[c].align \in B
              /\ Aligned(classes'[c].members, classes'[c].align, B)
              /\ classes'[c].padded => classes'[c].size % classes'[c].align = 0
              /\ classes'[c].parent # NoName =>
                    /\ Settled(classes'[c].parent, todo', lay')
                    /\ classes'[classes'[c].parent].align <= classes'[c].align
  <2>1. CASE c = lay.name
    <3>1. ASSUME lay.parent # NoName
          PROVE  Settled(lay.parent, todo', lay') /\ classes'[lay.parent].align <= a
      <4>1. lay.parent \in DOMAIN classes /\ lay.parent # lay.name
        BY <1>3, <1>5, <1>13, <3>1
      <4> QED
        BY <1>5, <1>9, <1>12, <1>13, <3>1, <4>1
    <3> QED
      BY <1>8, <1>9, <1>10, <1>11, <1>12, <2>1, <3>1
  <2>2. CASE c # lay.name
    <3>1. /\ c \in DOMAIN classes /\ classes'[c] = classes[c]
          /\ classes[c].parent # NoName => classes[c].parent \in DOMAIN classes
      BY <1>1, <1>12, <2>2 DEF LayoutInv, ClassesInv
    <3>2. /\ classes[c].align \in B
          /\ Aligned(classes[c].members, classes[c].align, B)
          /\ classes[c].padded => classes[c].size % classes[c].align = 0
          /\ classes[c].parent # NoName =>
                /\ Settled(classes[c].parent, todo, lay)
                /\ classes[classes[c].parent].align <= classes[c].align
      BY <3>1 DEF AlignInv, AlignedClasses
    <3> QED
      BY <1>12, <1>13, <3>1, <3>2
  <2> QED
    BY <2>1, <2>2
<1>15. AlignedClasses(B)'
  BY <1>14 DEF AlignedClasses
<1> QED
  BY <1>1, <1>7, <1>13, <1>15 DEF AlignInv, AlignedLay

\* AlignInv is an invariant of reading a unit of this kind.
LEMMA AlignInvariant ==
    ASSUME NEW Names, NoName \notin Names, NEW B, Scale(B),
           NEW items \in DeclSeqs(Names), OnScale(items, B), ParentsComplete(items)
    PROVE  LayoutInit(items) /\ [][LayoutNext]_layoutVars => []AlignInv(Names, B)
<1>1. LayoutInit(items) /\ LayoutInv(Names) => AlignInv(Names, B)
  <2>1. LayoutInit(items) => todo = items /\ DOMAIN classes = {} /\ lay = NoClass
    BY DEF LayoutInit
  <2> QED
    BY <2>1 DEF AlignInv, AlignedClasses, AlignedLay
<1>2. AlignInv(Names, B) /\ [LayoutNext]_layoutVars => AlignInv(Names, B)'
  <2>1. SUFFICES ASSUME AlignInv(Names, B), [LayoutNext]_layoutVars PROVE AlignInv(Names, B)'
    OBVIOUS
  <2>2. CASE UNCHANGED layoutVars
    BY <2>1, <2>2 DEF AlignInv, LayoutInv, TodoInv, ClassesInv, LayInv, AlignedClasses, AlignedLay, layoutVars
  <2> QED
    BY <2>1, <2>2, ForwardAligned, OpenClassAligned, MoveCursorAligned, AddMemberAligned, CloseClassAligned
       DEF LayoutNext
<1>3. LayoutInit(items) /\ [][LayoutNext]_layoutVars => []LayoutInv(Names)
  BY LayoutInvariant
<1> QED
  BY <1>1, <1>2, <1>3, PTL

\* No class is aligned less than a parent of it.
LEMMA ParentsAligned ==
    ASSUME NEW Names, NEW B, Scale(B), ClassesInv(Names), AlignedClasses(B),
           NEW c \in DOMAIN classes, NEW d \in Parents(c)
    PROVE  classes[d].align <= classes[c].align
<1> DEFINE S == {x \in DOMAIN classes : classes[x].align <= classes[c].align}
<1>1. \A x \in DOMAIN classes : classes[x].align \in Nat
  BY DEF AlignedClasses, Scale, Boundaries
<1>2. S \in SUBSET DOMAIN classes /\ c \in S
  BY <1>1
<1>3. ASSUME NEW x \in S, classes[x].parent # NoName PROVE classes[x].parent \in S
  <2>1. classes[x].parent \in DOMAIN classes /\ classes[classes[x].parent].align <= classes[x].align
    BY <1>3 DEF ClassesInv, AlignedClasses
  <2> QED
    BY <1>1, <2>1
<1>4. d \in S
  <2> HIDE DEF S
  <2> QED
    BY <1>2, <1>3, ParentLeast DEF Ascends
<1> QED
  BY <1>4

\* The boundary of a member, inherited or own, divides its offset and the
\* alignment of the class.
LEMMA ReachAligned ==
    ASSUME NEW Names, NEW B, Scale(B), ClassesInv(Names), AlignedClasses(B),
           NEW c \in DOMAIN classes, NEW m \in Reach(c)
    PROVE  /\ m.offset \in Int /\ m.bound \in B /\ m.bound <= classes[c].align
           /\ m.offset % m.bound = 0
<1>1. PICK d \in Parents(c), i \in Nat :
            /\ d \in DOMAIN classes /\ i \in DOMAIN classes[d].members
            /\ m = classes[d].members[i]
            /\ m.offset \in Int
  BY ReachMember
<1>2. m.bound \in B /\ m.bound <= classes[d].align /\ m.offset % m.bound = 0
  BY <1>1 DEF AlignedClasses, Aligned
<1>3. classes[d].align <= classes[c].align
  BY <1>1, ParentsAligned
<1>4. m.bound \in Nat /\ classes[d].align \in Nat /\ classes[c].align \in Nat
  BY <1>1, <1>2 DEF AlignedClasses, Scale, Boundaries
<1> QED
  BY <1>1, <1>2, <1>3, <1>4

\* On a scale of boundaries each of which divides the larger ones, with every
\* class complete when another inherits from it: a member placed on a boundary
\* is on one in every element of an array of its class and in every class that
\* aligns a member of it.  The size is padded to the alignment that the
\* boundaries of own and inherited members never exceed.
THEOREM MembersStayAligned ==
    ASSUME NEW Names, NoName \notin Names, NEW B, Scale(B),
           NEW items \in DeclSeqs(Names), OnScale(items, B), ParentsComplete(items)
    PROVE  LayoutInit(items) /\ [][LayoutNext]_layoutVars => []StaysAligned
<1>1. AlignInv(Names, B) => StaysAligned
  <2>1. SUFFICES ASSUME ClassesInv(Names), AlignedClasses(B), NEW c \in DOMAIN classes, classes[c].padded
                 PROVE  /\ \A m \in Reach(c) : m.offset % m.bound = 0 /\ classes[c].size % m.bound = 0
                        /\ \A m \in Own(c) : m.ty.base.k = "class" /\ m.bound >= AlignOf(m.ty) =>
                              \A n \in Reach(m.ty.base.name) :
                                 classes[m.ty.base.name].padded => (m.offset + n.offset) % n.bound = 0
    BY DEF AlignInv, LayoutInv, StaysAligned
  <2>2. \A b \in B : b \in Nat \ {0} /\ b \in Int
    BY DEF Scale, Boundaries
  <2>3. ASSUME NEW m \in Reach(c) PROVE m.offset % m.bound = 0 /\ classes[c].size % m.bound = 0
    <3>1. m.bound \in B /\ m.bound <= classes[c].align /\ m.offset % m.bound = 0
      BY <2>1, ReachAligned
    <3>2. classes[c].align \in B /\ classes[c].size % classes[c].align = 0 /\ classes[c].size \in Int
      BY <2>1 DEF AlignedClasses, ClassesInv, Entries
    <3>3. classes[c].align % m.bound = 0
      BY <3>1, <3>2 DEF Scale
    <3> QED
      BY <2>2, <3>1, <3>2, <3>3, MultipleTrans
  <2>4. ASSUME NEW m \in Own(c), m.ty.base.k = "class", m.bound >= AlignOf(m.ty),
               NEW n \in Reach(m.ty.base.name)
        PROVE  (m.offset + n.offset) % n.bound = 0
    <3> DEFINE k == m.ty.base.name
    <3>1. m \in Reach(c)
      BY <2>1, OwnParent DEF Reach
    <3>2. m.offset \in Int /\ m.bound \in B /\ m.offset % m.bound = 0
      BY <2>1, <3>1, ReachAligned
    <3>3. k \in DOMAIN classes
      <4>1. PICK i \in DOMAIN classes[c].members : m = classes[c].members[i]
        BY <2>4 DEF Own
      <4> QED
        BY <2>1, <2>4, <4>1 DEF ClassesInv, Holds
    <3>4. AlignOf(m.ty) = classes[k].align
      BY <2>4 DEF AlignOf, BaseAlign
    <3>5. n.offset \in Int /\ n.bound \in B /\ n.bound <= classes[k].align /\ n.offset % n.bound = 0
      <4> HIDE DEF k
      <4>1. n \in Reach(k)
        BY <2>4 DEF k
      <4> QED
        BY <2>1, <3>3, <4>1, ReachAligned
    <3>6. classes[k].align \in Int
      BY <2>1, <2>2, <3>3 DEF AlignedClasses
    <3>7. n.bound <= m.bound
      BY <2>2, <2>4, <3>2, <3>4, <3>5, <3>6
    <3>8. m.bound % n.bound = 0
      BY <3>2, <3>5, <3>7 DEF Scale
    <3>9. m.offset % n.bound = 0
      BY <2>2, <3>2, <3>5, <3>8, MultipleTrans
    <3> QED
      BY <2>2, <3>2, <3>5, <3>9, MultipleSum
  <2> QED
    BY <2>3, <2>4
<1>2. LayoutInit(items) /\ [][LayoutNext]_layoutVars => []AlignInv(Names, B)
  BY AlignInvariant
<1> QED
  BY <1>1, <1>2, PTL
=============================================================================
