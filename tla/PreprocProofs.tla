---------------------------- MODULE PreprocProofs ----------------------------
(***************************************************************************)
(* The preprocessor on every source over any set of items: its loops and   *)
(* its tables stay well formed, a name has one live macro, and a #exe      *)
(* block sees whole top-level constructs and all of them.                  *)
(***************************************************************************)
EXTENDS Preproc, WellOrder, SequenceTheorems

-----------------------------------------------------------------------------
(* The inductive invariant for types. *)

Kinds == {"file", "text", "block", "line"}
CallSet == [k : Kinds, in : Seq(Items), out : Seq(Items), cond_depth : Nat, braces : Nat,
            item : Items \cup {None}]

\* The outermost loop is the file's and no other is; a loop over a line or a
\* block knows the directive it belongs to.
CallsOK ==
    /\ calls \in Seq(CallSet) /\ calls # <<>>
    /\ \A i \in 1..Len(calls) :
          /\ calls[i].k = "file" <=> i = 1
          /\ calls[i].k = "block" => calls[i].item \in Items /\ calls[i].item.k = "exe"

Names == {x.n : x \in {y \in Items : y.k = "define"}} \cup {Dead}
Entry == [n : Names, body : Seq(Items)]

PrefixOK == /\ exe_prefix \in Seq(Items)
            /\ visible \in 0..Len(exe_prefix)
            /\ depth \in [brace : Nat, paren : Nat, bracket : Nat]

PInv == /\ source \in Sources
        /\ status \in {"run", "done", "error", "crash"}
        /\ CallsOK
        /\ macros \in Seq(Entry)
        /\ cwd \in Dirs
        /\ PrefixOK

-----------------------------------------------------------------------------
(* Lists. *)

LEMMA FirstIs ==
    ASSUME NEW S \in SUBSET Nat, S # {}
    PROVE  First(S) \in S /\ \A j \in S : First(S) <= j
<1>1. \E i \in S : \A j \in S : i <= j
  BY LeastMember
<1> QED
  BY <1>1 DEF First

LEMMA ListFacts ==
    ASSUME NEW S, NEW s \in Seq(S)
    PROVE  /\ Len(s) \in Nat
           /\ \A i \in 1..Len(s) : s[i] \in S
           /\ s # <<>> => Head(s) \in S /\ Tail(s) \in Seq(S)
           /\ \A m \in 1..(Len(s) + 1) : SubSeq(s, m, Len(s)) \in Seq(S)
           /\ \A m \in Nat : SubSeq(s, m + 1, Len(s)) \in Seq(S)
<1>1. \A m, n \in Int : m \in Nat \ {0} /\ n = Len(s) => SubSeq(s, m, n) \in Seq(S)
  BY SubSeqProperties
<1> QED
  BY <1>1

\* A call with another input, and any depth of open conditionals.
Renewed(c, in, e) == [c EXCEPT !.in = in, !.cond_depth = @ + e]
SameCall(d, c) == d \in CallSet /\ d.k = c.k /\ d.item = c.item

LEMMA CallUpdate ==
    ASSUME NEW c \in CallSet, NEW in \in Seq(Items), NEW e \in Int, c.cond_depth + e \in Nat
    PROVE  SameCall(Renewed(c, in, e), c)
<1> DEFINE n == c.cond_depth + e
<1>1. n \in Nat
  OBVIOUS
<1>2. Renewed(c, in, e) = [c EXCEPT !.in = in, !.cond_depth = n]
  BY DEF Renewed
<1> HIDE DEF n
<1> QED
  BY <1>1, <1>2 DEF CallSet, SameCall

\* The call at work, and the one it returns to.
LEMMA CurrentCall ==
    ASSUME CallsOK
    PROVE  /\ Len(calls) \in Nat \ {0} /\ C \in CallSet /\ C = calls[Len(calls)]
           /\ C.k # "file" => /\ Len(calls) > 1 /\ Caller \in CallSet
                              /\ Caller = calls[Len(calls) - 1]
           /\ C.in \in Seq(Items)
           /\ C.in # <<>> => Tok \in Items /\ Rest \in Seq(Items)
<1>1. Len(calls) \in Nat \ {0} /\ C \in CallSet /\ C = calls[Len(calls)]
  BY DEF CallsOK, C
<1>2. C.k # "file" => Len(calls) > 1 /\ Caller \in CallSet /\ Caller = calls[Len(calls) - 1]
  BY <1>1 DEF CallsOK, Caller
<1>3. C.in \in Seq(Items)
  BY <1>1 DEF CallSet
<1> QED
  BY <1>1, <1>2, <1>3, ListFacts DEF Tok, Rest

\* What a loop, and the return to the one below, do to the stack of calls.
LEMMA BecomeKeeps ==
    ASSUME CallsOK, NEW c, SameCall(c, C), Become(c)
    PROVE  CallsOK'
<1>1. calls' = [calls EXCEPT ![Len(calls)] = c]
  BY DEF Become
<1>2. Len(calls) \in Nat \ {0} /\ C = calls[Len(calls)]
  BY CurrentCall
<1>3. calls' \in Seq(CallSet) /\ Len(calls') = Len(calls) /\ calls' # <<>>
  BY <1>1, <1>2 DEF CallsOK, SameCall
<1>4. \A i \in 1..Len(calls) : calls'[i] = IF i = Len(calls) THEN c ELSE calls[i]
  BY <1>1, <1>2 DEF CallsOK
<1> QED
  BY <1>2, <1>3, <1>4 DEF CallsOK, SameCall

LEMMA ReturnKeeps ==
    ASSUME CallsOK, C.k # "file",
           NEW c, SameCall(c, Caller), Return(c)
    PROVE  CallsOK'
<1>1. calls' = Append(SubSeq(calls, 1, Len(calls) - 2), c)
  BY DEF Return
<1>2. Len(calls) \in Nat /\ Len(calls) > 1 /\ Caller = calls[Len(calls) - 1]
  BY CurrentCall
<1> DEFINE m == Len(calls) - 2
           s == SubSeq(calls, 1, m)
<1>3. m \in Nat /\ m <= Len(calls) /\ calls \in Seq(CallSet)
  BY <1>2 DEF CallsOK
<1>4. s \in Seq(CallSet) /\ Len(s) = m /\ \A i \in 1..m : s[i] = calls[i]
  <2>1. m \in Int /\ 1 \in Int /\ \A i \in 1..m : calls[i] \in CallSet
    BY <1>3
  <2> HIDE DEF m
  <2>2. /\ SubSeq(calls, 1, m) \in Seq(CallSet)
        /\ Len(SubSeq(calls, 1, m)) = IF 1 <= m THEN m - 1 + 1 ELSE 0
        /\ \A i \in 1..(m - 1 + 1) : SubSeq(calls, 1, m)[i] = calls[1 + i - 1]
    BY <2>1, SubSeqProperties
  <2>3. m - 1 + 1 = m /\ \A i \in 1..m : 1 + i - 1 = i
    BY <1>3
  <2> QED
    BY <1>3, <2>2, <2>3
<1>5. calls' \in Seq(CallSet) /\ Len(calls') = m + 1 /\ calls' # <<>>
      /\ \A i \in 1..(m + 1) : calls'[i] = IF i = m + 1 THEN c ELSE s[i]
  <2>1. calls' = Append(s, c)
    BY <1>1
  <2> HIDE DEF s, m
  <2> QED
    BY <1>3, <1>4, <2>1, AppendProperties DEF SameCall
<1>6. m + 1 = Len(calls) - 1
  BY <1>2
<1>7. ASSUME NEW i \in 1..(m + 1)
      PROVE  /\ i \in 1..Len(calls)
             /\ calls'[i].k = calls[i].k /\ calls'[i].item = calls[i].item
  <2>1. i \in 1..Len(calls) /\ (i # m + 1 => i \in 1..m)
    BY <1>2, <1>3
  <2>2. CASE i = m + 1
    <3>1. calls'[i] = c /\ calls[i] = Caller
      BY <1>2, <1>5, <1>6, <2>2
    <3> QED
      BY <2>1, <3>1 DEF SameCall
  <2>3. CASE i # m + 1
    BY <1>4, <1>5, <2>1, <2>3
  <2> QED
    BY <2>2, <2>3
<1> QED
  BY <1>5, <1>7 DEF CallsOK

\* The current call goes on in in while others run on top of it.
LEMMA PushKeeps ==
    ASSUME CallsOK, NEW in \in Seq(Items), NEW new \in Seq(CallSet),
           \A i \in 1..Len(new) :
              new[i].k # "file" /\ (new[i].k = "block" => new[i].item \in Items /\ new[i].item.k = "exe"),
           calls' = [calls EXCEPT ![Len(calls)].in = in] \o new
    PROVE  CallsOK'
<1>1. Len(calls) \in Nat \ {0} /\ C \in CallSet /\ C = calls[Len(calls)] /\ calls \in Seq(CallSet)
  BY CurrentCall DEF CallsOK
<1> DEFINE n == Len(calls)
           s == [calls EXCEPT ![n].in = in]
<1>2. [C EXCEPT !.in = in] \in CallSet
  BY <1>1 DEF CallSet
<1>3. s = [calls EXCEPT ![n] = [C EXCEPT !.in = in]]
  BY <1>1
<1>4. s \in Seq(CallSet) /\ Len(s) = n /\ \A i \in 1..n : s[i] = IF i = n THEN [C EXCEPT !.in = in] ELSE calls[i]
  BY <1>1, <1>2, <1>3
<1>5. /\ calls' \in Seq(CallSet) /\ Len(calls') = n + Len(new)
      /\ \A i \in 1..n : calls'[i] = s[i]
      /\ \A i \in (n + 1)..(n + Len(new)) : calls'[i] = new[i - n]
  <2>1. calls' = s \o new
    OBVIOUS
  <2> HIDE DEF s
  <2>2. /\ s \o new \in Seq(CallSet) /\ Len(s \o new) = Len(s) + Len(new)
        /\ \A i \in 1..(Len(s) + Len(new)) :
              (s \o new)[i] = IF i <= Len(s) THEN s[i] ELSE new[i - Len(s)]
    <3>1. s \in Seq(CallSet)
      BY <1>4
    <3> QED
      BY <3>1, ConcatProperties
  <2>3. Len(new) \in Nat
    OBVIOUS
  <2> HIDE DEF n
  <2>4. n \in Nat
    BY <1>1 DEF n
  <2>5. Len(s) = n
    BY <1>4
  <2>6. /\ \A i \in 1..n : i \in 1..(n + Len(new)) /\ i <= n
        /\ \A i \in (n + 1)..(n + Len(new)) : i \in 1..(n + Len(new)) /\ ~(i <= n)
    BY <2>3, <2>4
  <2> QED
    BY <2>1, <2>2, <2>5, <2>6
<1>6. \A i \in 1..n : calls'[i].k = calls[i].k /\ calls'[i].item = calls[i].item
  <2>1. [C EXCEPT !.in = in].k = C.k /\ [C EXCEPT !.in = in].item = C.item
    BY <1>1 DEF CallSet
  <2> HIDE DEF s
  <2> QED
    BY <1>1, <1>4, <1>5, <2>1
<1>7. calls' # <<>>
  BY <1>1, <1>5
<1>8. ASSUME NEW i \in 1..Len(calls')
      PROVE  /\ calls'[i].k = "file" <=> i = 1
             /\ calls'[i].k = "block" => calls'[i].item \in Items /\ calls'[i].item.k = "exe"
  <2>1. CASE i \in 1..n
    BY <1>6, <2>1 DEF CallsOK
  <2>2. CASE i \notin 1..n
    <3>1. i \in (n + 1)..(n + Len(new)) /\ i - n \in 1..Len(new) /\ i # 1
      BY <1>1, <1>5, <2>2
    <3> QED
      BY <1>5, <3>1
  <2> QED
    BY <2>1, <2>2
<1> QED
  BY <1>5, <1>7, <1>8 DEF CallsOK

\* skip_cond leaves the call itself, behind its stop.
LEMMA SkipType ==
    ASSUME NEW c \in CallSet, NEW in \in Seq(Items), NEW reopen \in {0, 1}
    PROVE  \A d \in skip_cond(c, in, reopen) : SameCall(d, c)
<1>1. CASE SkipStops(in) = {}
  <2>1. <<>> \in Seq(Items) /\ \A e \in 0..reopen : e \in Int /\ c.cond_depth + e \in Nat
    BY DEF CallSet
  <2>2. skip_cond(c, in, reopen) = {Renewed(c, <<>>, e) : e \in 0..reopen}
    BY <1>1 DEF skip_cond, Renewed
  <2> QED
    BY <2>1, <2>2, CallUpdate
<1>2. CASE SkipStops(in) # {}
  <2> DEFINE p == First(SkipStops(in))
             e == IF in[p].k = "else" THEN reopen ELSE 0
  <2>1. SkipStops(in) \in SUBSET Nat /\ SkipStops(in) \subseteq 1..Len(in)
    BY DEF SkipStops
  <2>2. p \in 1..Len(in)
    BY <1>2, <2>1, FirstIs
  <2>3. SubSeq(in, p + 1, Len(in)) \in Seq(Items)
    BY <2>2, ListFacts
  <2>5. e \in Int /\ c.cond_depth + e \in Nat
    BY DEF CallSet
  <2> HIDE DEF p
  <2>4. skip_cond(c, in, reopen) = {Renewed(c, SubSeq(in, p + 1, Len(in)), e)}
    BY <1>2 DEF skip_cond, Renewed, p
  <2> QED
    BY <2>3, <2>4, <2>5, CallUpdate
<1> QED
  BY <1>1, <1>2

LEMMA BranchType ==
    ASSUME NEW c \in CallSet, NEW in \in Seq(Items), NEW live
    PROVE  \A d \in Branch(c, in, live) : SameCall(d, c)
<1>1. CASE live
  <2>1. Branch(c, in, live) = {Renewed(c, in, 1)} /\ 1 \in Int /\ c.cond_depth + 1 \in Nat
    BY <1>1 DEF Branch, Renewed, CallSet
  <2> QED
    BY <2>1, CallUpdate
<1>2. CASE ~live
  BY <1>2, SkipType DEF Branch
<1> QED
  BY <1>1, <1>2

-----------------------------------------------------------------------------
(* The macro table. *)

\* OneLiveEntry of any table.
Single(ms) == \A i, j \in 1..Len(ms) : ms[i].n = ms[j].n /\ ms[i].n # Dead => i = j

LEMMA EntryFound ==
    ASSUME NEW ms \in Seq(Entry), NEW n, Entries(ms, n) # {}
    PROVE  First(Entries(ms, n)) \in 1..Len(ms) /\ ms[First(Entries(ms, n))].n = n
<1>1. Entries(ms, n) \in SUBSET Nat /\ Entries(ms, n) \subseteq 1..Len(ms)
  BY DEF Entries
<1>2. First(Entries(ms, n)) \in Entries(ms, n)
  BY <1>1, FirstIs
<1> QED
  BY <1>1, <1>2 DEF Entries

LEMMA DefineKeeps ==
    ASSUME NEW ms \in Seq(Entry), NEW x \in Items, x.k = "define"
    PROVE  /\ lex_define(ms, x.n, x.body) \in Seq(Entry)
           /\ Single(ms) => Single(lex_define(ms, x.n, x.body))
<1> DEFINE e == [n |-> x.n, body |-> x.body]
<1>0. e \in Entry /\ x.body \in Seq(Items)
  BY ItemsAssumption DEF Entry, Names
<1>1. CASE Entries(ms, x.n) = {}
  <2>1. lex_define(ms, x.n, x.body) = <<e>> \o ms
    BY <1>1 DEF lex_define
  <2>2. \A i \in 1..Len(ms) : ms[i].n # x.n
    BY <1>1 DEF Entries
  <2> HIDE DEF e
  <2>3. /\ <<e>> \in Seq(Entry) /\ Len(<<e>>) = 1 /\ <<e>>[1] = e
    BY <1>0
  <2>4. /\ <<e>> \o ms \in Seq(Entry) /\ Len(<<e>> \o ms) = Len(<<e>>) + Len(ms)
        /\ \A i \in 1..(Len(<<e>>) + Len(ms)) :
              (<<e>> \o ms)[i] = IF i <= Len(<<e>>) THEN <<e>>[i] ELSE ms[i - Len(<<e>>)]
    BY <2>3, ConcatProperties
  <2> DEFINE s == <<e>> \o ms
  <2>5. /\ Len(s) = 1 + Len(ms) /\ s[1].n = x.n
        /\ \A i \in 2..(1 + Len(ms)) : s[i] = ms[i - 1] /\ i - 1 \in 1..Len(ms)
    BY <2>3, <2>4 DEF e
  <2> HIDE DEF s
  <2>6. Single(ms) => Single(s)
    <3> SUFFICES ASSUME Single(ms), NEW i \in 1..Len(s), NEW j \in 1..Len(s),
                        s[i].n = s[j].n, s[i].n # Dead
                 PROVE  i = j
      BY DEF Single
    <3>0. ASSUME NEW k \in 1..Len(s), k # 1 PROVE s[k].n # s[1].n
      <4>1. k \in 2..(1 + Len(ms))
        BY <2>5, <3>0
      <4> QED
        BY <2>2, <2>5, <4>1
    <3>1. CASE i = 1 \/ j = 1
      BY <3>0, <3>1
    <3>2. CASE i # 1 /\ j # 1
      <4>1. i \in 2..(1 + Len(ms)) /\ j \in 2..(1 + Len(ms))
        BY <2>5, <3>2
      <4>2. i - 1 = j - 1
        BY <2>5, <4>1 DEF Single
      <4> QED
        BY <4>2
    <3> QED
      BY <3>1, <3>2
  <2> QED
    BY <2>1, <2>4, <2>6 DEF s
<1>2. CASE Entries(ms, x.n) # {}
  <2> DEFINE f == First(Entries(ms, x.n))
             s == [ms EXCEPT ![f].body = x.body]
  <2>1. f \in 1..Len(ms)
    BY <1>2, EntryFound
  <2>2. lex_define(ms, x.n, x.body) = s
    BY <1>2 DEF lex_define
  <2> HIDE DEF f
  <2>3. [ms[f] EXCEPT !.body = x.body] \in Entry /\ [ms[f] EXCEPT !.body = x.body].n = ms[f].n
    <3>1. ms[f] \in Entry
      BY <2>1
    <3> QED
      BY <1>0, <3>1 DEF Entry
  <2>4. s \in Seq(Entry) /\ Len(s) = Len(ms) /\ \A i \in 1..Len(ms) : s[i].n = ms[i].n
    BY <2>1, <2>3
  <2> QED
    BY <2>2, <2>4 DEF Single
<1> QED
  BY <1>1, <1>2

LEMMA UndefKeeps ==
    ASSUME NEW ms \in Seq(Entry), NEW n, Entries(ms, n) # {}
    PROVE  LET s == [ms EXCEPT ![First(Entries(ms, n))].n = Dead] IN
           s \in Seq(Entry) /\ (Single(ms) => Single(s))
<1> DEFINE f == First(Entries(ms, n))
           s == [ms EXCEPT ![f].n = Dead]
<1>1. f \in 1..Len(ms)
  BY EntryFound
<1> HIDE DEF f
<1>2. [ms[f] EXCEPT !.n = Dead] \in Entry /\ [ms[f] EXCEPT !.n = Dead].n = Dead
  <2>1. ms[f] \in Entry /\ Dead \in Names
    BY <1>1 DEF Names
  <2> QED
    BY <2>1 DEF Entry
<1>3. /\ s \in Seq(Entry) /\ Len(s) = Len(ms)
      /\ \A i \in 1..Len(ms) : s[i].n = IF i = f THEN Dead ELSE ms[i].n
  BY <1>1, <1>2
<1> HIDE DEF s
<1>4. s \in Seq(Entry) /\ (Single(ms) => Single(s))
  BY <1>3 DEF Single
<1> QED
  BY <1>4 DEF s, f

\* The body of a macro, its own name marked.
LEMMA GuardedType ==
    ASSUME NEW m \in Entry
    PROVE  Guarded(m) \in Seq(Items)
<1>1. m.body \in Seq(Items) /\ DOMAIN m.body = 1..Len(m.body) /\ Len(m.body) \in Nat
  BY DEF Entry
<1>2. \A i \in 1..Len(m.body) : m.body[i] \in Items /\ (m.body[i].k = "id" => [m.body[i] EXCEPT !.ne = TRUE] \in Items)
  BY <1>1, ItemsAssumption
<1> QED
  BY <1>1, <1>2 DEF Guarded

-----------------------------------------------------------------------------
(* Every step keeps the stack of calls. *)

LEMMA NewCall ==
    ASSUME NEW k \in Kinds, NEW in \in Seq(Items), NEW item \in Items \cup {None}
    PROVE  Call(k, in, item) \in CallSet /\ Call(k, in, item).k = k /\ Call(k, in, item).item = item
BY DEF Call, CallSet

\* The loop goes on in another list.
LEMMA ContinueKeeps ==
    ASSUME CallsOK, NEW in \in Seq(Items), Continue(in)
    PROVE  CallsOK'
<1>1. SameCall([C EXCEPT !.in = in], C)
  BY CurrentCall DEF CallSet, SameCall
<1> QED
  BY <1>1, BecomeKeeps DEF Continue

LEMMA HaltKeeps ==
    ASSUME CallsOK, NEW how, Halt(how)
    PROVE  CallsOK'
BY DEF Halt, CallsOK

LEMMA CondKeepsCalls ==
    ASSUME PInv, IfDef \/ Else \/ EndIf \/ LineEnd
    PROVE  CallsOK'
<1>0. CallsOK
  BY DEF PInv
<1>1. CASE IfDef
  <2>1. Tok \in Items /\ Rest \in Seq(Items) /\ C \in CallSet
    BY <1>0, <1>1, CurrentCall DEF IfDef, At
  <2>2. PICK c \in Branch(C, Rest, is_macro(Tok.n) = (Tok.k = "ifdef")) : Become(c)
    BY <1>1 DEF IfDef
  <2>3. SameCall(c, C)
    BY <2>1, <2>2, BranchType
  <2> QED
    BY <1>0, <2>2, <2>3, BecomeKeeps
<1>2. CASE Else
  <2>1. Rest \in Seq(Items) /\ C \in CallSet
    BY <1>0, <1>2, CurrentCall DEF Else, At
  <2>2. CASE C.cond_depth <= 0
    BY <1>0, <1>2, <2>2, HaltKeeps DEF Else
  <2>3. CASE ~(C.cond_depth <= 0)
    <3> DEFINE d == [C EXCEPT !.cond_depth = @ - 1]
    <3>1. SameCall(d, C)
      <4>1. C.cond_depth - 1 \in Nat
        BY <2>1, <2>3 DEF CallSet
      <4> QED
        BY <2>1, <4>1 DEF CallSet, SameCall
    <3>2. PICK c \in skip_cond(d, Rest, 0) : Become(c)
      BY <1>2, <2>3 DEF Else
    <3> HIDE DEF d
    <3>3. SameCall(c, d)
      BY <2>1, <3>1, <3>2, SkipType DEF SameCall
    <3> QED
      BY <1>0, <3>1, <3>2, <3>3, BecomeKeeps DEF SameCall
  <2> QED
    BY <2>2, <2>3
<1>3. CASE EndIf
  <2>1. Rest \in Seq(Items) /\ C \in CallSet
    BY <1>0, <1>3, CurrentCall DEF EndIf, At
  <2>2. CASE C.cond_depth <= 0
    BY <1>0, <1>3, <2>2, HaltKeeps DEF EndIf
  <2>3. CASE ~(C.cond_depth <= 0)
    <3>1. C.cond_depth - 1 \in Nat
      BY <2>1, <2>3 DEF CallSet
    <3>2. SameCall([C EXCEPT !.in = Rest, !.cond_depth = @ - 1], C)
      BY <2>1, <3>1 DEF CallSet, SameCall
    <3> QED
      BY <1>0, <1>3, <2>3, <3>2, BecomeKeeps DEF EndIf
  <2> QED
    BY <2>2, <2>3
<1>4. CASE LineEnd
  <2>1. C.k # "file" /\ Caller \in CallSet /\ Caller.in \in Seq(Items)
    BY <1>0, <1>4, CurrentCall DEF LineEnd, CallSet
  <2>2. CASE ~Evaluates(C.out)
    BY <1>0, <1>4, <2>2, HaltKeeps DEF LineEnd
  <2>3. CASE Evaluates(C.out)
    <3>1. PICK c \in IF C.item.k = "assert" THEN {Caller} ELSE Branch(Caller, Caller.in, pp_or(C.out)) : Return(c)
      BY <1>4, <2>3 DEF LineEnd
    <3>2. SameCall(c, Caller)
      BY <2>1, <3>1, BranchType DEF SameCall
    <3> QED
      BY <1>0, <2>1, <3>1, <3>2, ReturnKeeps
  <2> QED
    BY <2>2, <2>3
<1> QED
  BY <1>1, <1>2, <1>3, <1>4

\* The steps that enter or leave a loop.
LEMMA NestKeepsCalls ==
    ASSUME PInv, pp_eval_line \/ Exe \/ TextEnd \/ BlockEnd
    PROVE  CallsOK'
<1>0. CallsOK
  BY DEF PInv
<1>1. CASE pp_eval_line
  <2>1. Tok \in Items /\ Rest \in Seq(Items) /\ Tok.e \in Seq(Items)
    BY <1>0, <1>1, CurrentCall, ItemsAssumption DEF pp_eval_line, At
  <2>2. CASE Tok.e = <<>>
    BY <1>0, <1>1, <2>2, HaltKeeps DEF pp_eval_line
  <2>3. CASE Tok.e # <<>>
    <3> DEFINE c == Call("line", Tok.e, Tok)
               s == [calls EXCEPT ![Len(calls)].in = Rest]
    <3>1. c \in CallSet /\ c.k = "line"
      BY <2>1, NewCall DEF Kinds
    <3>2. calls' = Append(s, c)
      BY <1>1, <2>3 DEF pp_eval_line
    <3>3. s \in Seq(CallSet)
      <4>1. [C EXCEPT !.in = Rest] \in CallSet
        BY <1>0, <2>1, CurrentCall DEF CallSet
      <4>2. s = [calls EXCEPT ![Len(calls)] = [C EXCEPT !.in = Rest]]
        BY <1>0, CurrentCall
      <4> QED
        BY <1>0, <4>1, <4>2 DEF CallsOK
    <3> HIDE DEF c, s
    <3>4. calls' = s \o <<c>>
      BY <3>1, <3>2, <3>3, AppendIsConcat
    <3>5. <<c>> \in Seq(CallSet) /\ Len(<<c>>) = 1 /\ <<c>>[1] = c
      BY <3>1
    <3>6. \A i \in 1..Len(<<c>>) : <<c>>[i].k = "line"
      BY <3>1, <3>5
    <3> QED
      BY <1>0, <2>1, <3>4, <3>5, <3>6, PushKeeps DEF s
  <2> QED
    BY <2>2, <2>3
<1>2. CASE Exe
  <2>1. Tok \in Items /\ Rest \in Seq(Items) /\ Tok.k = "exe" /\ Tok.body \in Seq(Items)
    BY <1>0, <1>2, CurrentCall, ItemsAssumption DEF Exe, At
  <2> DEFINE b == Call("block", Tok.body, Tok)
             a == Call("text", ExeApi, None)
             p == Call("text", Prelude, None)
  <2>2. /\ b \in CallSet /\ b.k = "block" /\ b.item = Tok
        /\ a \in CallSet /\ a.k = "text" /\ p \in CallSet /\ p.k = "text"
    BY <2>1, NewCall, TextsAssumption DEF Kinds
  <2>3. calls' = [calls EXCEPT ![Len(calls)].in = Rest] \o <<b, a, p>>
    BY <1>2 DEF Exe
  <2> HIDE DEF b, a, p
  <2>4. <<b, a, p>> \in Seq(CallSet) /\ Len(<<b, a, p>>) = 3
    BY <2>2
  <2>5. \A i \in 1..Len(<<b, a, p>>) :
           /\ <<b, a, p>>[i].k # "file"
           /\ <<b, a, p>>[i].k = "block" => <<b, a, p>>[i].item \in Items /\ <<b, a, p>>[i].item.k = "exe"
    BY <2>1, <2>2, <2>4
  <2> QED
    BY <1>0, <2>1, <2>3, <2>4, <2>5, PushKeeps
<1>3. CASE TextEnd
  BY <1>0, <1>3, CurrentCall, ReturnKeeps DEF TextEnd, SameCall
<1>4. CASE BlockEnd
  <2>1. /\ C.k # "file" /\ Caller \in CallSet /\ Caller.in \in Seq(Items)
        /\ C.item \in Items /\ C.item.k = "exe"
    <3>1. C.k = "block" /\ Len(calls) \in 1..Len(calls) /\ C = calls[Len(calls)] /\ Caller \in CallSet
      BY <1>0, <1>4, CurrentCall DEF BlockEnd
    <3>2. C.item \in Items /\ C.item.k = "exe"
      BY <1>0, <3>1 DEF CallsOK
    <3> QED
      BY <3>1, <3>2 DEF CallSet
  <2>2. CASE Halt("error")
    BY <1>0, <2>2, HaltKeeps
  <2> DEFINE in == C.item.out \o SubSeq(Caller.in, C.item.take + 1, Len(Caller.in))
  <2>3. CASE Return([Caller EXCEPT !.in = in])
    <3>1. in \in Seq(Items)
      <4>1. C.item.out \in Seq(Items) /\ C.item.take \in Nat
        BY <2>1, ItemsAssumption
      <4>2. SubSeq(Caller.in, C.item.take + 1, Len(Caller.in)) \in Seq(Items)
        BY <2>1, <4>1, ListFacts
      <4> QED
        BY <4>1, <4>2, ConcatProperties
    <3> HIDE DEF in
    <3>2. SameCall([Caller EXCEPT !.in = in], Caller)
      BY <2>1, <3>1 DEF CallSet, SameCall
    <3> QED
      BY <1>0, <2>1, <2>3, <3>2, ReturnKeeps
  <2> QED
    BY <1>4, <2>2, <2>3 DEF BlockEnd
<1> QED
  BY <1>1, <1>2, <1>3, <1>4

LEMMA LevelType ==
    ASSUME NEW d \in Nat, NEW t, NEW open, NEW close
    PROVE  Level(d, t, open, close) \in Nat
<1>1. d > 0 => d - 1 \in Nat
  OBVIOUS
<1> QED
  BY <1>1 DEF Level

\* The steps that stay in the loop they are in.
LEMMA PlainKeepsCalls ==
    ASSUME PInv,
           Define \/ Undef \/ Expand \/ Defined \/ Include \/ Help \/ Unknown
             \/ ToplevelCd \/ Crash \/ Emit \/ FileEnd
    PROVE  CallsOK'
<1>0. CallsOK
  BY DEF PInv
<1>1. CASE Define \/ Undef \/ Help
  BY <1>0, <1>1, CurrentCall, ContinueKeeps DEF Define, Undef, Help, At
<1>2. CASE Unknown \/ Crash \/ FileEnd
  BY <1>0, <1>2, HaltKeeps DEF Unknown, Crash, FileEnd
<1>3. CASE Expand
  <2>1. Rest \in Seq(Items) /\ macros \in Seq(Entry)
    BY <1>0, <1>3, CurrentCall DEF Expand, At, PInv
  <2>2. find_macro(Tok.s) \in Entry
    BY <1>3, <2>1, EntryFound DEF Expand, is_macro, find_macro
  <2>3. Guarded(find_macro(Tok.s)) \o Rest \in Seq(Items)
    BY <2>1, <2>2, GuardedType, ConcatProperties
  <2> QED
    BY <1>0, <1>3, <2>3, ContinueKeeps DEF Expand
<1>4. CASE Defined
  <2> DEFINE x == [k |-> "num", v |-> IF is_macro(Tok.n) THEN 1 ELSE 0]
  <2>1. Rest \in Seq(Items) /\ x \in Items
    BY <1>0, <1>4, CurrentCall, ItemsAssumption DEF Defined, At
  <2>2. Continue(<<x>> \o Rest)
    BY <1>4 DEF Defined
  <2> HIDE DEF x
  <2>3. <<x>> \in Seq(Items)
    BY <2>1
  <2>4. <<x>> \o Rest \in Seq(Items)
    BY <2>1, <2>3, ConcatProperties
  <2> QED
    BY <1>0, <2>2, <2>4, ContinueKeeps
<1>5. CASE Include
  <2>1. Rest \in Seq(Items) /\ Tok \in Items /\ Tok.dir \in Dirs /\ cwd \in Dirs
    BY <1>0, <1>5, CurrentCall, ItemsAssumption DEF Include, At, PInv
  <2>2. CASE Holders(Tok.f, Tok.dir) = {}
    BY <1>0, <1>5, <2>2, HaltKeeps DEF Include
  <2>3. CASE Holders(Tok.f, Tok.dir) # {}
    <3> DEFINE path == SearchPath(Tok.dir)
               d == path[First(Holders(Tok.f, Tok.dir))]
    <3>1. path \in Seq(Dirs)
      <4>1. <<Tok.dir, cwd>> \in Seq(Dirs) /\ IncDirs \in Seq(Dirs)
        BY <2>1, DirsAssumption
      <4> QED
        BY <4>1, ConcatProperties DEF SearchPath
    <3>2. Holders(Tok.f, Tok.dir) = {i \in DOMAIN path : Tok.f \in DOMAIN Files[path[i]]}
      BY DEF Holders
    <3>3. Continue(Files[d][Tok.f] \o Rest)
      BY <1>5, <2>3 DEF Include
    <3> HIDE DEF path
    <3>4. Holders(Tok.f, Tok.dir) \in SUBSET Nat
      BY <3>1, <3>2
    <3>5. First(Holders(Tok.f, Tok.dir)) \in Holders(Tok.f, Tok.dir)
      BY <2>3, <3>4, FirstIs
    <3>6. d \in Dirs /\ Tok.f \in DOMAIN Files[d]
      BY <3>1, <3>2, <3>5
    <3>7. Files[d][Tok.f] \in Seq(Items)
      BY <3>6, DirsAssumption
    <3> HIDE DEF d
    <3>8. Files[d][Tok.f] \o Rest \in Seq(Items)
      BY <2>1, <3>7, ConcatProperties
    <3> QED
      BY <1>0, <3>3, <3>8, ContinueKeeps
  <2> QED
    BY <2>2, <2>3
<1>6. CASE ToplevelCd
  <2>1. Rest \in Seq(Items)
    BY <1>0, <1>6, CurrentCall DEF ToplevelCd, Plain
  <2> QED
    BY <1>0, <1>6, <2>1, ContinueKeeps, HaltKeeps DEF ToplevelCd
<1>7. CASE Emit
  <2>1. Tok \in Items /\ Rest \in Seq(Items) /\ C \in CallSet
    BY <1>0, <1>7, CurrentCall DEF Emit, Plain
  <2> DEFINE o == Append(C.out, Tok)
             b == Level(C.braces, Tok, "{", "}")
  <2>2. o \in Seq(Items) /\ b \in Nat
    <3>1. C.out \in Seq(Items) /\ C.braces \in Nat
      BY <2>1 DEF CallSet
    <3> QED
      BY <2>1, <3>1, LevelType, AppendProperties
  <2>3. Become([C EXCEPT !.in = Rest, !.out = o, !.braces = b])
    BY <1>7 DEF Emit
  <2> HIDE DEF o, b
  <2>4. SameCall([C EXCEPT !.in = Rest, !.out = o, !.braces = b], C)
    BY <2>1, <2>2 DEF CallSet, SameCall
  <2> QED
    BY <1>0, <2>3, <2>4, BecomeKeeps
<1> QED
  BY <1>1, <1>2, <1>3, <1>4, <1>5, <1>6, <1>7

-----------------------------------------------------------------------------
(* The other variables. *)

LEMMA StepKeepsRest ==
    ASSUME PInv, Step
    PROVE  /\ source' \in Sources /\ status' \in {"run", "done", "error", "crash"}
           /\ cwd' \in Dirs
           /\ macros' \in Seq(Entry) /\ (Single(macros) => Single(macros'))
           /\ UNCHANGED prefix \/ (Emit /\ Tok \in Items /\ remember_exe_prefix(Tok))
<1>0. CallsOK /\ macros \in Seq(Entry) /\ cwd \in Dirs /\ source' = source /\ source \in Sources
  BY DEF PInv, Step
<1>1. status' \in {"run", "done", "error", "crash"}
  BY DEF PInv, Step, Define, Undef, Expand, IfDef, Else, EndIf, pp_eval_line, Defined, LineEnd,
         Include, Exe, TextEnd, BlockEnd, Help, Unknown, ToplevelCd, Crash, Emit, FileEnd,
         Continue, Become, Return, Halt
<1>2. cwd' \in Dirs
  BY <1>0 DEF Step, Define, Undef, Expand, IfDef, Else, EndIf, pp_eval_line, Defined, LineEnd,
         Include, Exe, TextEnd, BlockEnd, Help, Unknown, ToplevelCd, Crash, Emit, FileEnd
<1>3. macros' \in Seq(Entry) /\ (Single(macros) => Single(macros'))
  <2>1. CASE Define
    <3>1. Tok \in Items /\ Tok.k = "define"
      BY <1>0, <2>1, CurrentCall DEF Define, At
    <3> QED
      BY <1>0, <2>1, <3>1, DefineKeeps DEF Define
  <2>2. CASE Undef
    BY <1>0, <2>2, UndefKeeps DEF Undef, is_macro
  <2>3. CASE UNCHANGED macros
    BY <1>0, <2>3
  <2> QED
    BY <2>1, <2>2, <2>3
       DEF Step, Expand, IfDef, Else, EndIf, pp_eval_line, Defined, LineEnd, Include, Exe, TextEnd,
           BlockEnd, Help, Unknown, ToplevelCd, Crash, Emit, FileEnd
<1>4. UNCHANGED prefix \/ (Emit /\ Tok \in Items /\ remember_exe_prefix(Tok))
  <2>1. CASE Emit
    <3>1. Tok \in Items
      BY <1>0, <2>1, CurrentCall DEF Emit, Plain
    <3> QED
      BY <2>1, <3>1 DEF Emit
  <2> QED
    BY <2>1 DEF Step, Define, Undef, Expand, IfDef, Else, EndIf, pp_eval_line, Defined, LineEnd,
         Include, Exe, TextEnd, BlockEnd, Help, Unknown, ToplevelCd, Crash, FileEnd
<1> QED
  BY <1>0, <1>1, <1>2, <1>3, <1>4

LEMMA RememberType ==
    ASSUME PrefixOK, NEW t \in Items, remember_exe_prefix(t)
    PROVE  PrefixOK'
<1>1. exe_prefix' \in Seq(Items) /\ Len(exe_prefix') = Len(exe_prefix) + 1 /\ Len(exe_prefix) \in Nat
  <2>1. exe_prefix \in Seq(Items) /\ exe_prefix' = Append(exe_prefix, t)
    BY DEF PrefixOK, remember_exe_prefix
  <2> QED
    BY <2>1, AppendProperties
<1>2. visible' \in 0..Len(exe_prefix')
  <2>1. visible \in 0..Len(exe_prefix) /\ visible' \in {visible, Len(exe_prefix) + 1}
    BY DEF PrefixOK, remember_exe_prefix
  <2> QED
    BY <1>1, <2>1
<1>3. depth' \in [brace : Nat, paren : Nat, bracket : Nat]
  <2>1. depth.brace \in Nat /\ depth.paren \in Nat /\ depth.bracket \in Nat /\ depth' = Depths(depth, t)
    BY DEF PrefixOK, remember_exe_prefix
  <2> QED
    BY <2>1, LevelType DEF Depths
<1> QED
  BY <1>1, <1>2, <1>3 DEF PrefixOK

LEMMA InitTypes == Init => PInv /\ Single(macros)
<1> SUFFICES ASSUME Init PROVE PInv /\ Single(macros)
  OBVIOUS
<1> DEFINE f == Call("file", source.items, None)
           t == Call("text", Prelude, None)
<1>1. calls = <<f, t>>
  BY DEF Init
<1>2. f \in CallSet /\ f.k = "file" /\ t \in CallSet /\ t.k = "text"
  BY NewCall, TextsAssumption DEF Init, Kinds
<1> HIDE DEF f, t
<1>3. CallsOK
  BY <1>1, <1>2 DEF CallsOK
<1>4. macros \in Seq(Entry) /\ Single(macros) /\ PrefixOK
  BY DEF Init, Single, PrefixOK, Flat
<1> QED
  BY <1>3, <1>4, DirsAssumption DEF Init, PInv

LEMMA NextTypes ==
    ASSUME PInv, Single(macros), [Next]_vars
    PROVE  PInv' /\ Single(macros)'
<1>1. CASE Step
  <2>1. CallsOK'
    BY <1>1, CondKeepsCalls, NestKeepsCalls, PlainKeepsCalls DEF Step
  <2>2. PrefixOK'
    <3>1. CASE UNCHANGED prefix
      BY <3>1 DEF PInv, PrefixOK, prefix
    <3>2. CASE Tok \in Items /\ remember_exe_prefix(Tok)
      BY <3>2, RememberType DEF PInv
    <3> QED
      BY <1>1, <3>1, <3>2, StepKeepsRest
  <2> QED
    BY <1>1, <2>1, <2>2, StepKeepsRest DEF PInv
<1>2. CASE UNCHANGED vars
  BY <1>2 DEF vars, prefix, PInv, CallsOK, PrefixOK
<1> QED
  BY <1>1, <1>2 DEF Next, Ended

LEMMA Types == Spec => [](PInv /\ Single(macros))
BY InitTypes, NextTypes, PTL DEF Spec

-----------------------------------------------------------------------------
\* Whatever the source, the loops of the preprocessor nest properly, none sees
\* more #endif than #if, no bracket counter goes below zero and cwd exists.
THEOREM PreprocTypes == Spec => []TypeOK
<1>1. PInv => TypeOK
  <2> SUFFICES ASSUME PInv PROVE TypeOK
    OBVIOUS
  <2>1. DOMAIN calls = 1..Len(calls) /\ \A i \in 1..Len(calls) : calls[i] \in CallSet
    BY DEF PInv, CallsOK
  <2>2. \A i \in DOMAIN calls : /\ calls[i].k \in {"file", "text", "block", "line"}
                                /\ calls[i].cond_depth \in Nat /\ calls[i].braces \in Nat
    BY <2>1 DEF CallSet, Kinds
  <2> QED
    BY <2>2 DEF PInv, CallsOK, PrefixOK, TypeOK
<1> QED
  BY <1>1, Types, PTL

\* However often a name is defined and undefined, in the file, in its includes
\* or in #exe blocks: one entry at most is live for it.
THEOREM OneLiveEntryPerName == Spec => []OneLiveEntry
<1>1. PInv /\ Single(macros) => OneLiveEntry
  BY DEF PInv, Single, OneLiveEntry
<1> QED
  BY <1>1, Types, PTL

-----------------------------------------------------------------------------
(* What a #exe block sees. *)

\* The brackets; that their names differ is all the proofs know of them.
LB == "{"
RB == "}"
LP == "("
RP == ")"
LK == "["
RK == "]"
LEMMA Brackets == LB # RB /\ LP # RP /\ LK # RK
BY DEF LB, RB, LP, RP, LK, RK
LEMMA PairsAre == Pairs = {<<LB, RB>>, <<LP, RP>>, <<LK, RK>>}
BY Zenon DEF Pairs, LB, RB, LP, RP, LK, RK

\* Occurs, Complete and Stray of any list of tokens.
Oc(p, n, s) == Cardinality({i \in 1..n : Is(p[i], s)})
CompleteIn(p, n) == /\ \A x \in Pairs : Oc(p, n, x[1]) = Oc(p, n, x[2])
                    /\ n > 0 => Is(p[n], RB) \/ EndsStatement(p[n])
StrayIn(p) == \E n \in 1..Len(p), x \in Pairs : Oc(p, n, x[1]) < Oc(p, n, x[2])

\* The counters are the brackets still open, and v is the last place where
\* none was.
OpenIn(p, d) ==
    LET open(o, c) == Oc(p, Len(p), o) - Oc(p, Len(p), c) IN
    d.brace = open(LB, RB) /\ d.paren = open(LP, RP) /\ d.bracket = open(LK, RK)
Kept(p, v, d) ==
    ~StrayIn(p) => /\ OpenIn(p, d)
                   /\ CompleteIn(p, v)
                   /\ \A n \in (v + 1)..Len(p) : ~CompleteIn(p, n)

LEMMA Same ==
    /\ \A n : Complete(n) <=> CompleteIn(exe_prefix, n)
    /\ Stray <=> StrayIn(exe_prefix)
BY DEF Complete, Stray, Occurs, CompleteIn, StrayIn, Oc, RB

\* One token more: no earlier count changes, the last one by that token.
LEMMA OneMore ==
    ASSUME NEW p \in Seq(Items), NEW t \in Items, NEW s
    PROVE  LET q == Append(p, t) IN
           /\ \A n \in 0..Len(p) : Oc(q, n, s) = Oc(p, n, s) /\ Oc(p, n, s) \in Nat
           /\ Oc(q, Len(p) + 1, s) = Oc(p, Len(p), s) + (IF Is(t, s) THEN 1 ELSE 0)
<1> DEFINE q == Append(p, t)
           m == Len(p)
           S == {i \in 1..m : Is(p[i], s)}
<1>1. m \in Nat /\ \A i \in 1..m : q[i] = p[i]
  BY AppendProperties
<1>2. q[m + 1] = t
  BY AppendProperties
<1> HIDE DEF q, m
<1>3. ASSUME NEW n \in 0..m
      PROVE  Oc(q, n, s) = Oc(p, n, s) /\ Oc(p, n, s) \in Nat
  <2>1. n \in Int /\ 1..n \subseteq 1..m /\ {i \in 1..n : Is(p[i], s)} \subseteq 1..n
    BY <1>1
  <2>2. {i \in 1..n : Is(q[i], s)} = {i \in 1..n : Is(p[i], s)}
    BY <1>1, <2>1
  <2>3. IsFiniteSet({i \in 1..n : Is(p[i], s)})
    BY <2>1, FS_Interval, FS_Subset
  <2> QED
    BY <2>2, <2>3, FS_CardinalityType DEF Oc
<1>4. IsFiniteSet(S) /\ Cardinality(S) \in Nat /\ m + 1 \notin S
  <2>1. S \subseteq 1..m /\ m \in Int
    BY <1>1
  <2> QED
    <3>0. IsFiniteSet(1..m)
      BY <2>1, FS_Interval
    <3> HIDE DEF S
    <3>1. IsFiniteSet(S)
      BY <2>1, <3>0, FS_Subset
    <3>2. Cardinality(S) \in Nat
      BY <3>1, FS_CardinalityType
    <3> QED
      BY <1>1, <2>1, <3>1, <3>2
<1>5. {i \in 1..(m + 1) : Is(q[i], s)} = IF Is(t, s) THEN S \cup {m + 1} ELSE S
  <2>1. 1..(m + 1) = (1..m) \cup {m + 1}
    BY <1>1
  <2> QED
    BY <1>1, <1>2, <2>1
<1>6. Oc(q, m + 1, s) = Oc(p, m, s) + (IF Is(t, s) THEN 1 ELSE 0)
  <2> HIDE DEF S
  <2>1. Oc(p, m, s) = Cardinality(S)
    BY DEF Oc, S
  <2>2. CASE Is(t, s)
    <3>1. Cardinality(S \cup {m + 1}) = Cardinality(S) + 1
      BY <1>4, FS_AddElement
    <3> QED
      BY <1>5, <2>1, <2>2, <3>1 DEF Oc
  <2>3. CASE ~Is(t, s)
    <3>1. Oc(q, m + 1, s) = Cardinality(S)
      BY <1>5, <2>3 DEF Oc
    <3> QED
      BY <1>4, <2>1, <2>3, <3>1
  <2> QED
    BY <2>2, <2>3
<1> QED
  BY <1>3, <1>6 DEF q, m

Add(t, s) == IF Is(t, s) THEN 1 ELSE 0

\* Without a stray closer, a counter is the difference of the two counts.
LEMMA LevelIs ==
    ASSUME NEW t, NEW o, NEW c, o # c, NEW d \in Nat, NEW a \in Nat, NEW b \in Nat, d = a - b,
           ~(a + Add(t, o) < b + Add(t, c))
    PROVE  Level(d, t, o, c) = (a + Add(t, o)) - (b + Add(t, c))
<1>1. ~(Is(t, o) /\ Is(t, c))
  BY DEF Is
<1> QED
  BY <1>1 DEF Level, Add

LEMMA RememberKeeps ==
    ASSUME PrefixOK, NEW t \in Items, remember_exe_prefix(t), Kept(exe_prefix, visible, depth)
    PROVE  Kept(exe_prefix', visible', depth')
<1> DEFINE p == exe_prefix
           q == exe_prefix'
           m == Len(p)
<1>0. /\ p \in Seq(Items) /\ m \in Nat /\ q = Append(p, t) /\ Len(q) = m + 1 /\ visible \in 0..m
      /\ \A i \in 1..m : q[i] = p[i]
      /\ q[m + 1] = t
      /\ depth.brace \in Nat /\ depth.paren \in Nat /\ depth.bracket \in Nat
  <2>1. p \in Seq(Items) /\ q = Append(p, t) /\ visible \in 0..m
    BY DEF PrefixOK, remember_exe_prefix
  <2>2. depth.brace \in Nat /\ depth.paren \in Nat /\ depth.bracket \in Nat
    BY DEF PrefixOK
  <2> QED
    BY <2>1, <2>2, AppendProperties
<1> SUFFICES ASSUME ~StrayIn(q)
             PROVE  /\ OpenIn(q, depth') /\ CompleteIn(q, visible')
                    /\ \A n \in (visible' + 1)..Len(q) : ~CompleteIn(q, n)
  BY DEF Kept
<1>1. \A n \in 0..m : \A s : Oc(q, n, s) = Oc(p, n, s) /\ Oc(p, n, s) \in Nat
  BY <1>0, OneMore
<1>2. ASSUME NEW n \in 1..m PROVE CompleteIn(q, n) <=> CompleteIn(p, n)
  <2>1. n \in 0..m /\ q[n] = p[n]
    BY <1>0
  <2>2. \A s : Oc(q, n, s) = Oc(p, n, s)
    BY <1>1, <2>1
  <2> HIDE DEF p, q
  <2> QED
    BY <2>1, <2>2 DEF CompleteIn
<1>3. CompleteIn(q, 0) <=> CompleteIn(p, 0)
  BY <1>0, <1>1 DEF CompleteIn
<1>4. ~StrayIn(p)
  <2> SUFFICES ASSUME NEW n \in 1..Len(p), NEW x \in Pairs, Oc(p, n, x[1]) < Oc(p, n, x[2])
               PROVE  StrayIn(q)
    BY DEF StrayIn
  <2>1. n \in 0..m /\ n \in 1..Len(q)
    BY <1>0
  <2>2. Oc(q, n, x[1]) = Oc(p, n, x[1]) /\ Oc(q, n, x[2]) = Oc(p, n, x[2])
    BY <1>1, <2>1
  <2>3. Oc(q, n, x[1]) < Oc(q, n, x[2])
    BY <2>2
  <2> HIDE DEF p, q
  <2> QED
    BY <2>1, <2>3 DEF StrayIn
<1>5. /\ OpenIn(p, depth) /\ CompleteIn(p, visible)
      /\ \A n \in (visible + 1)..m : ~CompleteIn(p, n)
  BY <1>4 DEF Kept
<1>6. \A x \in Pairs : ~(Oc(q, m + 1, x[1]) < Oc(q, m + 1, x[2]))
  BY <1>0 DEF StrayIn
<1>7. /\ ~(Oc(q, m + 1, LB) < Oc(q, m + 1, RB)) /\ ~(Oc(q, m + 1, LP) < Oc(q, m + 1, RP))
      /\ ~(Oc(q, m + 1, LK) < Oc(q, m + 1, RK))
  BY <1>6, PairsAre
<1>a. \A s : Oc(p, m, s) \in Nat /\ Oc(q, m + 1, s) = Oc(p, m, s) + Add(t, s)
  <2>1. m \in 0..m
    BY <1>0
  <2>2. \A s : Oc(p, m, s) \in Nat
    BY <1>1, <2>1
  <2>3. \A s : Oc(q, m + 1, s) = Oc(p, m, s) + (IF Is(t, s) THEN 1 ELSE 0)
    BY <1>0, OneMore
  <2> QED
    BY <2>2, <2>3 DEF Add
<1>8. /\ depth'.brace = Oc(q, m + 1, LB) - Oc(q, m + 1, RB)
      /\ depth'.paren = Oc(q, m + 1, LP) - Oc(q, m + 1, RP)
      /\ depth'.bracket = Oc(q, m + 1, LK) - Oc(q, m + 1, RK)
  <2>1. /\ depth'.brace = Level(depth.brace, t, LB, RB)
        /\ depth'.paren = Level(depth.paren, t, LP, RP)
        /\ depth'.bracket = Level(depth.bracket, t, LK, RK)
    BY DEF remember_exe_prefix, Depths, LB, RB, LP, RP, LK, RK
  <2>2. /\ depth.brace = Oc(p, m, LB) - Oc(p, m, RB) /\ depth.paren = Oc(p, m, LP) - Oc(p, m, RP)
        /\ depth.bracket = Oc(p, m, LK) - Oc(p, m, RK)
    BY <1>5 DEF OpenIn
  <2> QED
    <3>1. /\ LB # RB /\ LP # RP /\ LK # RK
          /\ depth.brace \in Nat /\ depth.paren \in Nat /\ depth.bracket \in Nat
      BY <1>0, Brackets
    <3> HIDE DEF p, q, m
    <3>2. Level(depth.brace, t, LB, RB) = (Oc(p, m, LB) + Add(t, LB)) - (Oc(p, m, RB) + Add(t, RB))
      <4>1. ~(Oc(p, m, LB) + Add(t, LB) < Oc(p, m, RB) + Add(t, RB))
        BY <1>7, <1>a
      <4> QED
        BY <1>a, <2>2, <3>1, <4>1, LevelIs
    <3>3. Level(depth.paren, t, LP, RP) = (Oc(p, m, LP) + Add(t, LP)) - (Oc(p, m, RP) + Add(t, RP))
      <4>1. ~(Oc(p, m, LP) + Add(t, LP) < Oc(p, m, RP) + Add(t, RP))
        BY <1>7, <1>a
      <4> QED
        BY <1>a, <2>2, <3>1, <4>1, LevelIs
    <3>4. Level(depth.bracket, t, LK, RK) = (Oc(p, m, LK) + Add(t, LK)) - (Oc(p, m, RK) + Add(t, RK))
      <4>1. ~(Oc(p, m, LK) + Add(t, LK) < Oc(p, m, RK) + Add(t, RK))
        BY <1>7, <1>a
      <4> QED
        BY <1>a, <2>2, <3>1, <4>1, LevelIs
    <3> QED
      BY <1>a, <2>1, <3>2, <3>3, <3>4
<1>9. OpenIn(q, depth')
  BY <1>0, <1>8 DEF OpenIn
<1>11. CompleteIn(q, m + 1) <=> depth' = Flat /\ (Is(t, RB) \/ EndsStatement(t))
  <2>1. depth' = Flat <=> depth'.brace = 0 /\ depth'.paren = 0 /\ depth'.bracket = 0
    BY DEF remember_exe_prefix, Depths, Flat
  <2>2. depth' = Flat <=> \A x \in Pairs : Oc(q, m + 1, x[1]) = Oc(q, m + 1, x[2])
    <3>1. (\A x \in Pairs : Oc(q, m + 1, x[1]) = Oc(q, m + 1, x[2]))
             <=> /\ Oc(q, m + 1, LB) = Oc(q, m + 1, RB) /\ Oc(q, m + 1, LP) = Oc(q, m + 1, RP)
                 /\ Oc(q, m + 1, LK) = Oc(q, m + 1, RK)
      BY PairsAre
    <3>2. \A a, b \in Nat : a - b = 0 <=> a = b
      OBVIOUS
    <3>3. \A s : Oc(q, m + 1, s) \in Nat
      BY <1>a DEF Add
    <3> HIDE DEF q, m
    <3> QED
      BY <1>8, <2>1, <3>1, <3>2, <3>3
  <2>3. m + 1 > 0
    BY <1>0
  <2> QED
    BY <1>0, <2>2, <2>3 DEF CompleteIn
<1>12. CASE visible' = m + 1 /\ CompleteIn(q, m + 1)
  BY <1>0, <1>9, <1>12
<1>13. CASE visible' = visible /\ ~CompleteIn(q, m + 1)
  <2>1. CompleteIn(q, visible)
    BY <1>0, <1>2, <1>3, <1>5
  <2>2. \A n \in (visible + 1)..(m + 1) : n \in 1..m \/ n = m + 1
    BY <1>0
  <2> QED
    BY <1>0, <1>2, <1>5, <1>9, <1>13, <2>1, <2>2
<1> QED
  BY <1>11, <1>12, <1>13 DEF remember_exe_prefix, RB

LEMMA KeptAlways == Spec => []Kept(exe_prefix, visible, depth)
<1>1. Init => Kept(exe_prefix, visible, depth)
  <2> SUFFICES ASSUME Init PROVE Kept(exe_prefix, visible, depth)
    OBVIOUS
  <2>1. exe_prefix = <<>> /\ Len(exe_prefix) = 0 /\ visible = 0 /\ depth = Flat
    BY DEF Init
  <2>2. \A s : Oc(exe_prefix, 0, s) = 0
    <3>1. \A s : {i \in 1..0 : Is(exe_prefix[i], s)} = {}
      OBVIOUS
    <3> QED
      BY <3>1, FS_EmptySet DEF Oc
  <2>3. OpenIn(exe_prefix, depth)
    <3>1. 0 - 0 = 0 /\ depth.brace = 0 /\ depth.paren = 0 /\ depth.bracket = 0
      BY <2>1 DEF Flat
    <3> QED
      BY <2>1, <2>2, <3>1 DEF OpenIn
  <2>4. CompleteIn(exe_prefix, 0) /\ (0 + 1)..0 = {}
    BY <2>2 DEF CompleteIn
  <2> QED
    BY <2>1, <2>3, <2>4 DEF Kept
<1>2. PInv /\ Kept(exe_prefix, visible, depth) /\ [Next]_vars => Kept(exe_prefix, visible, depth)'
  <2> SUFFICES ASSUME PInv, Kept(exe_prefix, visible, depth), [Next]_vars
               PROVE  Kept(exe_prefix', visible', depth')
    OBVIOUS
  <2>1. CASE UNCHANGED prefix
    BY <2>1 DEF prefix
  <2>2. CASE Tok \in Items /\ remember_exe_prefix(Tok)
    BY <2>2, RememberKeeps DEF PInv
  <2> QED
    BY <2>1, <2>2, StepKeepsRest DEF Next, Ended, vars
<1> QED
  BY <1>1, <1>2, Types, PTL DEF Spec

\* Whatever macros, conditionals and includes produced them: the tokens a #exe
\* block sees are whole top-level constructs, and all there are so far.
THEOREM PrefixAlwaysComplete == Spec => []PrefixComplete
<1>1. PInv /\ Kept(exe_prefix, visible, depth) => PrefixComplete
  BY Same DEF PInv, Kept, PrefixComplete
<1> QED
  BY <1>1, Types, KeptAlways, PTL
=============================================================================
