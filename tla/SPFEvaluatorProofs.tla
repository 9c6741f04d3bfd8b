------------------------- MODULE SPFEvaluatorProofs -------------------------
(***************************************************************************)
(* The SPF evaluator for every set of domains, every zone and every choice *)
(* of the limits: it never walks a record inside its own evaluation, never *)
(* gives up silently, never asks more than three times the limit, calls no *)
(* prefix redundant that the rest of its record does not cover, and agrees *)
(* with the reference of SPFReference on the cost of the tree, on its all  *)
(* and on whether it passes every sender.                                  *)
(*                                                                         *)
(* The counts are tied to the stack: a frame above the apex was paid for   *)
(* with a lookup, so a stack that is too deep has used up the limit.  For  *)
(* the reference every frame has a place in the tree, and what a counter   *)
(* shows and what the frames still owe make up the cost of the whole.      *)
(***************************************************************************)
EXTENDS SPFReference, SequenceTheorems, FiniteSetTheorems, WellFoundedInduction, TLAPS

USE ZonesAssumption, LimitsAssumption

\* A frame that waits for another is at an include or a redirect.
Pending == \A i \in 1..(Len(stack) - 1) : ~AtEnd(stack[i])

\* The shape of the stack.
StackInv ==
    /\ stack \in Seq(Frames) /\ Len(stack) <= PathLimit + 1
    /\ main = "walk" <=> stack # <<>>
    /\ LoopFree
    /\ Pending

\* The counts pay for the stack, for the queries and for giving up.
CountInv ==
    /\ lookups >= Len(stack) - 1
    /\ queries <= lookups /\ queries <= 3 * spfLookupLimit
    /\ main = "start" => ~gaveUp
    /\ gaveUp => lookups > spfLookupLimit
    /\ main = "done" /\ gaveUp => Problem("lookup_limit", NoDomain) \in problems

Rest ==
    /\ zone \in [Domains -> Answers]
    /\ main \in {"start", "walk", "done"}
    /\ lookups \in Nat /\ void \in Nat /\ queries \in Nat
    /\ includes \subseteq Domains
    /\ gaveUp \in BOOLEAN
    /\ result.all \in Quals \union {"none"}

IInv == Rest /\ StackInv /\ CountInv

-----------------------------------------------------------------------------
(* Records and frames *)

\* A non-empty set of naturals has a least element.
LEMMA LeastNatural ==
    ASSUME NEW S, S \subseteq Nat, S # {}
    PROVE  \E m \in S : \A n \in S : m <= n
<1> DEFINE less == OpToRel(<, Nat)
<1>1. IsWellFoundedOn(less, Nat)
  BY NatLessThanWellFounded
<1>2. \A m, n \in Nat : <<m, n>> \in less <=> m < n
  BY DEF OpToRel
<1> HIDE DEF less
<1>3. PICK m \in S : \A n \in S : ~(<<n, m>> \in less)
  BY <1>1, WFMin
<1>4. ASSUME NEW n \in S PROVE m <= n
  <2>1. m \in Nat /\ n \in Nat
    OBVIOUS
  <2>2. ~(n < m)
    BY <1>2, <1>3, <2>1
  <2> QED  BY <2>1, <2>2
<1> QED  BY <1>4

\* The terms of a record have their type.
LEMMA TermsTyped ==
    ASSUME Rest, NEW d \in Domains
    PROVE  TermsOf(d) \in Seq(Terms)
  BY DEF Rest, TermsOf, Answers

\* The all of a record is a qualifier, or none.
LEMMA RecordAllTyped ==
    ASSUME Rest, NEW d \in Domains
    PROVE  RecordAll(d) \in Quals \union {"none"}
<1> DEFINE T == TermsOf(d)
           S == {i \in DOMAIN T : T[i].name = "all"}
<1>1. T \in Seq(Terms)
  BY TermsTyped
<1> HIDE DEF T
<1>2. CASE HasAll(d)
  <2>1. S \subseteq Nat /\ S # {}
    BY <1>1, <1>2 DEF HasAll, T
  <2>2. PICK m \in S : \A n \in S : m <= n
    BY <2>1, LeastNatural
  <2>3. m \in DOMAIN T /\ T[m].name = "all" /\ \A j \in 1..(m - 1) : T[j].name # "all"
    BY <1>1, <2>2
  <2>4. FirstAll(d) \in DOMAIN T
    BY <2>3 DEF FirstAll, T
  <2>5. T[FirstAll(d)] \in Terms
    BY <1>1, <2>4
  <2>6. T[FirstAll(d)].qual \in Quals
    BY <2>5 DEF Terms
  <2> QED  BY <1>2, <2>6 DEF RecordAll, T
<1>3. CASE ~HasAll(d)
  BY <1>3 DEF RecordAll
<1> QED  BY <1>2, <1>3

\* A new frame has its type.
LEMMA FrameTyped ==
    ASSUME Rest, NEW d \in Domains
    PROVE  Frame(d) \in Frames /\ Frame(d).domain = d
<1>1. RecordAll(d) \in Quals \union {"none"}
  BY RecordAllTyped
<1> QED  BY <1>1 DEF Frame, Frames

\* A frame that goes on after a call has its type and its domain.
LEMMA ResumeTyped ==
    ASSUME Rest, NEW f \in Frames, ~AtEnd(f), NEW all \in Quals \union {"none"}
    PROVE  Resume(f, all) \in Frames /\ Resume(f, all).domain = f.domain
<1>1. f.domain \in Domains /\ f.pos \in Nat \ {0}
  BY DEF Frames
<1>2. TermsOf(f.domain) \in Seq(Terms)
  BY <1>1, TermsTyped
<1>3. TermOf(f) \in Terms
  BY <1>1, <1>2 DEF TermOf, AtEnd
<1>4. TermOf(f).target \in Domains \union {NoDomain}
  BY <1>3 DEF Terms
<1>5. f.pos + 1 \in Nat \ {0}
  BY <1>1
<1>6. [f EXCEPT !.pos = @ + 1] \in Frames /\ [f EXCEPT !.pos = @ + 1].domain = f.domain
  BY <1>5 DEF Frames
<1>7. ASSUME NEW v \in Domains \union {NoDomain}
      PROVE  /\ [f EXCEPT !.pos = @ + 1, !.redirected = TRUE, !.all = all, !.via = v] \in Frames
             /\ [f EXCEPT !.pos = @ + 1, !.redirected = TRUE, !.all = all, !.via = v].domain
                    = f.domain
  BY <1>5 DEF Frames
<1>8. CASE TermOf(f).name = "include"
  BY <1>6, <1>8 DEF Resume
<1>9. CASE TermOf(f).name # "include"
  <2> DEFINE v == IF all = "none" THEN NoDomain ELSE TermOf(f).target
  <2>1. v \in Domains \union {NoDomain}
    BY <1>4
  <2>2. Resume(f, all) = [f EXCEPT !.pos = @ + 1, !.redirected = TRUE, !.all = all, !.via = v]
    BY <1>9 DEF Resume
  <2>3. [f EXCEPT !.pos = @ + 1, !.redirected = TRUE, !.all = all, !.via = v] \in Frames
        /\ [f EXCEPT !.pos = @ + 1, !.redirected = TRUE, !.all = all, !.via = v].domain = f.domain
    BY <1>7, <2>1
  <2> HIDE DEF v
  <2> QED  BY <2>2, <2>3
<1> QED  BY <1>8, <1>9

\* Replacing the top by a frame of the same domain keeps the stack's shape.
LEMMA SetTopKeeps ==
    ASSUME StackInv, main = "walk", main' = main, zone' = zone,
           NEW f \in Frames, f.domain = Top.domain, stack' = SetTop(f)
    PROVE  StackInv' /\ Len(stack') = Len(stack)
<1>1. stack \in Seq(Frames) /\ Len(stack) \in Nat /\ Len(stack) > 0
  BY EmptySeq, LenProperties DEF StackInv
<1>2. stack' \in Seq(Frames) /\ Len(stack') = Len(stack) /\ stack' # <<>>
  BY <1>1, ExceptSeq DEF SetTop
<1>3. \A i \in 1..(Len(stack) - 1) : stack'[i] = stack[i]
  BY <1>1 DEF SetTop
<1>4. \A i \in 1..Len(stack) : stack'[i].domain = stack[i].domain
  BY <1>1 DEF SetTop, Top
<1>5. LoopFree'
  BY <1>1, <1>2, <1>4 DEF StackInv, LoopFree
<1>6. Pending'
  BY <1>1, <1>2, <1>3 DEF StackInv, Pending, AtEnd, TermsOf
<1> QED  BY <1>2, <1>5, <1>6 DEF StackInv

\* The top frame has its type; a frame that is not at its end has a term.
LEMMA TopTyped ==
    ASSUME IInv, main = "walk"
    PROVE  /\ Len(stack) \in Nat /\ Len(stack) > 0 /\ Top \in Frames /\ Top.domain \in Domains
           /\ Top.pos \in Nat \ {0} /\ Top.all \in Quals \union {"none"}
<1>1. stack \in Seq(Frames) /\ Len(stack) \in Nat /\ Len(stack) > 0
  BY EmptySeq, LenProperties DEF IInv, StackInv
<1>2. Top \in Frames
  BY <1>1 DEF Top
<1> QED  BY <1>1, <1>2 DEF Frames

-----------------------------------------------------------------------------
(* The invariant *)

\* The invariant holds in the initial states.
LEMMA InitIInv == Init => IInv
<1> SUFFICES ASSUME Init PROVE IInv
  OBVIOUS
<1>1. zone \in [Domains -> Answers]
  BY DEF Init
<1>2. Rest
  BY <1>1 DEF Init, Rest
<1>3. StackInv
  BY DEF Init, StackInv, LoopFree, Pending
<1>4. CountInv
  BY DEF Init, CountInv
<1> QED  BY <1>2, <1>3, <1>4 DEF IInv

\* A call that returns without a walk keeps the invariant.
LEMMA SkipKeeps ==
    ASSUME IInv, Calls, NEW found, Skip(found),
           void' \in Nat, includes' \subseteq Domains,
           \/ UNCHANGED <<queries, gaveUp>>
           \/ queries' = queries + 1 /\ ~Pathological /\ UNCHANGED gaveUp
           \/ UNCHANGED queries /\ gaveUp' = TRUE /\ Pathological
    PROVE  IInv'
<1>1. main = "walk" /\ ~AtEnd(Top)
  BY DEF Calls, Walking
<1>2. Top \in Frames /\ Len(stack) \in Nat /\ Len(stack) > 0
  BY <1>1, TopTyped
<1>3. Resume(Top, "none") \in Frames /\ Resume(Top, "none").domain = Top.domain
  BY <1>1, <1>2, ResumeTyped DEF IInv
<1>4. StackInv' /\ Len(stack') = Len(stack)
  BY <1>1, <1>3, SetTopKeeps DEF Skip, IInv
<1>5. lookups \in Nat /\ queries \in Nat /\ lookups' = lookups + 1 /\ main' = "walk"
  BY <1>1 DEF IInv, Rest, Skip
<1>6. Rest'
  <2>1. gaveUp' \in BOOLEAN
    BY DEF IInv, Rest
  <2>2. queries' \in Nat
    BY <1>5
  <2> QED  BY <1>5, <2>1, <2>2 DEF IInv, Rest, Skip
<1>7. CountInv'
  BY <1>2, <1>4, <1>5 DEF IInv, CountInv, Pathological
<1> QED  BY <1>4, <1>6, <1>7 DEF IInv

\* Every step keeps the invariant.
LEMMA NextIInv == IInv /\ [Next]_vars => IInv'
<1> SUFFICES ASSUME IInv, [Next]_vars PROVE IInv'
  OBVIOUS
<1>0. /\ lookups \in Nat /\ queries \in Nat /\ void \in Nat /\ gaveUp \in BOOLEAN
      /\ includes \subseteq Domains /\ zone \in [Domains -> Answers] /\ Rest
  BY DEF IInv, Rest
<1>1. CASE NoRecord
  <2>1. stack = <<>> /\ ~gaveUp
    BY <1>1 DEF NoRecord, IInv, StackInv, CountInv
  <2>2. Rest'
    BY <1>1 DEF NoRecord, counts, IInv, Rest
  <2>3. StackInv'
    BY <1>1, <2>1 DEF NoRecord, IInv, StackInv, LoopFree, Pending
  <2>4. CountInv'
    BY <1>1, <2>1 DEF NoRecord, counts, IInv, CountInv
  <2> QED  BY <2>2, <2>3, <2>4 DEF IInv
<1>2. CASE EvaluateSPF
  <2>1. Frame(Apex) \in Frames /\ Frame(Apex).domain = Apex
    BY <1>0, FrameTyped
  <2>2. stack' \in Seq(Frames) /\ Len(stack') = 1 /\ stack' # <<>> /\ main' = "walk"
    BY <1>2, <2>1 DEF EvaluateSPF
  <2>3. Rest'
    BY <1>2 DEF EvaluateSPF, counts, IInv, Rest
  <2>4. StackInv'
    BY <2>2 DEF StackInv, LoopFree, Pending
  <2>5. CountInv'
    BY <1>0, <1>2, <2>2 DEF EvaluateSPF, counts, IInv, CountInv
  <2> QED  BY <2>3, <2>4, <2>5 DEF IInv
<1>3. CASE IgnoreRedirect
  <2> DEFINE f == [Top EXCEPT !.pos = @ + 1, !.redirected = TRUE]
  <2>1. main = "walk" /\ main' = main /\ zone' = zone /\ stack' = SetTop(f)
    BY <1>3 DEF IgnoreRedirect, Walking
  <2>2. Top \in Frames /\ Top.pos \in Nat \ {0}
    BY <2>1, TopTyped
  <2>0. Top.pos + 1 \in Nat \ {0}
    BY <2>2
  <2>3. f \in Frames /\ f.domain = Top.domain
    BY <2>0, <2>2 DEF Frames
  <2> HIDE DEF f
  <2>4. StackInv' /\ Len(stack') = Len(stack)
    BY <2>1, <2>3, SetTopKeeps DEF IInv
  <2>5. Rest'
    BY <1>3 DEF IgnoreRedirect, counts, IInv, Rest
  <2>6. CountInv'
    BY <1>3, <2>1, <2>4 DEF IgnoreRedirect, counts, IInv, CountInv
  <2> QED  BY <2>4, <2>5, <2>6 DEF IInv
<1>4. CASE PlainTerm
  <2> DEFINE f == [Top EXCEPT !.pos = @ + 1]
  <2>1. main = "walk" /\ main' = main /\ zone' = zone /\ stack' = SetTop(f)
    BY <1>4 DEF PlainTerm, Walking
  <2>2. Top \in Frames /\ Top.pos \in Nat \ {0} /\ Len(stack) \in Nat
    BY <2>1, TopTyped
  <2>3. f \in Frames /\ f.domain = Top.domain
    BY <2>2 DEF Frames
  <2> HIDE DEF f
  <2>4. StackInv' /\ Len(stack') = Len(stack)
    BY <2>1, <2>3, SetTopKeeps DEF IInv
  <2>5. lookups' \in Nat /\ lookups' >= lookups
    BY <1>0, <1>4 DEF PlainTerm
  <2>6. Rest'
    BY <1>4, <2>5 DEF PlainTerm, IInv, Rest
  <2>7. CountInv'
    BY <1>0, <1>4, <2>1, <2>2, <2>4, <2>5 DEF PlainTerm, IInv, CountInv
  <2> QED  BY <2>4, <2>6, <2>7 DEF IInv
<1>5. CASE MacroTarget
  BY <1>0, <1>5, SkipKeeps DEF MacroTarget
<1>6. CASE InvalidTarget
  BY <1>0, <1>6, SkipKeeps DEF InvalidTarget
<1>7. CASE IncludeLoop
  BY <1>0, <1>7, SkipKeeps DEF IncludeLoop
<1>8. CASE GiveUp
  <2>1. includes' \subseteq Domains
    BY <1>0, <1>8 DEF GiveUp, Descends, NoteInclude
  <2> QED  BY <1>0, <1>8, <2>1, SkipKeeps DEF GiveUp, Descends
<1>9. CASE Unchecked
  <2>1. includes' \subseteq Domains
    BY <1>0, <1>9 DEF Unchecked, Asks, Descends, NoteInclude
  <2> QED  BY <1>0, <1>9, <2>1, SkipKeeps DEF Unchecked, Asks, Descends
<1>10. CASE Missing
  <2>1. includes' \subseteq Domains
    BY <1>0, <1>10 DEF Missing, Asks, Descends, NoteInclude
  <2>2. void' \in Nat
    BY <1>0, <1>10 DEF Missing
  <2> QED  BY <1>0, <1>10, <2>1, <2>2, SkipKeeps DEF Missing, Asks, Descends
<1>11. CASE Enter
  <2> DEFINE d == Term.target
  <2>1. /\ main = "walk" /\ main' = "walk" /\ zone' = zone /\ ~AtEnd(Top) /\ d \in Domains
        /\ ~OnPath(d) /\ ~Pathological /\ stack' = Append(stack, Frame(d))
        /\ queries' = queries + 1 /\ lookups' = lookups + 1
    BY <1>11 DEF Enter, Asks, Descends, Calls, Walking
  <2>2. Frame(d) \in Frames /\ Frame(d).domain = d
    BY <1>0, <2>1, FrameTyped
  <2> HIDE DEF d
  <2>3. Len(stack) \in Nat /\ Len(stack) > 0 /\ Top \in Frames
    BY <2>1, TopTyped
  <2>4. stack \in Seq(Frames) /\ Len(stack) <= PathLimit
    BY <2>1, <2>3 DEF IInv, StackInv, Pathological
  <2>5. /\ stack' \in Seq(Frames) /\ Len(stack') = Len(stack) + 1 /\ stack' # <<>>
        /\ stack'[Len(stack) + 1] = Frame(d)
        /\ \A i \in 1..Len(stack) : stack'[i] = stack[i]
    BY <2>1, <2>2, <2>4, AppendProperties
  <2>6. LoopFree'
    BY <2>1, <2>2, <2>3, <2>4, <2>5 DEF IInv, StackInv, LoopFree, OnPath
  <2>7. Pending'
    BY <2>1, <2>3, <2>4, <2>5 DEF IInv, StackInv, Pending, AtEnd, TermsOf, Top
  <2>8. StackInv'
    BY <2>1, <2>3, <2>4, <2>5, <2>6, <2>7 DEF StackInv
  <2>9. includes' \subseteq Domains
    BY <1>0, <1>11 DEF Enter, Asks, Descends, NoteInclude
  <2>10. Rest'
    BY <1>0, <1>11, <2>1, <2>9 DEF Enter, Rest
  <2>11. CountInv'
    BY <1>0, <1>11, <2>1, <2>3, <2>5 DEF Enter, IInv, CountInv, Pathological
  <2> QED  BY <2>8, <2>10, <2>11 DEF IInv
<1>12. CASE Leave
  <2> DEFINE n == Len(stack) - 1
             f == Resume(stack[n], Top.all)
             short == SubSeq(stack, 1, n)
  <2>1. main = "walk" /\ main' = "walk" /\ zone' = zone /\ Len(stack) > 1
    BY <1>12 DEF Leave
  <2>2. stack \in Seq(Frames) /\ Len(stack) \in Nat /\ Top.all \in Quals \union {"none"}
    BY <2>1, TopTyped DEF IInv, StackInv
  <2>3. n \in 1..Len(stack) /\ stack[n] \in Frames /\ ~AtEnd(stack[n])
    BY <2>1, <2>2 DEF IInv, StackInv, Pending
  <2>4. f \in Frames /\ f.domain = stack[n].domain
    BY <1>0, <2>2, <2>3, ResumeTyped
  <2>5. short \in Seq(Frames) /\ Len(short) = n /\ \A i \in 1..n : short[i] = stack[i]
    BY <2>2, <2>3, SubSeqProperties
  <2>6. stack' = [short EXCEPT ![n] = f]
    BY <1>12 DEF Leave
  <2> HIDE DEF f, short
  <2>7. /\ stack' \in Seq(Frames) /\ Len(stack') = n /\ stack' # <<>>
        /\ \A i \in 1..(n - 1) : stack'[i] = stack[i]
        /\ \A i \in 1..n : stack'[i].domain = stack[i].domain
    BY <2>1, <2>2, <2>3, <2>4, <2>5, <2>6, ExceptSeq
  <2>8. LoopFree'
    <3>1. \A i, j \in 1..n : i # j => stack[i].domain # stack[j].domain
      BY <2>1, <2>2 DEF IInv, StackInv, LoopFree
    <3>2. DOMAIN stack' = 1..n
      BY <2>7
    <3> QED  BY <2>7, <3>1, <3>2 DEF LoopFree
  <2>9. Pending'
    BY <2>1, <2>2, <2>7 DEF IInv, StackInv, Pending, AtEnd, TermsOf
  <2>10. StackInv'
    BY <2>1, <2>2, <2>7, <2>8, <2>9 DEF IInv, StackInv
  <2>11. Rest'
    BY <1>12 DEF Leave, counts, IInv, Rest
  <2>12. CountInv'
    <3>1. UNCHANGED <<lookups, queries, gaveUp>>
      BY <1>12 DEF Leave, counts
    <3>2. lookups >= Len(stack') - 1
      BY <1>0, <2>2, <2>7 DEF IInv, CountInv
    <3> QED  BY <2>1, <3>1, <3>2 DEF IInv, CountInv
  <2> QED  BY <2>10, <2>11, <2>12 DEF IInv
<1>13. CASE Finish
  <2>1. main = "walk" /\ main' = "done" /\ stack' = <<>>
    BY <1>13 DEF Finish
  <2>2. Top.all \in Quals \union {"none"}
    BY <2>1, TopTyped
  <2>3. Rest'
    BY <1>13, <2>2 DEF Finish, counts, IInv, Rest
  <2>4. StackInv'
    BY <2>1 DEF StackInv, LoopFree, Pending
  <2>5. lookups > spfLookupLimit => Problem("lookup_limit", NoDomain) \in problems'
    BY <1>13 DEF Finish, When
  <2>6. CountInv'
    BY <1>0, <1>13, <2>1, <2>5 DEF Finish, counts, IInv, CountInv
  <2> QED  BY <2>3, <2>4, <2>6 DEF IInv
<1>14. CASE Done \/ UNCHANGED vars
  <2>1. UNCHANGED <<zone, main, stack, lookups, void, includes, queries, gaveUp, problems, result>>
    BY <1>14 DEF Done, vars, counts
  <2>2. Rest' /\ CountInv'
    BY <2>1 DEF IInv, Rest, CountInv
  <2>3. StackInv'
    BY <2>1 DEF IInv, StackInv, LoopFree, Pending, AtEnd, TermsOf
  <2> QED  BY <2>2, <2>3 DEF IInv
<1> QED
  BY <1>1, <1>2, <1>3, <1>4, <1>5, <1>6, <1>7, <1>8, <1>9, <1>10, <1>11, <1>12, <1>13, <1>14
  DEF Next

\* IInv holds throughout an evaluation of any record by checkSPF.
THEOREM Invariance == Spec => []IInv
  BY InitIInv, NextIInv, PTL DEF Spec

-----------------------------------------------------------------------------
(* The theorems *)

\* Types hold, and no walk is deeper than descend allows.
THEOREM TypeCorrect == Spec => []TypeOK
<1>1. IInv => TypeOK
  BY DEF IInv, Rest, StackInv, TypeOK
<1> QED  BY <1>1, Invariance, PTL

\* No record is walked inside its own evaluation.
THEOREM LoopsAreCut == Spec => []LoopFree
<1>1. IInv => LoopFree
  BY DEF IInv, StackInv
<1> QED  BY <1>1, Invariance, PTL

\* A tree that is given up on is reported as over the limit: the comment
\* "the limit finding already fires" of descend holds.
THEOREM GivingUpIsTold == Spec => []LimitTold
<1>1. IInv => LimitTold
  BY DEF IInv, CountInv, LimitTold
<1> QED  BY <1>1, Invariance, PTL

\* No include tree costs more than three times the limit in TXT lookups.
THEOREM LookupsAreBounded == Spec => []QueriesBounded
<1>1. IInv => QueriesBounded
  BY DEF IInv, CountInv, QueriesBounded
<1> QED  BY <1>1, Invariance, PTL

-----------------------------------------------------------------------------
(* Redundant prefixes *)

\* What covers a prefix that covers another covers that one too.
LEMMA CoversTransitive ==
    ASSUME Rest, NEW d \in Domains, NEW i \in DOMAIN TermsOf(d), NEW j \in DOMAIN TermsOf(d),
           NEW k \in DOMAIN TermsOf(d), Covers(d, k, j), Covers(d, j, i)
    PROVE  Covers(d, k, i)
<1>1. i \in Nat /\ j \in Nat /\ k \in Nat
  BY TermsTyped
<1> DEFINE T == TermsOf(d)
<1>2. /\ k # j /\ T[k].name = "ip" /\ T[j].qual = T[k].qual /\ T[j].prefix \subseteq T[k].prefix
      /\ T[j].prefix = T[k].prefix => k < j
      /\ j # i /\ T[i].qual = T[j].qual /\ T[i].prefix \subseteq T[j].prefix
      /\ T[i].prefix = T[j].prefix => j < i
  BY DEF Covers
<1>3. T[i].prefix \subseteq T[k].prefix
  BY <1>2
<1>4. T[i].prefix = T[k].prefix => T[j].prefix = T[k].prefix /\ T[i].prefix = T[j].prefix
  BY <1>2
<1> HIDE DEF T
<1>5. T[i].prefix = T[k].prefix => k < i
  BY <1>1, <1>2, <1>4
<1>6. i # k
  BY <1>1, <1>2, <1>4
<1> QED  BY <1>2, <1>3, <1>5, <1>6 DEF Covers, T

\* Every prefix that is called redundant lies in one that is not.  Of the
\* prefixes it lies in, take one that the fewest others cover: whatever
\* covered that one would itself be covered by fewer still.
LEMMA RedundantCovered ==
    ASSUME Rest, NEW d \in Domains, NEW r \in Redundant(d)
    PROVE  \E k \in DOMAIN TermsOf(d) \ Redundant(d) :
               /\ TermsOf(d)[k].name = "ip" /\ TermsOf(d)[k].qual = TermsOf(d)[r].qual
               /\ TermsOf(d)[r].prefix \subseteq TermsOf(d)[k].prefix
<1> DEFINE T == TermsOf(d)
           Above(j) == {k \in DOMAIN T : Covers(d, k, j)}
           Around == {k \in DOMAIN T : /\ T[k].name = "ip" /\ T[k].qual = T[r].qual
                                       /\ T[r].prefix \subseteq T[k].prefix}
           Counts == {Cardinality(Above(j)) : j \in Around}
<1>1. IsFiniteSet(DOMAIN T)
  <2>1. T \in Seq(Terms)
    BY TermsTyped
  <2>2. DOMAIN T = 1..Len(T) /\ Len(T) \in Int
    BY <2>1
  <2>3. IsFiniteSet(1..Len(T))
    BY <2>2, FS_Interval
  <2> QED  BY <2>2, <2>3
<1>2. \A j : IsFiniteSet(Above(j)) /\ Cardinality(Above(j)) \in Nat
  <2> TAKE j
  <2>1. Above(j) \in SUBSET DOMAIN T
    OBVIOUS
  <2>2. IsFiniteSet(Above(j))
    BY <1>1, <2>1, FS_Subset
  <2> QED  BY <2>2, FS_CardinalityType
<1>3. r \in Around
  BY DEF Redundant
<1>4. PICK k \in Around : \A j \in Around : Cardinality(Above(k)) <= Cardinality(Above(j))
  <2>1. Counts \subseteq Nat
    BY <1>2
  <2> HIDE DEF Above, Around
  <2>2. Cardinality(Above(r)) \in Counts
    BY <1>3
  <2>3. PICK m \in Counts : \A n \in Counts : m <= n
    BY <2>1, <2>2, LeastNatural
  <2>4. PICK k \in Around : m = Cardinality(Above(k))
    BY <2>3
  <2>5. \A j \in Around : Cardinality(Above(j)) \in Counts
    OBVIOUS
  <2> QED  BY <2>3, <2>4, <2>5
<1>5. ASSUME NEW j \in DOMAIN T, Covers(d, j, k) PROVE FALSE
  <2>1. j \in Around
    BY <1>4, <1>5 DEF Covers
  <2>2. Above(j) \in SUBSET Above(k)
    BY <1>4, <1>5, CoversTransitive
  <2>3. j \in Above(k) /\ j \notin Above(j)
    BY <1>5 DEF Covers
  <2> HIDE DEF Above, Around
  <2>4. Cardinality(Above(j)) <= Cardinality(Above(k)) /\ Cardinality(Above(k)) # Cardinality(Above(j))
    BY <1>2, <2>2, <2>3, FS_Subset
  <2>5. Cardinality(Above(k)) <= Cardinality(Above(j))
    BY <1>4, <2>1
  <2> QED  BY <1>2, <2>4, <2>5
<1>6. k \notin Redundant(d)
  BY <1>5 DEF Redundant
<1> QED  BY <1>4, <1>6

\* Some terms that are not none have a first one.
LEMMA FirstExists ==
    ASSUME NEW S, S \subseteq Nat, S # {}
    PROVE  FirstOf(S) \in S /\ \A j \in S : FirstOf(S) <= j
<1>1. PICK i \in S : \A j \in S : i <= j
  BY LeastNatural
<1> QED  BY <1>1 DEF FirstOf

\* An address keeps its verdict without the prefixes that are called
\* redundant, unless another qualifier stands in between.
LEMMA RemovalKeeps ==
    ASSUME Rest, NEW d \in Domains, NEW address, IPMatches(d, address) # {}
    PROVE  LET all  == IPMatches(d, address)
               left == all \ Redundant(d)
               qual(i) == TermsOf(d)[i].qual
           IN  /\ left # {}
               /\ \/ qual(FirstOf(left)) = qual(FirstOf(all))
                  \/ \E c \in left : /\ FirstOf(all) < FirstOf(left) /\ FirstOf(left) < c
                                     /\ qual(c) = qual(FirstOf(all))
<1> DEFINE all == IPMatches(d, address)
           left == all \ Redundant(d)
           qual(i) == TermsOf(d)[i].qual
<1>1. all \subseteq Nat
  BY TermsTyped DEF IPMatches
<1>2. FirstOf(all) \in all /\ \A j \in all : FirstOf(all) <= j
  BY <1>1, FirstExists
<1>3. \E k \in left : qual(k) = qual(FirstOf(all))
  <2>1. CASE FirstOf(all) \in Redundant(d)
    <3>1. PICK k \in DOMAIN TermsOf(d) \ Redundant(d) :
               /\ TermsOf(d)[k].name = "ip" /\ TermsOf(d)[k].qual = TermsOf(d)[FirstOf(all)].qual
               /\ TermsOf(d)[FirstOf(all)].prefix \subseteq TermsOf(d)[k].prefix
      BY <2>1, RedundantCovered
    <3>2. address \in TermsOf(d)[FirstOf(all)].prefix
      BY <1>2 DEF IPMatches
    <3>3. k \in all
      BY <3>1, <3>2 DEF IPMatches
    <3> QED  BY <3>1, <3>3
  <2>2. CASE FirstOf(all) \notin Redundant(d)
    BY <1>2, <2>2
  <2> QED  BY <2>1, <2>2
<1>4. PICK k \in left : qual(k) = qual(FirstOf(all))
  BY <1>3
<1>5. left \subseteq Nat /\ left \subseteq all /\ left # {}
  BY <1>1, <1>4
<1> HIDE DEF all, left, qual
<1>6. FirstOf(left) \in left /\ FirstOf(left) <= k
  BY <1>4, <1>5, FirstExists
<1>7. FirstOf(all) <= FirstOf(left) /\ FirstOf(all) \in Nat /\ FirstOf(left) \in Nat /\ k \in Nat
  BY <1>1, <1>2, <1>4, <1>5, <1>6
<1>8. \/ qual(FirstOf(left)) = qual(FirstOf(all))
      \/ FirstOf(all) < FirstOf(left) /\ FirstOf(left) < k
  <2>1. CASE FirstOf(all) = FirstOf(left)
    BY <2>1
  <2>2. CASE FirstOf(left) = k
    BY <2>2, <1>4
  <2> QED  BY <2>1, <2>2, <1>6, <1>7
<1>9. left # {} /\ (\/ qual(FirstOf(left)) = qual(FirstOf(all))
                   \/ \E c \in left : /\ FirstOf(all) < FirstOf(left) /\ FirstOf(left) < c
                                      /\ qual(c) = qual(FirstOf(all)))
  BY <1>4, <1>5, <1>8
<1> QED  BY <1>9 DEF all, left, qual

\* Without the prefixes redundantIPs names, every address keeps its verdict
\* unless a term of another qualifier stands in between, whatever the length
\* of the record and however its prefixes are nested and repeated.
THEOREM RedundantPrefixesAreCovered == Spec => []RedundantRemovable
<1>1. ASSUME IInv PROVE RedundantRemovable
  <2>1. Rest /\ stack \in Seq(Frames)
    BY <1>1 DEF IInv, StackInv
  <2>2. ASSUME NEW i \in DOMAIN stack PROVE stack[i].domain \in Domains
    <3>1. stack[i] \in Frames
      BY <2>1
    <3> QED  BY <3>1 DEF Frames
  <2> QED  BY <2>1, <2>2, RemovalKeeps DEF RedundantRemovable
<1> QED  BY <1>1, Invariance, PTL

-----------------------------------------------------------------------------
(* Recursive functions *)

HIDE ZonesAssumption
HIDE LimitsAssumption

\* In what F makes of a function from S to V, every value rests on values of
\* smaller measure only.
Descending(S, V, m, B, F) ==
    /\ V # {} /\ m \in [S -> Nat] /\ B \in Nat /\ F \in [[S -> V] -> [S -> V]]
    /\ \A x \in S : m[x] < B
    /\ \A f, g \in [S -> V] : \A x \in S :
          (\A y \in S : m[y] < m[x] => f[y] = g[y]) => F[f][x] = F[g][x]

\* Such a functional has a fixed point: the recursive functions of
\* SPFReference are defined.
LEMMA FixedPoint ==
    ASSUME NEW S, NEW V, NEW m, NEW B, NEW F, Descending(S, V, m, B, F)
    PROVE  \E f \in [S -> V] : F[f] = f
<1>0. /\ V # {} /\ m \in [S -> Nat] /\ B \in Nat /\ F \in [[S -> V] -> [S -> V]]
      /\ \A x \in S : m[x] < B
      /\ \A f, g \in [S -> V] : \A x \in S :
            (\A y \in S : m[y] < m[x] => f[y] = g[y]) => F[f][x] = F[g][x]
  BY DEF Descending
<1> DEFINE Fixed(n) == \E f \in [S -> V] : \A x \in S : m[x] < n => F[f][x] = f[x]
           Bad == {n \in Nat : ~Fixed(n)}
<1>1. Fixed(0)
  <2>1. PICK v \in V : TRUE
    BY <1>0
  <2>2. [x \in S |-> v] \in [S -> V] /\ \A x \in S : ~(m[x] < 0)
    BY <1>0
  <2> QED  BY <2>2
<1>2. ASSUME NEW n \in Nat, Fixed(n) PROVE Fixed(n + 1)
  <2>1. PICK f \in [S -> V] : \A x \in S : m[x] < n => F[f][x] = f[x]
    BY <1>2
  <2>2. F[f] \in [S -> V]
    BY <1>0
  <2>3. ASSUME NEW x \in S, m[x] < n + 1 PROVE F[F[f]][x] = F[f][x]
    <3>1. \A y \in S : m[y] < m[x] => F[f][y] = f[y]
      BY <1>0, <2>1, <2>3
    <3> QED  BY <1>0, <2>2, <3>1
  <2> QED  BY <2>2, <2>3
<1> HIDE DEF Fixed
<1>3. Bad = {}
  <2> SUFFICES ASSUME Bad # {} PROVE FALSE
    OBVIOUS
  <2>1. PICK n \in Bad : \A k \in Bad : n <= k
    BY LeastNatural
  <2>2. n \in Nat /\ n # 0 /\ n - 1 \in Nat
    BY <1>1, <2>1
  <2>3. n - 1 \notin Bad
    BY <2>1, <2>2
  <2> QED  BY <1>2, <2>1, <2>2, <2>3
<1>4. Fixed(B)
  BY <1>0, <1>3
<1>5. PICK f \in [S -> V] : \A x \in S : m[x] < B => F[f][x] = f[x]
  BY <1>4 DEF Fixed
<1>6. F[f] \in [S -> V] /\ \A x \in S : F[f][x] = f[x]
  BY <1>0, <1>5
<1>7. F[f] = f
  BY <1>5, <1>6
<1> QED  BY <1>7

\* The sums of a sequence of numbers are numbers and satisfy their equation.
LEMMA SumFromDef ==
    ASSUME NEW s \in Seq(Nat)
    PROVE  /\ SumFrom(s) \in [1..(Len(s) + 1) -> Nat]
           /\ SumFrom(s)[Len(s) + 1] = 0
           /\ \A i \in 1..Len(s) : SumFrom(s)[i] = s[i] + SumFrom(s)[i + 1]
<1> DEFINE n == Len(s)
           D == 1..(n + 1)
           Body(f) == [i \in D |-> IF i > n THEN 0 ELSE s[i] + f[i + 1]]
           from == CHOOSE from : from = Body(from)
           F == [f \in [D -> Nat] |-> Body(f)]
           m == [i \in D |-> n + 1 - i]
<1>0. n \in Nat /\ \A i \in 1..n : s[i] \in Nat
  OBVIOUS
<1> SUFFICES /\ from \in [D -> Nat] /\ from[n + 1] = 0
             /\ \A i \in 1..n : from[i] = s[i] + from[i + 1]
  BY DEF SumFrom
<1> HIDE DEF n
<1>1. from = Body(from)
  <2>1. \A f \in [D -> Nat] : Body(f) \in [D -> Nat]
    BY <1>0
  <2>2. F \in [[D -> Nat] -> [D -> Nat]] /\ \A f \in [D -> Nat] : F[f] = Body(f)
    BY <2>1
  <2>3. m \in [D -> Nat] /\ \A x \in D : m[x] < n + 1
    BY <1>0
  <2>4. ASSUME NEW f \in [D -> Nat], NEW g \in [D -> Nat], NEW x \in D,
               \A y \in D : m[y] < m[x] => f[y] = g[y]
        PROVE  F[f][x] = F[g][x]
    <3>1. CASE x > n
      BY <3>1, <2>2
    <3>2. CASE x \in 1..n
      <4>1. x + 1 \in D /\ m[x + 1] < m[x]
        BY <1>0, <3>2
      <4> QED  BY <2>2, <2>4, <4>1
    <3> QED  BY <1>0, <3>1, <3>2
  <2> HIDE DEF F, m
  <2>5. PICK f \in [D -> Nat] : F[f] = f
    <3>1. 0 \in Nat /\ n + 1 \in Nat
      BY <1>0
    <3>2. Nat # {}
      BY <3>1
    <3>3. \A f, g \in [D -> Nat] : \A x \in D :
              (\A y \in D : m[y] < m[x] => f[y] = g[y]) => F[f][x] = F[g][x]
      BY <2>4
    <3>4. Descending(D, Nat, m, n + 1, F)
      BY <2>2, <2>3, <3>1, <3>2, <3>3 DEF Descending
    <3> HIDE DEF D
    <3> QED  BY <3>4, FixedPoint
  <2>6. f = Body(f)
    BY <2>2, <2>5
  <2> QED  BY <2>6
<1> HIDE DEF from
<1>2. from[n + 1] = 0 /\ \A i \in 1..n : from[i] = s[i] + from[i + 1]
  <2>1. \A i \in D : from[i] = IF i > n THEN 0 ELSE s[i] + from[i + 1]
    BY <1>1
  <2> QED  BY <1>0, <2>1
<1>3. \A i \in D : from[i] \in Nat
  <2> DEFINE Bad == {k \in 0..n : from[n + 1 - k] \notin Nat}
  <2>1. Bad = {}
    <3> SUFFICES ASSUME Bad # {} PROVE FALSE
      OBVIOUS
    <3>1. Bad \subseteq Nat
      BY <1>0
    <3>2. PICK k \in Bad : \A j \in Bad : k <= j
      BY <3>1, LeastNatural
    <3>3. CASE k = 0
      BY <1>0, <1>2, <3>2, <3>3
    <3>4. CASE k # 0
      <4>1. /\ k - 1 \in 0..n /\ ~(k <= k - 1)
            /\ n + 1 - (k - 1) = (n + 1 - k) + 1 /\ n + 1 - k \in 1..n
        BY <1>0, <3>2, <3>4
      <4>2. from[(n + 1 - k) + 1] \in Nat
        BY <3>2, <4>1
      <4>3. from[n + 1 - k] = s[n + 1 - k] + from[(n + 1 - k) + 1] /\ s[n + 1 - k] \in Nat
        BY <1>0, <1>2, <4>1
      <4>4. from[n + 1 - k] \in Nat
        BY <4>2, <4>3
      <4> QED  BY <3>2, <4>4
    <3> QED  BY <3>3, <3>4
  <2>2. ASSUME NEW i \in D PROVE from[i] \in Nat
    <3>1. n + 1 - i \in 0..n /\ n + 1 - (n + 1 - i) = i
      BY <1>0
    <3> QED  BY <2>1, <3>1
  <2> QED  BY <2>2
<1>4. from \in [D -> Nat]
  <2>1. from = [i \in D |-> from[i]]
    BY <1>1
  <2> QED  BY <1>3, <2>1
<1> QED  BY <1>2, <1>4

-----------------------------------------------------------------------------
(* The outcomes *)

\* A set of positions has a first and a last.
LEMMA EarliestIn ==
    ASSUME NEW S, S \subseteq Nat, S # {}
    PROVE  Earliest(S) \in S /\ \A j \in S : Earliest(S) <= j
<1>1. \E i \in S : \A j \in S : i <= j
  BY LeastNatural
<1> QED  BY <1>1 DEF Earliest

\* A set of positions of a sequence has a last.
LEMMA LatestIn ==
    ASSUME NEW n \in Nat, NEW S, S \subseteq 1..n, S # {}
    PROVE  Latest(S) \in S /\ \A j \in S : j <= Latest(S)
<1> DEFINE R == {n - i : i \in S}
<1>1. PICK i \in S : TRUE
  OBVIOUS
<1>2. n - i \in R
  OBVIOUS
<1>3. R \subseteq Nat
  OBVIOUS
<1>4. PICK m \in R : \A k \in R : m <= k
  BY <1>2, <1>3, LeastNatural
<1>5. PICK l \in S : m = n - l
  BY <1>4
<1>6. ASSUME NEW j \in S PROVE j <= l
  <2>1. n - j \in R /\ j \in Nat /\ l \in Nat
    OBVIOUS
  <2>2. n - l <= n - j
    BY <1>4, <1>5, <2>1
  <2> QED  BY <2>1, <2>2
<1>7. \E l0 \in S : \A j \in S : j <= l0
  BY <1>6
<1> QED  BY <1>7 DEF Latest

\* A record and its terms have their types.
LEMMA RecordTyped ==
    ASSUME NEW zn \in [Domains -> Answers], NEW d \in Domains
    PROVE  /\ Record(zn, d) \in Seq(Terms)
           /\ Len(Record(zn, d)) \in Nat /\ DOMAIN Record(zn, d) = 1..Len(Record(zn, d))
           /\ \A i \in DOMAIN Record(zn, d) : Record(zn, d)[i].qual \in Quals
<1>1. Record(zn, d) \in Seq(Terms)
  BY DEF Record, Answers
<1>2. \A i \in DOMAIN Record(zn, d) : Record(zn, d)[i] \in Terms
  BY <1>1
<1> QED  BY <1>1, <1>2 DEF Terms

\* Where a walked term leads.
LEMMA WalkedTyped ==
    ASSUME NEW zn, NEW path, NEW d, NEW i \in Walked(zn, path, d)
    PROVE  /\ i \in DOMAIN Record(zn, d)
           /\ Record(zn, d)[i].target \in Domains /\ Record(zn, d)[i].target \notin path
  BY DEF Walked, Leads, Named

\* The prices of a record's terms are numbers.
LEMMA PricesTyped ==
    ASSUME NEW zn \in [Domains -> Answers], NEW path, NEW d \in Domains, NEW k \in Counters,
           NEW sub \in [Walked(zn, path, d) -> Outcomes]
    PROVE  /\ Prices(k, zn, path, d, sub) \in Seq(Nat)
           /\ Len(Prices(k, zn, path, d, sub)) = Len(Record(zn, d))
<1> DEFINE n == Len(Record(zn, d))
<1>1. n \in Nat /\ DOMAIN Record(zn, d) = 1..n
  BY RecordTyped
<1>2. \A i \in 1..n : Fee(k, zn, path, d, i) \in Nat
  BY DEF Fee
<1>3. \A i \in Walked(zn, path, d) : sub[i].cost[k] \in Nat
  BY DEF Outcomes
<1> HIDE DEF n
<1>4. \A i \in 1..n : Fee(k, zn, path, d, i)
                        + (IF i \in Walked(zn, path, d) THEN sub[i].cost[k] ELSE 0) \in Nat
  BY <1>2, <1>3
<1>5. Prices(k, zn, path, d, sub) \in [1..n -> Nat]
  BY <1>1, <1>4 DEF Prices
<1> QED  BY <1>1, <1>5 DEF n

\* The redirect in effect is one of the record's terms.
LEMMA RedirectIn ==
    ASSUME NEW zn \in [Domains -> Answers], NEW d \in Domains,
           Named(Record(zn, d), {"redirect"}) # {}
    PROVE  /\ Redirect(zn, d) \in Named(Record(zn, d), {"redirect"})
           /\ \A j \in Named(Record(zn, d), {"redirect"}) : j <= Redirect(zn, d)
<1>1. Len(Record(zn, d)) \in Nat /\ DOMAIN Record(zn, d) = 1..Len(Record(zn, d))
  BY RecordTyped
<1>2. Named(Record(zn, d), {"redirect"}) \subseteq 1..Len(Record(zn, d))
  BY <1>1 DEF Named
<1> QED  BY <1>1, <1>2, LatestIn DEF Redirect

\* What a record makes of the outcomes below it is an outcome.
LEMMA CombineTyped ==
    ASSUME NEW zn \in [Domains -> Answers], NEW path, NEW d \in Domains,
           NEW sub \in [Walked(zn, path, d) -> Outcomes]
    PROVE  Combine(zn, path, d, sub) \in Outcomes
<1> DEFINE ts == Record(zn, d)
           alls == Named(ts, {"all"})
           matching == Matching(zn, path, d, sub)
           Q == Quals \union {"none"}
<1>1. DOMAIN ts \subseteq Nat /\ \A i \in DOMAIN ts : ts[i].qual \in Quals
  BY RecordTyped
<1>2. alls \subseteq DOMAIN ts /\ matching \subseteq DOMAIN ts
  BY WalkedTyped DEF Named, Matching
<1>3. alls # {} => ts[Earliest(alls)].qual \in Q
  BY <1>1, <1>2, EarliestIn
<1>4. matching # {} => ts[Earliest(matching)].qual \in Q
  BY <1>1, <1>2, EarliestIn
<1>5. Redirected(zn, path, d) =>
         sub[Redirect(zn, d)].all \in Q /\ sub[Redirect(zn, d)].verdict \in Q
  BY DEF Redirected, Outcomes
<1>6. [k \in Counters |-> Total(Prices(k, zn, path, d, sub))] \in [Counters -> Nat]
  <2>1. ASSUME NEW k \in Counters PROVE Total(Prices(k, zn, path, d, sub)) \in Nat
    <3>1. Prices(k, zn, path, d, sub) \in Seq(Nat)
      BY PricesTyped
    <3> DEFINE s == Prices(k, zn, path, d, sub)
    <3> HIDE DEF s
    <3>2. SumFrom(s) \in [1..(Len(s) + 1) -> Nat] /\ 1 \in 1..(Len(s) + 1)
      BY <3>1, SumFromDef DEF s
    <3> QED  BY <3>2 DEF Total, s
  <2> QED  BY <2>1
<1> HIDE DEF ts, alls, matching
<1>7. (IF alls # {} THEN ts[Earliest(alls)].qual
       ELSE IF Redirected(zn, path, d) THEN sub[Redirect(zn, d)].all ELSE "none") \in Q
  BY <1>3, <1>5
<1>8. (IF matching # {} THEN ts[Earliest(matching)].qual
       ELSE IF Redirected(zn, path, d) THEN sub[Redirect(zn, d)].verdict ELSE "none") \in Q
  BY <1>4, <1>5
<1> QED  BY <1>6, <1>7, <1>8 DEF Combine, Outcomes, ts, alls, matching

\* The outcomes of the records below, if those of longer paths are outcomes.
LEMMA BelowTyped ==
    ASSUME NEW zn, NEW path \in SUBSET Domains, NEW d \in Domains, NEW of,
           \A t \in Domains \ path : of[path \union {t}] \in [Domains -> Outcomes]
    PROVE  Below(zn, path, d, of) \in [Walked(zn, path, d) -> Outcomes]
<1>1. ASSUME NEW i \in Walked(zn, path, d)
      PROVE  of[path \union {Record(zn, d)[i].target}][Record(zn, d)[i].target] \in Outcomes
  <2> DEFINE t == Record(zn, d)[i].target
  <2>1. t \in Domains /\ t \notin path
    BY WalkedTyped
  <2> HIDE DEF t
  <2>2. of[path \union {t}] \in [Domains -> Outcomes]
    BY <2>1
  <2>3. of[path \union {t}][t] \in Outcomes
    BY <2>1, <2>2
  <2> QED  BY <2>3 DEF t
<1> QED  BY <1>1 DEF Below

\* A longer path leaves fewer domains.
LEMMA PathMeasure ==
    ASSUME NEW path \in SUBSET Domains
    PROVE  /\ Cardinality(Domains \ path) \in Nat
           /\ Cardinality(Domains \ path) <= Cardinality(Domains)
           /\ \A t \in Domains \ path :
                 Cardinality(Domains \ (path \union {t})) < Cardinality(Domains \ path)
<1> DEFINE left == Domains \ path
<1>1. left \in SUBSET Domains
  OBVIOUS
<1>2. IsFiniteSet(left) /\ Cardinality(left) <= Cardinality(Domains)
  BY <1>1, DomainsAssumption, FS_Subset
<1>3. Cardinality(left) \in Nat
  BY <1>2, FS_CardinalityType
<1>4. ASSUME NEW t \in left
      PROVE  Cardinality(Domains \ (path \union {t})) < Cardinality(left)
  <2>1. Domains \ (path \union {t}) = left \ {t}
    OBVIOUS
  <2> HIDE DEF left
  <2>2. Cardinality(left \ {t}) = Cardinality(left) - 1
    BY <1>2, <1>4, FS_RemoveElement
  <2> QED  BY <1>3, <2>1, <2>2
<1> QED  BY <1>2, <1>3, <1>4

\* The outcomes are defined for every zone and every path, and have their
\* type.
LEMMA OutcomeDef ==
    ASSUME NEW zn \in [Domains -> Answers]
    PROVE  /\ Outcome(zn) \in [SUBSET Domains -> [Domains -> Outcomes]]
           /\ \A path \in SUBSET Domains, d \in Domains :
                 Outcome(zn)[path][d] = Combine(zn, path, d, Below(zn, path, d, Outcome(zn)))
<1> DEFINE P == SUBSET Domains
           V == [Domains -> Outcomes]
           Body(f) == [path \in P |->
                          [d \in Domains |-> Combine(zn, path, d, Below(zn, path, d, f))]]
           of == CHOOSE of : of = Body(of)
           F == [f \in [P -> V] |-> Body(f)]
           m == [path \in P |-> Cardinality(Domains \ path)]
           B == Cardinality(Domains) + 1
<1> SUFFICES /\ of \in [P -> V]
             /\ \A path \in P, d \in Domains :
                   of[path][d] = Combine(zn, path, d, Below(zn, path, d, of))
  BY DEF Outcome
<1>1. \A path \in P, t \in Domains : path \union {t} \in P
  OBVIOUS
<1>2. /\ m \in [P -> Nat] /\ B \in Nat /\ \A path \in P : m[path] < B
      /\ \A path \in P : \A t \in Domains \ path : m[path \union {t}] < m[path]
  <2>1. Cardinality(Domains) \in Nat
    BY DomainsAssumption, FS_CardinalityType
  <2>2. \A path \in P : m[path] \in Nat /\ m[path] <= Cardinality(Domains)
    BY PathMeasure
  <2>3. \A path \in P : \A t \in Domains \ path : m[path \union {t}] < m[path]
    BY <1>1, PathMeasure
  <2>4. m \in [P -> Nat]
    BY <2>2
  <2> HIDE DEF m, P
  <2>5. B \in Nat /\ \A path \in P : m[path] < B
    BY <2>1, <2>2
  <2> QED  BY <2>3, <2>4, <2>5
<1> HIDE DEF m, B
<1>3. ASSUME NEW f, NEW path \in P, \A t \in Domains \ path : f[path \union {t}] \in V
      PROVE  [d \in Domains |-> Combine(zn, path, d, Below(zn, path, d, f))] \in V
  <2>1. ASSUME NEW d \in Domains PROVE Combine(zn, path, d, Below(zn, path, d, f)) \in Outcomes
    <3>1. Below(zn, path, d, f) \in [Walked(zn, path, d) -> Outcomes]
      BY <1>3, BelowTyped
    <3> QED  BY <3>1, CombineTyped
  <2> QED  BY <2>1
<1>4. of = Body(of)
  <2>1. ASSUME NEW f \in [P -> V] PROVE Body(f) \in [P -> V]
    BY <1>1, <1>3
  <2>2. F \in [[P -> V] -> [P -> V]] /\ \A f \in [P -> V] : F[f] = Body(f)
    BY <2>1
  <2>3. ASSUME NEW f \in [P -> V], NEW g \in [P -> V], NEW path \in P,
               \A q \in P : m[q] < m[path] => f[q] = g[q]
        PROVE  F[f][path] = F[g][path]
    <3>1. \A t \in Domains \ path : f[path \union {t}] = g[path \union {t}]
      BY <1>1, <1>2, <2>3
    <3>2. ASSUME NEW d \in Domains PROVE Below(zn, path, d, f) = Below(zn, path, d, g)
      BY <3>1, WalkedTyped DEF Below
    <3>3. Body(f)[path] = Body(g)[path]
      BY <3>2
    <3> QED  BY <2>2, <3>3
  <2>4. V # {}
    <3>1. [k \in Counters |-> 0] \in [Counters -> Nat]
      OBVIOUS
    <3>2. [cost |-> [k \in Counters |-> 0], all |-> "none", verdict |-> "none"] \in Outcomes
      BY <3>1 DEF Outcomes
    <3>3. [d \in Domains |->
              [cost |-> [k \in Counters |-> 0], all |-> "none", verdict |-> "none"]] \in V
      BY <3>2
    <3> QED  BY <3>3
  <2> HIDE DEF F, V, P
  <2>5. Descending(P, V, m, B, F)
    BY <1>2, <2>2, <2>3, <2>4 DEF Descending
  <2>6. PICK f \in [P -> V] : F[f] = f
    BY <2>5, FixedPoint
  <2>7. f = Body(f)
    BY <2>2, <2>6
  <2> QED  BY <2>7
<1> HIDE DEF of
<1>5. \A path \in P : of[path] = [d \in Domains |-> Combine(zn, path, d, Below(zn, path, d, of))]
  BY <1>4
<1>6. \A path \in P : of[path] \in V
  <2> DEFINE Bad == {k \in Nat : \E path \in P : m[path] = k /\ of[path] \notin V}
  <2>1. Bad = {}
    <3> SUFFICES ASSUME Bad # {} PROVE FALSE
      OBVIOUS
    <3>1. PICK k \in Bad : \A j \in Bad : k <= j
      BY LeastNatural
    <3>0. k \in Nat
      OBVIOUS
    <3>2. PICK path \in P : m[path] = k /\ of[path] \notin V
      BY <3>1
    <3>3. ASSUME NEW t \in Domains \ path PROVE of[path \union {t}] \in V
      <4>1. path \union {t} \in P /\ m[path \union {t}] < k
        BY <1>1, <1>2, <3>2
      <4>2. m[path \union {t}] \in Nat
        BY <1>2, <4>1
      <4>3. m[path \union {t}] \notin Bad
        <5> DEFINE j == m[path \union {t}]
        <5> HIDE DEF j, Bad
        <5>1. j \in Nat /\ k \in Nat /\ j < k
          BY <3>0, <4>1, <4>2 DEF j
        <5>2. j \notin Bad
          BY <3>1, <5>1
        <5> QED  BY <5>2 DEF j
      <4> QED  BY <4>1, <4>2, <4>3
    <3>4. [d \in Domains |-> Combine(zn, path, d, Below(zn, path, d, of))] \in V
      BY <1>3, <3>3
    <3>5. of[path] \in V
      <4> HIDE DEF V, P
      <4> QED  BY <1>5, <3>4
    <3> QED  BY <3>2, <3>5
  <2>2. \A path \in P : m[path] \in Nat
    BY <1>2
  <2> QED  BY <2>1, <2>2
<1>7. of \in [P -> V]
  <2>1. of = [path \in P |-> of[path]]
    BY <1>4
  <2> HIDE DEF P, V
  <2> QED  BY <1>6, <2>1
<1> QED  BY <1>5, <1>7

-----------------------------------------------------------------------------
(* The walk and the tree *)

\* The domains of the first i frames: the path to the i-th.
PathTo(st, i) == {st[j].domain : j \in 1..i}

\* The outcomes below a record, and what its terms cost from p on.
Subs(zn, path, d) == Below(zn, path, d, Outcome(zn))
Owed(k, zn, path, d, p) == SumFrom(Prices(k, zn, path, d, Subs(zn, path, d)))[p]

\* A frame is at a term of its record, or past the last.
Placed(zn, f) == f.domain \in Domains /\ f.pos \in 1..(Len(Record(zn, f.domain)) + 1)

\* Each frame but the last waits at the term that led to the next.
Linked(zn, st) ==
    /\ st[1].domain = Apex
    /\ \A i \in 1..Len(st) : Placed(zn, st[i])
    /\ \A i \in 1..(Len(st) - 1) :
          /\ st[i].pos \in Walked(zn, PathTo(st, i), st[i].domain)
          /\ st[i + 1].domain = Record(zn, st[i].domain)[st[i].pos].target

\* due[i] is what the counter has to show when frame i is left: what it shows
\* now and what the rest of the last frame costs make up due of the last.
Balanced(k, zn, st, c, exact) ==
    \E due \in [1..Len(st) -> Nat] :
        /\ due[1] = Outcome(zn)[{Apex}][Apex].cost[k]
        /\ \A i \in 1..(Len(st) - 1) :
              due[i] = due[i + 1] + Owed(k, zn, PathTo(st, i), st[i].domain, st[i].pos + 1)
        /\ LET n == Len(st)
               o == c + Owed(k, zn, PathTo(st, n), st[n].domain, st[n].pos)
           IN  o <= due[n] /\ (exact => o = due[n])

PassAll(probs) == \E p \in probs : p.code = "pass_all"

\* The all of a frame is its record's own or that of the last redirect passed.
AllKnown(zn, path, f) ==
    LET ts   == Record(zn, f.domain)
        alls == Named(ts, {"all"})
        reds == Named(ts, {"redirect"})
    IN  /\ alls # {} => f.all = ts[Earliest(alls)].qual
        /\ alls = {} =>
              /\ (\A j \in reds : j >= f.pos) => f.all = "none"
              /\ \A r \in reds :
                    (r < f.pos /\ \A j \in reds : j < f.pos => j <= r) =>
                        f.all = IF r \in Walked(zn, path, f.domain)
                                THEN Subs(zn, path, f.domain)[r].all ELSE "none"

\* A record passed that lets every sender through has been reported, or its
\* all is on its way up through a redirect.
PassKnown(zn, path, f, probs) ==
    \A j \in Walked(zn, path, f.domain) :
        (j < f.pos /\ Subs(zn, path, f.domain)[j].verdict = "+") =>
            \/ PassAll(probs)
            \/ Record(zn, f.domain)[j].name = "redirect" /\ Subs(zn, path, f.domain)[j].all = "+"

Known(zn, st, probs) ==
    \A i \in 1..Len(st) :
        AllKnown(zn, PathTo(st, i), st[i]) /\ PassKnown(zn, PathTo(st, i), st[i], probs)

-----------------------------------------------------------------------------
(* What is owed *)

\* The outcomes below a record have their type.
LEMMA SubsTyped ==
    ASSUME NEW zn \in [Domains -> Answers], NEW path \in SUBSET Domains, NEW d \in Domains
    PROVE  /\ Subs(zn, path, d) \in [Walked(zn, path, d) -> Outcomes]
           /\ \A i \in Walked(zn, path, d) :
                 LET t == Record(zn, d)[i].target
                 IN  Subs(zn, path, d)[i] = Outcome(zn)[path \union {t}][t]
<1>1. \A t \in Domains \ path : path \union {t} \in SUBSET Domains
  OBVIOUS
<1>2. Outcome(zn) \in [SUBSET Domains -> [Domains -> Outcomes]]
  BY OutcomeDef
<1>3. \A t \in Domains \ path : Outcome(zn)[path \union {t}] \in [Domains -> Outcomes]
  BY <1>1, <1>2
<1>4. Subs(zn, path, d) \in [Walked(zn, path, d) -> Outcomes]
  BY <1>3, BelowTyped DEF Subs
<1> QED  BY <1>4 DEF Subs, Below

\* What is owed are the sums of the prices of the terms.
LEMMA OwedSums ==
    ASSUME NEW zn \in [Domains -> Answers], NEW path \in SUBSET Domains, NEW d \in Domains,
           NEW k \in Counters
    PROVE  LET s == Prices(k, zn, path, d, Subs(zn, path, d))
           IN  /\ s \in Seq(Nat) /\ Len(s) = Len(Record(zn, d)) /\ Len(Record(zn, d)) \in Nat
               /\ \A p : Owed(k, zn, path, d, p) = SumFrom(s)[p]
<1>1. Subs(zn, path, d) \in [Walked(zn, path, d) -> Outcomes]
  BY SubsTyped
<1>2. Len(Record(zn, d)) \in Nat
  BY RecordTyped
<1> QED  BY <1>1, <1>2, PricesTyped DEF Owed

\* Owed are numbers, and nothing past the last term.
LEMMA OwedTyped ==
    ASSUME NEW zn \in [Domains -> Answers], NEW path \in SUBSET Domains, NEW d \in Domains,
           NEW k \in Counters, NEW p \in 1..(Len(Record(zn, d)) + 1)
    PROVE  Owed(k, zn, path, d, p) \in Nat
<1> DEFINE s == Prices(k, zn, path, d, Subs(zn, path, d))
<1>1. /\ s \in Seq(Nat) /\ Len(s) = Len(Record(zn, d))
      /\ Owed(k, zn, path, d, p) = SumFrom(s)[p]
  BY OwedSums
<1> HIDE DEF s
<1>2. SumFrom(s) \in [1..(Len(s) + 1) -> Nat]
  BY <1>1, SumFromDef
<1> QED  BY <1>1, <1>2

\* Nothing is owed past the last term.
LEMMA OwedEnd ==
    ASSUME NEW zn \in [Domains -> Answers], NEW path \in SUBSET Domains, NEW d \in Domains,
           NEW k \in Counters
    PROVE  Owed(k, zn, path, d, Len(Record(zn, d)) + 1) = 0
<1> DEFINE s == Prices(k, zn, path, d, Subs(zn, path, d))
           n == Len(Record(zn, d))
<1>1. s \in Seq(Nat) /\ Len(s) = n /\ Owed(k, zn, path, d, n + 1) = SumFrom(s)[n + 1]
  BY OwedSums
<1> HIDE DEF s, n
<1>2. SumFrom(s)[Len(s) + 1] = 0
  BY <1>1, SumFromDef
<1>3. Owed(k, zn, path, d, n + 1) = 0
  BY <1>1, <1>2
<1> QED  BY <1>3 DEF n

\* A record's cost is what is owed from its first term on.
LEMMA OwedStart ==
    ASSUME NEW zn \in [Domains -> Answers], NEW path \in SUBSET Domains, NEW d \in Domains,
           NEW k \in Counters
    PROVE  /\ Outcome(zn)[path][d].cost[k] = Owed(k, zn, path, d, 1)
           /\ Owed(k, zn, path, d, 1) \in Nat
<1>1. Outcome(zn)[path][d] = Combine(zn, path, d, Subs(zn, path, d))
  BY OutcomeDef DEF Subs
<1>2. Outcome(zn)[path][d].cost[k] = Owed(k, zn, path, d, 1)
  BY <1>1 DEF Combine, Total, Owed
<1>3. Len(Record(zn, d)) \in Nat
  BY RecordTyped
<1>4. 1 \in 1..(Len(Record(zn, d)) + 1)
  BY <1>3
<1> QED  BY <1>2, <1>4, OwedTyped

\* A term is owed its fee, and the cost of the record it leads to.
LEMMA OwedStep ==
    ASSUME NEW zn \in [Domains -> Answers], NEW path \in SUBSET Domains, NEW d \in Domains,
           NEW k \in Counters, NEW p \in 1..Len(Record(zn, d))
    PROVE  Owed(k, zn, path, d, p) =
              Fee(k, zn, path, d, p)
              + (IF p \in Walked(zn, path, d) THEN Subs(zn, path, d)[p].cost[k] ELSE 0)
              + Owed(k, zn, path, d, p + 1)
<1> DEFINE s == Prices(k, zn, path, d, Subs(zn, path, d))
<1>1. /\ s \in Seq(Nat) /\ Len(s) = Len(Record(zn, d))
      /\ Owed(k, zn, path, d, p) = SumFrom(s)[p]
      /\ Owed(k, zn, path, d, p + 1) = SumFrom(s)[p + 1]
  BY OwedSums
<1>2. p \in DOMAIN Record(zn, d)
  BY RecordTyped
<1>3. s[p] = Fee(k, zn, path, d, p)
             + (IF p \in Walked(zn, path, d) THEN Subs(zn, path, d)[p].cost[k] ELSE 0)
  BY <1>2 DEF Prices
<1> HIDE DEF s
<1>4. SumFrom(s)[p] = s[p] + SumFrom(s)[p + 1]
  BY <1>1, SumFromDef
<1> QED  BY <1>1, <1>3, <1>4

-----------------------------------------------------------------------------
(* Steps of the walk *)

\* The frames up to m stay, but for the m-th, which goes on by a term.
Resumes(st, st2, m) ==
    /\ Len(st2) = m
    /\ \A i \in 1..(m - 1) : st2[i] = st[i]
    /\ st2[m].domain = st[m].domain /\ st2[m].pos = st[m].pos + 1

\* A further frame, for the record that the last one's term leads to.
Enters(zn, st, st2) ==
    LET n == Len(st)
    IN  /\ Len(st2) = n + 1 /\ \A i \in 1..n : st2[i] = st[i]
        /\ st[n].pos \in Walked(zn, PathTo(st, n), st[n].domain)
        /\ st2[n + 1].domain = Record(zn, st[n].domain)[st[n].pos].target
        /\ st2[n + 1].pos = 1

\* Frames of the same domains have the same paths.
LEMMA PathKept ==
    ASSUME NEW st, NEW st2, NEW m \in Nat, \A i \in 1..m : st2[i].domain = st[i].domain
    PROVE  \A i \in 1..m : PathTo(st2, i) = PathTo(st, i)
<1>1. ASSUME NEW i \in 1..m PROVE PathTo(st2, i) = PathTo(st, i)
  <2>1. \A j \in 1..i : j \in 1..m
    OBVIOUS
  <2> QED  BY <2>1 DEF PathTo
<1> QED  BY <1>1

\* The path to a frame holds domains.
LEMMA PathTyped ==
    ASSUME NEW zn, NEW st, Len(st) \in Nat, Linked(zn, st), NEW i \in 1..Len(st)
    PROVE  PathTo(st, i) \in SUBSET Domains
<1>1. \A j \in 1..i : j \in 1..Len(st)
  OBVIOUS
<1> QED  BY <1>1 DEF PathTo, Linked, Placed

\* A frame that goes on keeps the stack linked.
LEMMA ResumeLinked ==
    ASSUME NEW zn \in [Domains -> Answers], NEW st, NEW st2, Len(st) \in Nat, NEW m \in 1..Len(st),
           Linked(zn, st), Resumes(st, st2, m), st[m].pos \in 1..Len(Record(zn, st[m].domain))
    PROVE  Linked(zn, st2) /\ \A i \in 1..m : PathTo(st2, i) = PathTo(st, i)
<1>0. Len(st2) = m /\ m \in Nat /\ \A i \in 1..(m - 1) : st2[i] = st[i]
  BY DEF Resumes
<1>1. \A i \in 1..m : st2[i].domain = st[i].domain
  BY <1>0 DEF Resumes
<1>2. \A i \in 1..m : PathTo(st2, i) = PathTo(st, i)
  BY <1>0, <1>1, PathKept
<1>3. st2[1].domain = Apex
  BY <1>1 DEF Linked
<1>4. ASSUME NEW i \in 1..m
      PROVE  Placed(zn, st2[i])
  <2>1. CASE i = m
    <3>1. Len(Record(zn, st[m].domain)) \in Nat /\ st[m].domain \in Domains
      BY RecordTyped DEF Linked, Placed
    <3> QED  BY <2>1, <3>1 DEF Resumes, Placed
  <2>2. CASE i # m
    <3>1. i \in 1..(m - 1) /\ i \in 1..Len(st)
      BY <1>0, <2>2
    <3> QED  BY <1>0, <3>1 DEF Linked
  <2> QED  BY <2>1, <2>2
<1>5. ASSUME NEW i \in 1..(m - 1)
      PROVE  /\ st2[i].pos \in Walked(zn, PathTo(st2, i), st2[i].domain)
             /\ st2[i + 1].domain = Record(zn, st2[i].domain)[st2[i].pos].target
  <2>1. i \in 1..m /\ i + 1 \in 1..m /\ i \in 1..(Len(st) - 1)
    BY <1>0
  <2>2. /\ st[i].pos \in Walked(zn, PathTo(st, i), st[i].domain)
        /\ st[i + 1].domain = Record(zn, st[i].domain)[st[i].pos].target
    BY <2>1 DEF Linked
  <2>3. st2[i] = st[i] /\ st2[i + 1].domain = st[i + 1].domain /\ PathTo(st2, i) = PathTo(st, i)
    BY <1>0, <1>1, <1>2, <2>1
  <2> QED  BY <2>2, <2>3
<1>6. Linked(zn, st2)
  BY <1>0, <1>3, <1>4, <1>5 DEF Linked
<1> QED  BY <1>2, <1>6

\* So does a further frame, and its path is one domain longer.
LEMMA EnterLinked ==
    ASSUME NEW zn \in [Domains -> Answers], NEW st, NEW st2, Len(st) \in Nat, Len(st) > 0,
           Linked(zn, st), Enters(zn, st, st2)
    PROVE  /\ Linked(zn, st2)
           /\ \A i \in 1..Len(st) : PathTo(st2, i) = PathTo(st, i)
           /\ PathTo(st2, Len(st) + 1) = PathTo(st, Len(st)) \union {st2[Len(st) + 1].domain}
<1> DEFINE n == Len(st)
<1>0. n \in Nat /\ n > 0 /\ Len(st2) = n + 1 /\ \A i \in 1..n : st2[i] = st[i]
  BY DEF Enters
<1> HIDE DEF n
<1>1. \A i \in 1..n : PathTo(st2, i) = PathTo(st, i)
  BY <1>0, PathKept
<1>2. PathTo(st2, n + 1) = PathTo(st, n) \union {st2[n + 1].domain}
  <2>1. 1..(n + 1) = 1..n \union {n + 1}
    BY <1>0
  <2> QED  BY <1>0, <2>1 DEF PathTo
<1>3. st[n].pos \in Walked(zn, PathTo(st, n), st[n].domain)
      /\ st2[n + 1].domain = Record(zn, st[n].domain)[st[n].pos].target /\ st2[n + 1].pos = 1
  BY DEF Enters, n
<1>4. st2[n + 1].domain \in Domains
  BY <1>3, WalkedTyped
<1>5. Len(Record(zn, st2[n + 1].domain)) \in Nat
  BY <1>4, RecordTyped
<1>6. st2[n + 1].pos \in 1..(Len(Record(zn, st2[n + 1].domain)) + 1)
  BY <1>3, <1>5
<1>7. \A i \in 1..(n + 1) : Placed(zn, st2[i])
  <2>1. \A i \in 1..n : Placed(zn, st[i])
    BY DEF Linked, n
  <2>2. Placed(zn, st2[n + 1])
    BY <1>4, <1>6 DEF Placed
  <2> QED  BY <1>0, <2>1, <2>2
<1>8. ASSUME NEW i \in 1..n
      PROVE  /\ st2[i].pos \in Walked(zn, PathTo(st2, i), st2[i].domain)
             /\ st2[i + 1].domain = Record(zn, st2[i].domain)[st2[i].pos].target
  <2>1. CASE i = n
    BY <1>0, <1>1, <1>3, <2>1
  <2>2. CASE i # n
    <3>1. i \in 1..(n - 1) /\ i + 1 \in 1..n
      BY <1>0, <2>2
    <3>2. /\ st[i].pos \in Walked(zn, PathTo(st, i), st[i].domain)
          /\ st[i + 1].domain = Record(zn, st[i].domain)[st[i].pos].target
      BY <3>1 DEF Linked, n
    <3> QED  BY <1>0, <1>1, <3>1, <3>2
  <2> QED  BY <2>1, <2>2
<1>9. st2[1].domain = Apex
  BY <1>0 DEF Linked
<1>10. Linked(zn, st2)
  <2>1. 1..(Len(st2) - 1) = 1..n /\ 1..Len(st2) = 1..(n + 1)
    BY <1>0
  <2> QED  BY <1>7, <1>8, <1>9, <2>1 DEF Linked
<1> QED  BY <1>1, <1>2, <1>10 DEF n

\* Frames that stay have the same paths.
LEMMA ResumePaths ==
    ASSUME NEW st, NEW st2, NEW m \in Nat, m > 0, Resumes(st, st2, m)
    PROVE  \A i \in 1..m : PathTo(st2, i) = PathTo(st, i)
<1>1. \A i \in 1..m : st2[i].domain = st[i].domain
  BY DEF Resumes
<1> QED  BY <1>1, PathKept

\* A term is owed its fee, and the cost of the record it leads to.
LEMMA TermOwed ==
    ASSUME NEW zn \in [Domains -> Answers], NEW path \in SUBSET Domains, NEW d \in Domains,
           NEW k \in Counters, NEW p \in 1..Len(Record(zn, d))
    PROVE  /\ Owed(k, zn, path, d, p) \in Nat /\ Owed(k, zn, path, d, p + 1) \in Nat
           /\ Fee(k, zn, path, d, p) \in Nat
           /\ Owed(k, zn, path, d, p) >= Fee(k, zn, path, d, p) + Owed(k, zn, path, d, p + 1)
           /\ p \notin Walked(zn, path, d) =>
                 Owed(k, zn, path, d, p) = Fee(k, zn, path, d, p) + Owed(k, zn, path, d, p + 1)
           /\ p \in Walked(zn, path, d) =>
                 LET t == Record(zn, d)[p].target
                 IN  /\ t \in Domains /\ Owed(k, zn, path \union {t}, t, 1) \in Nat
                     /\ Owed(k, zn, path, d, p) = Fee(k, zn, path, d, p)
                            + Owed(k, zn, path \union {t}, t, 1) + Owed(k, zn, path, d, p + 1)
<1> DEFINE t == Record(zn, d)[p].target
           now == Owed(k, zn, path, d, p)
           then == Owed(k, zn, path, d, p + 1)
           fee == Fee(k, zn, path, d, p)
           sub == Owed(k, zn, path \union {t}, t, 1)
<1>1. Len(Record(zn, d)) \in Nat
  BY RecordTyped
<1>2. p \in 1..(Len(Record(zn, d)) + 1) /\ p + 1 \in 1..(Len(Record(zn, d)) + 1)
  BY <1>1
<1>3. now \in Nat /\ then \in Nat
  BY <1>2, OwedTyped
<1>4. fee \in Nat
  BY DEF Fee
<1>5. now = fee + (IF p \in Walked(zn, path, d) THEN Subs(zn, path, d)[p].cost[k] ELSE 0) + then
  BY OwedStep
<1>6. ASSUME p \in Walked(zn, path, d)
      PROVE  t \in Domains /\ sub \in Nat /\ Subs(zn, path, d)[p].cost[k] = sub
  <2>1. t \in Domains
    BY <1>6, WalkedTyped
  <2>2. path \union {t} \in SUBSET Domains
    BY <2>1
  <2>3. Subs(zn, path, d)[p] = Outcome(zn)[path \union {t}][t]
    BY <1>6, SubsTyped
  <2> HIDE DEF t
  <2>4. Outcome(zn)[path \union {t}][t].cost[k] = sub /\ sub \in Nat
    BY <2>1, <2>2, OwedStart
  <2> QED  BY <2>1, <2>3, <2>4
<1> SUFFICES /\ now >= fee + then
             /\ p \notin Walked(zn, path, d) => now = fee + then
             /\ p \in Walked(zn, path, d) => now = fee + sub + then
  BY <1>3, <1>4, <1>6
<1> HIDE DEF now, then, fee, sub, t
<1>7. CASE p \notin Walked(zn, path, d)
  BY <1>3, <1>4, <1>5, <1>7
<1>8. CASE p \in Walked(zn, path, d)
  <2>1. now = fee + sub + then
    BY <1>5, <1>6, <1>8
  <2> QED  BY <1>3, <1>4, <1>6, <1>8, <2>1
<1> QED  BY <1>7, <1>8

\* A term that leads nowhere is owed its fee.
LEMMA PlainOwed ==
    ASSUME NEW zn \in [Domains -> Answers], NEW path \in SUBSET Domains, NEW d \in Domains,
           NEW k \in Counters, NEW p \in 1..Len(Record(zn, d))
    PROVE  /\ Owed(k, zn, path, d, p) \in Nat /\ Owed(k, zn, path, d, p + 1) \in Nat
           /\ Fee(k, zn, path, d, p) \in Nat
           /\ Owed(k, zn, path, d, p) >= Fee(k, zn, path, d, p) + Owed(k, zn, path, d, p + 1)
           /\ p \notin Walked(zn, path, d) =>
                 Owed(k, zn, path, d, p) = Fee(k, zn, path, d, p) + Owed(k, zn, path, d, p + 1)
  BY TermOwed

\* A term that is passed costs no more than its price, and exactly its price
\* if it leads nowhere and nothing was given up.
LEMMA AdvanceBalanced ==
    ASSUME NEW zn \in [Domains -> Answers], NEW k \in Counters, NEW st, NEW st2,
           Len(st) \in Nat, Len(st) > 0, Linked(zn, st), Resumes(st, st2, Len(st)),
           st[Len(st)].pos \in 1..Len(Record(zn, st[Len(st)].domain)),
           NEW c \in Nat, NEW c2 \in Nat, NEW e, NEW e2, Balanced(k, zn, st, c, e),
           c2 <= c + Fee(k, zn, PathTo(st, Len(st)), st[Len(st)].domain, st[Len(st)].pos),
           e2 => /\ e
                 /\ st[Len(st)].pos \notin Walked(zn, PathTo(st, Len(st)), st[Len(st)].domain)
                 /\ c2 = c + Fee(k, zn, PathTo(st, Len(st)), st[Len(st)].domain, st[Len(st)].pos)
    PROVE  Balanced(k, zn, st2, c2, e2)
<1> DEFINE n == Len(st)
           path == PathTo(st, n)
           d == st[n].domain
           p == st[n].pos
           fee == Fee(k, zn, path, d, p)
           now == Owed(k, zn, path, d, p)
           then == Owed(k, zn, path, d, p + 1)
<1>1. n \in Nat /\ n > 0 /\ n \in 1..n
  OBVIOUS
<1>2. p \in 1..Len(Record(zn, d))
  OBVIOUS
<1>3. d \in Domains /\ path \in SUBSET Domains
  BY <1>1, PathTyped DEF Linked, Placed
<1>5. \A i \in 1..n : PathTo(st2, i) = PathTo(st, i)
  BY <1>1, ResumePaths
<1>6. PICK due \in [1..n -> Nat] :
        /\ due[1] = Outcome(zn)[{Apex}][Apex].cost[k]
        /\ \A i \in 1..(n - 1) :
              due[i] = due[i + 1] + Owed(k, zn, PathTo(st, i), st[i].domain, st[i].pos + 1)
        /\ c + now <= due[n] /\ (e => c + now = due[n])
  BY DEF Balanced
<1>7. /\ Len(st2) = n /\ \A i \in 1..(n - 1) : st2[i] = st[i]
      /\ st2[n].domain = d /\ st2[n].pos = p + 1
  BY DEF Resumes
<1>8. c2 <= c + fee /\ (e2 => e /\ p \notin Walked(zn, path, d) /\ c2 = c + fee)
  OBVIOUS
<1> HIDE DEF n
<1>9. \A i \in 1..(n - 1) :
          due[i] = due[i + 1] + Owed(k, zn, PathTo(st2, i), st2[i].domain, st2[i].pos + 1)
  <2>1. \A i \in 1..(n - 1) : i \in 1..n
    BY <1>1
  <2> QED  BY <1>5, <1>6, <1>7, <2>1
<1>10. PathTo(st2, n) = path
  BY <1>1, <1>5
<1> HIDE DEF path, d, p
<1>11. /\ now \in Nat /\ then \in Nat /\ fee \in Nat /\ now >= fee + then
       /\ p \notin Walked(zn, path, d) => now = fee + then
  BY <1>2, <1>3, PlainOwed
<1>15. Owed(k, zn, PathTo(st2, n), st2[n].domain, st2[n].pos) = then
  BY <1>7, <1>10
<1> HIDE DEF fee, now, then
<1>12. due[n] \in Nat
  BY <1>1, <1>6
<1>13. c2 + then <= due[n]
  BY <1>6, <1>8, <1>11, <1>12
<1>14. e2 => c2 + then = due[n]
  BY <1>6, <1>8, <1>11, <1>12
<1> QED  BY <1>6, <1>7, <1>9, <1>13, <1>14, <1>15 DEF Balanced

\* A record that is left has been paid for.
LEMMA LeaveBalanced ==
    ASSUME NEW zn \in [Domains -> Answers], NEW k \in Counters, NEW st, NEW st2,
           Len(st) \in Nat, Len(st) > 1, Linked(zn, st), Resumes(st, st2, Len(st) - 1),
           st[Len(st)].pos = Len(Record(zn, st[Len(st)].domain)) + 1,
           NEW c \in Nat, NEW e, Balanced(k, zn, st, c, e)
    PROVE  Balanced(k, zn, st2, c, e)
<1> DEFINE n == Len(st)
           m == n - 1
           rest == Owed(k, zn, PathTo(st, m), st[m].domain, st[m].pos + 1)
<1>1. n \in Nat /\ m \in Nat /\ m > 0 /\ n = m + 1 /\ m \in 1..n /\ n \in 1..n /\ m \in 1..(n - 1)
  OBVIOUS
<1>2. st[n].domain \in Domains /\ PathTo(st, n) \in SUBSET Domains
  BY <1>1, PathTyped DEF Linked, Placed
<1>3. Owed(k, zn, PathTo(st, n), st[n].domain, st[n].pos) = 0
  BY <1>2, OwedEnd
<1>4. st[m].domain \in Domains /\ PathTo(st, m) \in SUBSET Domains
  BY <1>1, PathTyped DEF Linked, Placed
<1>5. st[m].pos \in Walked(zn, PathTo(st, m), st[m].domain)
  BY <1>1 DEF Linked
<1>6. st[m].pos \in 1..Len(Record(zn, st[m].domain))
  BY <1>4, <1>5, WalkedTyped, RecordTyped
<1>7. rest \in Nat
  BY <1>4, <1>6, TermOwed
<1>8. \A i \in 1..m : PathTo(st2, i) = PathTo(st, i)
  <2>1. Resumes(st, st2, m)
    OBVIOUS
  <2> HIDE DEF m
  <2> QED  BY <1>1, <2>1, ResumePaths
<1>9. PICK due \in [1..n -> Nat] :
        /\ due[1] = Outcome(zn)[{Apex}][Apex].cost[k]
        /\ \A i \in 1..(n - 1) :
              due[i] = due[i + 1] + Owed(k, zn, PathTo(st, i), st[i].domain, st[i].pos + 1)
        /\ c + 0 <= due[n] /\ (e => c + 0 = due[n])
  BY <1>3 DEF Balanced
<1>10. /\ Len(st2) = m /\ \A i \in 1..(m - 1) : st2[i] = st[i]
       /\ st2[m].domain = st[m].domain /\ st2[m].pos = st[m].pos + 1
  BY DEF Resumes
<1> HIDE DEF n, m
<1> DEFINE due2 == [i \in 1..m |-> due[i]]
<1>11. due2 \in [1..m -> Nat] /\ due2[1] = due[1] /\ due2[m] = due[m]
  BY <1>1, <1>9
<1>12. ASSUME NEW i \in 1..(m - 1)
       PROVE  due2[i] = due2[i + 1] + Owed(k, zn, PathTo(st2, i), st2[i].domain, st2[i].pos + 1)
  <2>1. i \in 1..m /\ i + 1 \in 1..m /\ i \in 1..(n - 1)
    BY <1>1
  <2>2. due[i] = due[i + 1] + Owed(k, zn, PathTo(st, i), st[i].domain, st[i].pos + 1)
    BY <1>9, <2>1
  <2>3. /\ due2[i] = due[i] /\ due2[i + 1] = due[i + 1]
        /\ st2[i] = st[i] /\ PathTo(st2, i) = PathTo(st, i)
    BY <1>8, <1>10, <2>1
  <2> QED  BY <2>2, <2>3
<1>13. due[m] = due[n] + rest
  BY <1>1, <1>9 DEF rest
<1>14. Owed(k, zn, PathTo(st2, m), st2[m].domain, st2[m].pos) = rest
  <2>1. PathTo(st2, m) = PathTo(st, m)
    BY <1>1, <1>8
  <2> QED  BY <1>10, <2>1 DEF rest
<1> HIDE DEF rest, due2
<1>15. due[n] \in Nat
  BY <1>1, <1>9
<1>16. c + rest <= due2[m] /\ (e => c + rest = due2[m])
  BY <1>7, <1>9, <1>11, <1>13, <1>15
<1> QED  BY <1>9, <1>10, <1>11, <1>12, <1>14, <1>16 DEF Balanced

\* A record that is entered will have been paid for when it is left.
LEMMA EnterBalanced ==
    ASSUME NEW zn \in [Domains -> Answers], NEW k \in Counters, NEW st, NEW st2,
           Len(st) \in Nat, Len(st) > 0, Linked(zn, st), Enters(zn, st, st2),
           NEW c \in Nat, NEW c2 \in Nat, NEW e, Balanced(k, zn, st, c, e),
           c2 = c + Fee(k, zn, PathTo(st, Len(st)), st[Len(st)].domain, st[Len(st)].pos)
    PROVE  Balanced(k, zn, st2, c2, e)
<1> DEFINE n == Len(st)
           path == PathTo(st, n)
           d == st[n].domain
           p == st[n].pos
           t == Record(zn, d)[p].target
           fee == Fee(k, zn, path, d, p)
           sub == Owed(k, zn, path \union {t}, t, 1)
           now == Owed(k, zn, path, d, p)
           then == Owed(k, zn, path, d, p + 1)
<1>1. n \in Nat /\ n > 0 /\ n \in 1..n
  OBVIOUS
<1>2. d \in Domains /\ path \in SUBSET Domains
  BY <1>1, PathTyped DEF Linked, Placed
<1>3. Len(st2) = n + 1 /\ \A i \in 1..n : st2[i] = st[i]
  BY DEF Enters
<1>4. p \in Walked(zn, path, d) /\ st2[n + 1].domain = t /\ st2[n + 1].pos = 1
  BY DEF Enters
<1>5. c2 = c + fee
  OBVIOUS
<1>6. \A i \in 1..n : PathTo(st2, i) = PathTo(st, i)
  BY EnterLinked
<1>7. PathTo(st2, n + 1) = path \union {st2[n + 1].domain}
  BY EnterLinked
<1>8. PICK due \in [1..n -> Nat] :
        /\ due[1] = Outcome(zn)[{Apex}][Apex].cost[k]
        /\ \A i \in 1..(n - 1) :
              due[i] = due[i + 1] + Owed(k, zn, PathTo(st, i), st[i].domain, st[i].pos + 1)
        /\ c + now <= due[n] /\ (e => c + now = due[n])
  BY DEF Balanced
<1>9. Owed(k, zn, PathTo(st, n), st[n].domain, st[n].pos + 1) = then
  OBVIOUS
<1> HIDE DEF n, path, d, p
<1>10. p \in 1..Len(Record(zn, d))
  BY <1>2, <1>4, WalkedTyped, RecordTyped
<1>11. /\ now \in Nat /\ then \in Nat /\ fee \in Nat /\ sub \in Nat /\ now = fee + sub + then
  BY <1>2, <1>4, <1>10, TermOwed
<1>12. Owed(k, zn, PathTo(st2, n + 1), st2[n + 1].domain, st2[n + 1].pos) = sub
  BY <1>4, <1>7
<1> HIDE DEF t, fee, sub, now, then
<1>13. due[n] \in Nat
  BY <1>1, <1>8
<1> DEFINE last == due[n] - then
           due2 == [i \in 1..(n + 1) |-> IF i = n + 1 THEN last ELSE due[i]]
<1>14. last \in Nat /\ c2 + sub <= last /\ (e => c2 + sub = last)
  BY <1>5, <1>8, <1>11, <1>13
<1>15. due[n] = last + then
  BY <1>11, <1>13
<1> HIDE DEF last
<1>16. due2 \in [1..(n + 1) -> Nat]
  BY <1>1, <1>8, <1>14
<1>17. due2[n + 1] = last /\ due2[1] = due[1] /\ \A i \in 1..n : due2[i] = due[i]
  BY <1>1
<1> HIDE DEF due2
<1>18. ASSUME NEW i \in 1..n
       PROVE  due2[i] = due2[i + 1] + Owed(k, zn, PathTo(st2, i), st2[i].domain, st2[i].pos + 1)
  <2>1. st2[i] = st[i] /\ PathTo(st2, i) = PathTo(st, i) /\ due2[i] = due[i]
    BY <1>3, <1>6, <1>17
  <2>2. CASE i = n
    BY <1>9, <1>15, <1>17, <2>1, <2>2
  <2>3. CASE i # n
    <3>1. i \in 1..(n - 1) /\ i + 1 \in 1..n
      BY <1>1, <2>3
    <3> QED  BY <1>8, <1>17, <2>1, <3>1
  <2> QED  BY <2>2, <2>3
<1>19. 1..(Len(st2) - 1) = 1..n
  BY <1>1, <1>3
<1> QED  BY <1>3, <1>8, <1>12, <1>14, <1>16, <1>17, <1>18, <1>19 DEF Balanced

-----------------------------------------------------------------------------
(* What is known of a record *)

\* The all of a record in the code is that of the reference.
LEMMA RecordAllEnds ==
    ASSUME Rest, NEW d \in Domains
    PROVE  LET alls == Named(Record(zone, d), {"all"})
           IN  /\ HasAll(d) <=> alls # {}
               /\ alls # {} => RecordAll(d) = Record(zone, d)[Earliest(alls)].qual
               /\ alls = {} => RecordAll(d) = "none"
<1> DEFINE ts == TermsOf(d)
           alls == Named(ts, {"all"})
<1>1. ts = Record(zone, d)
  BY DEF TermsOf, Record
<1>2. ts \in Seq(Terms)
  BY TermsTyped
<1> HIDE DEF ts
<1>3. alls = {i \in DOMAIN ts : ts[i].name = "all"}
  BY DEF Named
<1> HIDE DEF alls
<1>4. HasAll(d) <=> alls # {}
  BY <1>3 DEF HasAll, ts
<1>5. ASSUME alls # {} PROVE FirstAll(d) = Earliest(alls)
  <2>1. alls \subseteq Nat
    BY <1>2, <1>3
  <2>2. Earliest(alls) \in alls /\ \A j \in alls : Earliest(alls) <= j
    BY <1>5, <2>1, EarliestIn
  <2> DEFINE First(i) == /\ ts[i].name = "all"
                         /\ \A j \in 1..(i - 1) : ts[j].name # "all"
  <2>3. Earliest(alls) \in DOMAIN ts /\ First(Earliest(alls))
    <3> DEFINE e == Earliest(alls)
    <3> HIDE DEF e
    <3>1. e \in DOMAIN ts /\ ts[e].name = "all" /\ \A j \in alls : e <= j
      BY <1>3, <2>2 DEF e
    <3>2. ASSUME NEW j \in 1..(e - 1) PROVE ts[j].name # "all"
      <4>1. DOMAIN ts = 1..Len(ts) /\ Len(ts) \in Nat
        BY <1>2
      <4>2. e \in Nat /\ e <= Len(ts)
        BY <3>1, <4>1
      <4>3. j \in DOMAIN ts /\ ~(e <= j)
        BY <4>1, <4>2
      <4> QED  BY <1>3, <3>1, <4>3
    <3> QED  BY <3>1, <3>2 DEF e
  <2>4. FirstAll(d) = CHOOSE i \in DOMAIN ts : First(i)
    BY DEF FirstAll, ts
  <2>5. FirstAll(d) \in DOMAIN ts /\ First(FirstAll(d))
    BY <2>3, <2>4
  <2>6. FirstAll(d) \in alls /\ Earliest(alls) <= FirstAll(d)
    BY <1>3, <2>2, <2>5
  <2>7. FirstAll(d) \in Nat /\ Earliest(alls) \in Nat
    BY <2>1, <2>2, <2>6
  <2>8. ~(Earliest(alls) < FirstAll(d))
    <3>1. SUFFICES ASSUME Earliest(alls) < FirstAll(d) PROVE FALSE
      OBVIOUS
    <3>2. Earliest(alls) \in 1..(FirstAll(d) - 1)
      BY <1>2, <2>3, <2>7, <3>1
    <3> QED  BY <2>3, <2>5, <3>2
  <2> QED  BY <2>6, <2>7, <2>8
<1>6. alls # {} => RecordAll(d) = ts[Earliest(alls)].qual
  BY <1>4, <1>5 DEF RecordAll, ts
<1>7. alls = {} => RecordAll(d) = "none"
  BY <1>4 DEF RecordAll
<1> QED  BY <1>1, <1>4, <1>6, <1>7 DEF alls

\* Nothing is known yet of a record that is entered but its own all.
LEMMA FrameKnown ==
    ASSUME Rest, NEW d \in Domains, NEW path, NEW probs
    PROVE  AllKnown(zone, path, Frame(d)) /\ PassKnown(zone, path, Frame(d), probs)
<1> DEFINE ts == Record(zone, d)
           alls == Named(ts, {"all"})
           reds == Named(ts, {"redirect"})
           f == Frame(d)
<1>1. zone \in [Domains -> Answers]
  BY DEF Rest
<1>2. Len(ts) \in Nat /\ DOMAIN ts = 1..Len(ts)
  BY <1>1, RecordTyped
<1>3. f.domain = d /\ f.pos = 1 /\ f.all = RecordAll(d)
  BY DEF Frame
<1>4. /\ alls # {} => f.all = ts[Earliest(alls)].qual
      /\ alls = {} => f.all = "none"
  BY <1>3, RecordAllEnds
<1>5. \A r \in reds : ~(r < 1)
  BY <1>2 DEF Named
<1>6. \A j \in Walked(zone, path, d) : ~(j < 1)
  BY <1>2, WalkedTyped
<1> HIDE DEF f
<1>7. AllKnown(zone, path, f)
  BY <1>3, <1>4, <1>5 DEF AllKnown
<1>8. PassKnown(zone, path, f, probs)
  BY <1>3, <1>6 DEF PassKnown
<1> QED  BY <1>7, <1>8 DEF f

\* The frame f2 comes after f's term: a redirect sets the all.
Passes(zn, path, f, f2) ==
    LET isRedirect == f.pos \in Named(Record(zn, f.domain), {"redirect"})
    IN  /\ f2.domain = f.domain /\ f2.pos = f.pos + 1
        /\ ~isRedirect => f2.all = f.all
        /\ isRedirect => f2.all = IF f.pos \in Walked(zn, path, f.domain)
                                  THEN Subs(zn, path, f.domain)[f.pos].all ELSE "none"

\* A frame that goes on knows its all.
LEMMA AllPassed ==
    ASSUME NEW zn \in [Domains -> Answers], NEW path, NEW f, NEW f2,
           f.domain \in Domains, f.pos \in Nat, AllKnown(zn, path, f), Passes(zn, path, f, f2)
    PROVE  AllKnown(zn, path, f2)
<1> DEFINE d == f.domain
           p == f.pos
           ts == Record(zn, d)
           alls == Named(ts, {"all"})
           reds == Named(ts, {"redirect"})
           Of(r) == IF r \in Walked(zn, path, d) THEN Subs(zn, path, d)[r].all ELSE "none"
<1>1. reds \subseteq Nat
  BY RecordTyped DEF Named
<1>2. p \in Nat /\ f2.domain = d /\ f2.pos = p + 1
  BY DEF Passes
<1>3. /\ alls # {} => f.all = ts[Earliest(alls)].qual
      /\ alls = {} /\ (\A j \in reds : j >= p) => f.all = "none"
      /\ alls = {} => \A r \in reds : (r < p /\ \A j \in reds : j < p => j <= r) => f.all = Of(r)
  BY DEF AllKnown
<1>4. (p \notin reds => f2.all = f.all) /\ (p \in reds => f2.all = Of(p))
  BY DEF Passes
<1>5. p \in reds => alls = {}
  BY DEF Named
<1> SUFFICES /\ alls # {} => f2.all = ts[Earliest(alls)].qual
             /\ alls = {} /\ (\A j \in reds : j >= p + 1) => f2.all = "none"
             /\ alls = {} => \A r \in reds :
                    (r < p + 1 /\ \A j \in reds : j < p + 1 => j <= r) => f2.all = Of(r)
  BY <1>2 DEF AllKnown
<1> HIDE DEF d, p, ts, alls, reds, Of
<1>6. CASE p \in reds
  <2>1. ~(\A j \in reds : j >= p + 1)
    BY <1>2, <1>6
  <2>2. ASSUME NEW r \in reds, r < p + 1, \A j \in reds : j < p + 1 => j <= r PROVE r = p
    <3>1. r \in Nat /\ p <= r
      BY <1>1, <1>2, <1>6, <2>2
    <3> QED  BY <1>2, <2>2, <3>1
  <2> QED  BY <1>4, <1>5, <1>6, <2>1, <2>2
<1>7. CASE p \notin reds
  <2>1. (\A j \in reds : j >= p + 1) => \A j \in reds : j >= p
    BY <1>1, <1>2
  <2>2. ASSUME NEW r \in reds, r < p + 1, \A j \in reds : j < p + 1 => j <= r
        PROVE  r < p /\ \A j \in reds : j < p => j <= r
    <3>1. r \in Nat /\ r # p /\ \A j \in reds : j \in Nat
      BY <1>1, <1>7
    <3> QED  BY <1>2, <2>2, <3>1
  <2> QED  BY <1>3, <1>4, <1>7, <2>1, <2>2
<1> QED  BY <1>6, <1>7

\* It knows of the records that pass every sender, if the one just left, if
\* any, is reported or its all is on its way up.
LEMMA PassPassed ==
    ASSUME NEW zn \in [Domains -> Answers], NEW path, NEW f, NEW f2, NEW probs, NEW probs2,
           f.domain \in Domains, f.pos \in Nat, f2.domain = f.domain, f2.pos = f.pos + 1,
           PassKnown(zn, path, f, probs), probs \subseteq probs2,
           (/\ f.pos \in Walked(zn, path, f.domain)
            /\ Subs(zn, path, f.domain)[f.pos].verdict = "+") =>
                \/ PassAll(probs2)
                \/ /\ Record(zn, f.domain)[f.pos].name = "redirect"
                   /\ Subs(zn, path, f.domain)[f.pos].all = "+"
    PROVE  PassKnown(zn, path, f2, probs2)
<1> DEFINE W == Walked(zn, path, f.domain)
<1>1. \A j \in W : j \in Nat
  BY WalkedTyped, RecordTyped
<1>2. \A j \in W : j < f2.pos => j < f.pos \/ j = f.pos
  BY <1>1
<1>3. PassAll(probs) => PassAll(probs2)
  BY DEF PassAll
<1> QED  BY <1>2, <1>3 DEF PassKnown

\* What is known stays known while problems are added.
LEMMA PassKept ==
    ASSUME NEW zn, NEW path, NEW f, NEW probs, NEW probs2,
           PassKnown(zn, path, f, probs), probs \subseteq probs2
    PROVE  PassKnown(zn, path, f, probs2)
<1>1. PassAll(probs) => PassAll(probs2)
  BY DEF PassAll
<1> QED  BY <1>1 DEF PassKnown

\* A record that ends is known: its all, and whether it passes every sender.
LEMMA EndKnown ==
    ASSUME NEW zn \in [Domains -> Answers], NEW path \in SUBSET Domains, NEW f, NEW probs,
           f.domain \in Domains, f.pos = Len(Record(zn, f.domain)) + 1,
           AllKnown(zn, path, f), PassKnown(zn, path, f, probs)
    PROVE  LET o == Outcome(zn)[path][f.domain]
           IN  f.all = o.all /\ (o.verdict = "+" => PassAll(probs) \/ f.all = "+")
<1> DEFINE d == f.domain
           ts == Record(zn, d)
           alls == Named(ts, {"all"})
           reds == Named(ts, {"redirect"})
           W == Walked(zn, path, d)
           sub == Subs(zn, path, d)
           matching == Matching(zn, path, d, sub)
           o == Outcome(zn)[path][d]
           r == Redirect(zn, d)
<1>1. Len(ts) \in Nat /\ DOMAIN ts = 1..Len(ts)
  BY RecordTyped
<1>2. o = Combine(zn, path, d, sub)
  BY OutcomeDef DEF Subs
<1>3. o.all = IF alls # {} THEN ts[Earliest(alls)].qual
              ELSE IF Redirected(zn, path, d) THEN sub[r].all ELSE "none"
  BY <1>2 DEF Combine
<1>4. o.verdict = IF matching # {} THEN ts[Earliest(matching)].qual
                  ELSE IF Redirected(zn, path, d) THEN sub[r].verdict ELSE "none"
  BY <1>2 DEF Combine
<1>5. \A j \in DOMAIN ts : j < f.pos
  BY <1>1
<1>6. alls \subseteq DOMAIN ts /\ reds \subseteq DOMAIN ts /\ W \subseteq DOMAIN ts
  BY WalkedTyped DEF Named
<1>7. reds # {} => r \in reds /\ \A j \in reds : j <= r
  BY RedirectIn
<1>8. Redirected(zn, path, d) <=> reds # {} /\ r \in W
  BY DEF Redirected
<1>9. /\ alls # {} => f.all = ts[Earliest(alls)].qual
      /\ alls = {} /\ (\A j \in reds : j >= f.pos) => f.all = "none"
      /\ alls = {} => \A q \in reds : (q < f.pos /\ \A j \in reds : j < f.pos => j <= q) =>
                         f.all = IF q \in W THEN sub[q].all ELSE "none"
  BY DEF AllKnown
<1>10. \A j \in W : sub[j].verdict = "+" =>
          PassAll(probs) \/ (ts[j].name = "redirect" /\ sub[j].all = "+")
  BY <1>5, <1>6 DEF PassKnown
<1>11. matching = alls \union {i \in W : ts[i].name = "include" /\ sub[i].verdict = "+"}
  BY DEF Matching
<1>12. \A j \in reds : ts[j].name = "redirect"
  BY DEF Named
<1> HIDE DEF ts, alls, reds, W, sub, matching, o, r
<1>13. f.all = o.all
  <2>1. CASE alls # {}
    BY <1>3, <1>9, <2>1
  <2>2. CASE alls = {} /\ reds = {}
    BY <1>3, <1>8, <1>9, <2>2
  <2>3. CASE alls = {} /\ reds # {}
    <3>1. r \in reds /\ r < f.pos /\ \A j \in reds : j < f.pos => j <= r
      BY <1>5, <1>6, <1>7, <2>3
    <3>2. f.all = IF r \in W THEN sub[r].all ELSE "none"
      BY <1>9, <2>3, <3>1
    <3> QED  BY <1>3, <1>8, <2>3, <3>2
  <2> QED  BY <2>1, <2>2, <2>3
<1>14. ASSUME o.verdict = "+" PROVE PassAll(probs) \/ f.all = "+"
  <2>1. CASE matching # {}
    <3> DEFINE e == Earliest(matching)
    <3>1. matching \subseteq Nat
      BY <1>1, <1>6, <1>11
    <3>2. e \in matching /\ \A j \in matching : e <= j
      BY <2>1, <3>1, EarliestIn
    <3>3. ts[e].qual = "+"
      BY <1>4, <1>14, <2>1
    <3>4. CASE e \in alls
      <4>1. alls \subseteq Nat /\ alls # {}
        BY <1>11, <3>1, <3>4
      <4>2. Earliest(alls) \in alls /\ \A j \in alls : Earliest(alls) <= j
        BY <4>1, EarliestIn
      <4>3. e <= Earliest(alls) /\ Earliest(alls) <= e /\ e \in Nat /\ Earliest(alls) \in Nat
        BY <1>11, <3>2, <3>4, <4>1, <4>2
      <4>4. e = Earliest(alls)
        BY <4>3
      <4> QED  BY <1>9, <3>3, <4>1, <4>4
    <3>5. CASE e \notin alls
      <4>1. e \in W /\ ts[e].name = "include" /\ sub[e].verdict = "+"
        BY <1>11, <3>2, <3>5
      <4> QED  BY <1>10, <4>1
    <3> QED  BY <3>4, <3>5
  <2>2. CASE matching = {}
    <3>1. Redirected(zn, path, d) /\ sub[r].verdict = "+"
      BY <1>4, <1>14, <2>2
    <3>2. alls = {}
      BY <1>11, <2>2
    <3>3. o.all = sub[r].all /\ r \in W
      BY <1>3, <1>8, <3>1, <3>2
    <3> QED  BY <1>10, <1>13, <3>1, <3>3
  <2> QED  BY <2>1, <2>2
<1> QED  BY <1>13, <1>14 DEF o

\* The record a walked term leads to, in the frame above it.
LEMMA CalleeOutcome ==
    ASSUME NEW zn \in [Domains -> Answers], NEW path \in SUBSET Domains, NEW d \in Domains,
           NEW i \in Walked(zn, path, d)
    PROVE  Subs(zn, path, d)[i] =
              Outcome(zn)[path \union {Record(zn, d)[i].target}][Record(zn, d)[i].target]
  BY SubsTyped

-----------------------------------------------------------------------------

\* A frame that goes on leaves the others as they are known.
LEMMA ResumeKnown ==
    ASSUME NEW zn, NEW st, NEW st2, NEW m, Len(st) \in Nat, m \in 1..Len(st),
           NEW probs, NEW probs2, probs \subseteq probs2,
           Known(zn, st, probs), Resumes(st, st2, m),
           AllKnown(zn, PathTo(st, m), st2[m]), PassKnown(zn, PathTo(st, m), st2[m], probs2)
    PROVE  Known(zn, st2, probs2)
<1>1. m \in Nat /\ m > 0 /\ Len(st2) = m /\ \A i \in 1..(m - 1) : st2[i] = st[i]
  BY DEF Resumes
<1>2. \A i \in 1..m : PathTo(st2, i) = PathTo(st, i)
  BY <1>1, ResumePaths
<1>3. ASSUME NEW i \in 1..m
      PROVE  AllKnown(zn, PathTo(st2, i), st2[i]) /\ PassKnown(zn, PathTo(st2, i), st2[i], probs2)
  <2>0. PathTo(st2, i) = PathTo(st, i)
    BY <1>2
  <2>1. CASE i = m
    BY <2>0, <2>1
  <2>2. CASE i # m
    <3>1. i \in 1..(m - 1) /\ i \in 1..Len(st)
      BY <1>1, <2>2
    <3>2. AllKnown(zn, PathTo(st, i), st[i]) /\ PassKnown(zn, PathTo(st, i), st[i], probs)
      BY <3>1 DEF Known
    <3>3. PassKnown(zn, PathTo(st, i), st[i], probs2)
      BY <3>2, PassKept
    <3> QED  BY <1>1, <2>0, <3>1, <3>2, <3>3
  <2> QED  BY <2>1, <2>2
<1> QED  BY <1>1, <1>3 DEF Known

\* So does a further frame.
LEMMA EnterKnown ==
    ASSUME NEW zn \in [Domains -> Answers], NEW st, NEW st2, Len(st) \in Nat, Len(st) > 0,
           NEW probs, NEW probs2, probs \subseteq probs2,
           Linked(zn, st), Known(zn, st, probs), Enters(zn, st, st2),
           \A path : /\ AllKnown(zn, path, st2[Len(st2)])
                     /\ PassKnown(zn, path, st2[Len(st2)], probs2)
    PROVE  Known(zn, st2, probs2)
<1> DEFINE n == Len(st)
<1>1. n \in Nat /\ n > 0 /\ Len(st2) = n + 1 /\ \A i \in 1..n : st2[i] = st[i]
  BY DEF Enters
<1>2. \A i \in 1..n : PathTo(st2, i) = PathTo(st, i)
  BY EnterLinked
<1>3. ASSUME NEW i \in 1..(n + 1)
      PROVE  AllKnown(zn, PathTo(st2, i), st2[i]) /\ PassKnown(zn, PathTo(st2, i), st2[i], probs2)
  <2>1. CASE i = n + 1
    BY <1>1, <2>1
  <2>2. CASE i # n + 1
    <3>1. i \in 1..n
      BY <1>1, <2>2
    <3>2. AllKnown(zn, PathTo(st, i), st[i]) /\ PassKnown(zn, PathTo(st, i), st[i], probs)
      BY <3>1 DEF Known
    <3>3. PassKnown(zn, PathTo(st, i), st[i], probs2)
      BY <3>2, PassKept
    <3> QED  BY <1>1, <1>2, <3>1, <3>2, <3>3
  <2> QED  BY <2>1, <2>2
<1> QED  BY <1>1, <1>3 DEF Known

-----------------------------------------------------------------------------
(* The invariant of the walk *)

\* The counter of the evaluator.
Counter(k) == IF k = "lookups" THEN lookups ELSE void

\* During the walk: every frame has its place in the tree, each counter is
\* what is paid of the cost, and the frames know what they have passed.
WalkInv ==
    /\ Linked(zone, stack)
    /\ \A k \in Counters : Balanced(k, zone, stack, Counter(k), ~gaveUp)
    /\ ~gaveUp => Known(zone, stack, problems)

\* After it: the counters are the cost, at most or exactly; the reports agree.
EndInv ==
    /\ \A k \in Counters : /\ Counter(k) <= Reference.cost[k]
                           /\ ~gaveUp => Counter(k) = Reference.cost[k]
    /\ Problem("lookup_limit", NoDomain) \in problems <=> lookups > spfLookupLimit
    /\ ~gaveUp => /\ result.all = Reference.all
                  /\ Reference.verdict = "+" => PassAll(problems)

\* The walk follows the tree.
TreeInv ==
    /\ main = "start" => lookups = 0 /\ void = 0
    /\ main # "done" => Problem("lookup_limit", NoDomain) \notin problems
    /\ main = "walk" => WalkInv
    /\ Evaluated => EndInv

\* The path to the frame being walked, and what its term costs by itself.
TopPath == PathTo(stack, Len(stack))
TopFee(k) == Fee(k, zone, TopPath, Top.domain, Top.pos)

\* The term the walk is at, as the reference sees it.
LEMMA TopTerm ==
    ASSUME IInv, Walking
    PROVE  /\ Top.pos \in 1..Len(Record(zone, Top.domain))
           /\ Top.pos \in DOMAIN Record(zone, Top.domain)
           /\ Term = Record(zone, Top.domain)[Top.pos]
           /\ \A names : Top.pos \in Named(Record(zone, Top.domain), names) <=>
                            Term.name \in names /\ ~Ignored
<1> DEFINE d == Top.domain
           p == Top.pos
           ts == Record(zone, d)
<1>1. d \in Domains /\ p \in Nat \ {0} /\ zone \in [Domains -> Answers]
  BY TopTyped DEF Walking, IInv, Rest
<1>2. Len(ts) \in Nat /\ DOMAIN ts = 1..Len(ts)
  BY <1>1, RecordTyped
<1>3. ts = TermsOf(d)
  BY DEF Record, TermsOf
<1>4. p \in 1..Len(ts) /\ p \in DOMAIN ts
  BY <1>1, <1>2, <1>3 DEF Walking, AtEnd
<1>5. Term = ts[p]
  BY <1>3 DEF Term, TermOf
<1>6. HasAll(d) <=> ~(\A j \in DOMAIN ts : ts[j].name # "all")
  BY <1>3 DEF HasAll
<1> HIDE DEF ts, p
<1>7. \A names : p \in Named(ts, names) <=> Term.name \in names /\ ~Ignored
  BY <1>4, <1>5, <1>6 DEF Named, Ignored
<1> QED  BY <1>4, <1>5, <1>7 DEF p, ts

\* The path to the top holds the domains being walked.
LEMMA OnTopPath ==
    ASSUME IInv, NEW t
    PROVE  OnPath(t) <=> t \in TopPath
<1>1. DOMAIN stack = 1..Len(stack)
  BY DEF IInv, StackInv
<1> QED  BY <1>1 DEF OnPath, TopPath, PathTo

\* Where the term the walk is at leads.
LEMMA TopLeads ==
    ASSUME IInv, Walking, NEW s
    PROVE  Top.pos \in Leads(zone, TopPath, Top.domain, s) <=>
              Descends /\ zone[Term.target].status = s
<1>1. Top.pos \in Named(Record(zone, Top.domain), {"include", "redirect"}) <=>
         Term.name \in {"include", "redirect"} /\ ~Ignored
  BY TopTerm
<1>2. Term = Record(zone, Top.domain)[Top.pos]
  BY TopTerm
<1>3. OnPath(Term.target) <=> Term.target \in TopPath
  BY OnTopPath
<1> QED  BY <1>1, <1>2, <1>3 DEF Leads, Descends, Calls

\* What the term costs.
LEMMA TopFees ==
    ASSUME IInv, Walking
    PROVE  /\ TopFee("lookups") = IF Term.name \in {"a", "ptr"} \/ Calls THEN 1 ELSE 0
           /\ TopFee("void") = IF Descends /\ zone[Term.target].status = "void" THEN 1 ELSE 0
<1>1. Top.pos \in Named(Record(zone, Top.domain), {"a", "ptr", "include", "redirect"}) <=>
         Term.name \in {"a", "ptr", "include", "redirect"} /\ ~Ignored
  BY TopTerm
<1>2. Top.pos \in Leads(zone, TopPath, Top.domain, "void") <=>
         Descends /\ zone[Term.target].status = "void"
  BY TopLeads
<1>3. TopFee("lookups") = IF Term.name \in {"a", "ptr"} \/ Calls THEN 1 ELSE 0
  BY <1>1 DEF TopFee, Fee, Calls, Ignored
<1>4. TopFee("void") = IF Descends /\ zone[Term.target].status = "void" THEN 1 ELSE 0
  BY <1>2 DEF TopFee, Fee
<1> QED  BY <1>3, <1>4

\* A frame after its call.
LEMMA ResumeFrame ==
    ASSUME Rest, NEW f \in Frames, NEW all
    PROVE  /\ Resume(f, all).domain = f.domain /\ Resume(f, all).pos = f.pos + 1
           /\ TermOf(f).name = "include" => Resume(f, all).all = f.all
           /\ TermOf(f).name # "include" => Resume(f, all).all = all
<1>1. CASE TermOf(f).name = "include"
  BY <1>1 DEF Resume, Frames
<1>2. CASE TermOf(f).name # "include"
  BY <1>2 DEF Resume, Frames
<1> QED  BY <1>1, <1>2

\* The walk passes a term.
LEMMA AdvanceKeeps ==
    ASSUME IInv, Walking, WalkInv, NEW f, stack' = SetTop(f),
           f.domain = Top.domain, f.pos = Top.pos + 1,
           zone' = zone, problems \subseteq problems', lookups' \in Nat, void' \in Nat,
           lookups' <= lookups + TopFee("lookups"), void' <= void + TopFee("void"),
           ~gaveUp' => /\ ~gaveUp /\ Top.pos \notin Walked(zone, TopPath, Top.domain)
                       /\ Passes(zone, TopPath, Top, f)
                       /\ lookups' = lookups + TopFee("lookups")
                       /\ void' = void + TopFee("void")
    PROVE  WalkInv'
<1> DEFINE n == Len(stack)
<1>1. n \in Nat /\ n > 0 /\ n \in 1..n /\ stack \in Seq(Frames) /\ Top.domain \in Domains
      /\ Top.pos \in Nat
  BY TopTyped DEF Walking, IInv, StackInv
<1>2. zone \in [Domains -> Answers] /\ lookups \in Nat /\ void \in Nat
  BY DEF IInv, Rest
<1>3. Resumes(stack, stack', n) /\ stack'[n] = f
  <2>1. Len(stack') = n /\ stack'[n] = f /\ \A i \in 1..(n - 1) : stack'[i] = stack[i]
    BY <1>1 DEF SetTop
  <2> QED  BY <2>1 DEF Resumes, Top
<1>4. stack[n].pos \in 1..Len(Record(zone, stack[n].domain))
  BY TopTerm DEF Top
<1>5. Linked(zone, stack) /\ \A k \in Counters : Balanced(k, zone, stack, Counter(k), ~gaveUp)
  BY DEF WalkInv
<1>6. Linked(zone, stack')
  BY <1>1, <1>2, <1>3, <1>4, <1>5, ResumeLinked
<1>7. ASSUME NEW k \in Counters PROVE Balanced(k, zone, stack', Counter(k)', ~gaveUp')
  <2> DEFINE c == Counter(k)
             c2 == Counter(k)'
  <2>1. c \in Nat /\ c2 \in Nat /\ Balanced(k, zone, stack, c, ~gaveUp)
    BY <1>2, <1>5 DEF Counter
  <2>2. c2 <= c + Fee(k, zone, PathTo(stack, n), stack[n].domain, stack[n].pos)
    BY <1>7 DEF Counter, Counters, TopFee, TopPath, Top
  <2>3. ~gaveUp' => /\ ~gaveUp
                    /\ stack[n].pos \notin Walked(zone, PathTo(stack, n), stack[n].domain)
                    /\ c2 = c + Fee(k, zone, PathTo(stack, n), stack[n].domain, stack[n].pos)
    BY <1>7 DEF Counter, Counters, TopFee, TopPath, Top
  <2> HIDE DEF c, c2
  <2>4. Balanced(k, zone, stack', c2, ~gaveUp')
    BY <1>1, <1>2, <1>3, <1>4, <1>5, <2>1, <2>2, <2>3, AdvanceBalanced
  <2> QED  BY <2>4 DEF c2
<1>8. ASSUME ~gaveUp' PROVE Known(zone, stack', problems')
  <2>1. Known(zone, stack, problems) /\ Passes(zone, TopPath, Top, f)
        /\ Top.pos \notin Walked(zone, TopPath, Top.domain)
    BY <1>8 DEF WalkInv
  <2>2. AllKnown(zone, TopPath, Top) /\ PassKnown(zone, TopPath, Top, problems)
    BY <1>1, <2>1 DEF Known, TopPath, Top
  <2>3. AllKnown(zone, TopPath, f)
    BY <1>1, <1>2, <2>1, <2>2, AllPassed
  <2>4. PassKnown(zone, TopPath, f, problems')
    BY <1>1, <1>2, <2>1, <2>2, PassPassed
  <2>5. /\ AllKnown(zone, PathTo(stack, n), stack'[n])
        /\ PassKnown(zone, PathTo(stack, n), stack'[n], problems')
    BY <1>3, <2>3, <2>4 DEF TopPath
  <2> QED  BY <1>1, <1>3, <2>1, <2>5, ResumeKnown
<1> QED  BY <1>6, <1>7, <1>8 DEF WalkInv

-----------------------------------------------------------------------------
(* Its steps *)

\* A problem of another class is not the lookup limit.
LEMMA OtherProblem ==
    ASSUME NEW code, NEW at, NEW condition, code # "lookup_limit"
    PROVE  /\ Problem("lookup_limit", NoDomain) # Problem(code, at)
           /\ Problem("lookup_limit", NoDomain) \notin When(condition, Problem(code, at))
<1>1. Problem("lookup_limit", NoDomain).code = "lookup_limit" /\ Problem(code, at).code = code
  BY DEF Problem
<1>2. Problem("lookup_limit", NoDomain) # Problem(code, at)
  BY <1>1
<1> HIDE DEF Problem
<1> QED  BY <1>2 DEF When

\* A step inside the walk.
LEMMA WalkTree ==
    ASSUME TreeInv, main = "walk", main' = "walk", WalkInv',
           Problem("lookup_limit", NoDomain) \notin problems'
    PROVE  TreeInv'
  BY DEF TreeInv, Evaluated

\* A redirect beside an all costs nothing and sets nothing.
LEMMA IgnoreRedirectTree == IInv /\ TreeInv /\ IgnoreRedirect => TreeInv'
<1> SUFFICES ASSUME IInv, TreeInv, IgnoreRedirect PROVE TreeInv'
  OBVIOUS
<1> DEFINE f == [Top EXCEPT !.pos = @ + 1, !.redirected = TRUE]
<1>1. /\ Walking /\ Ignored /\ stack' = SetTop(f) /\ main = "walk" /\ main' = "walk" /\ zone' = zone
      /\ lookups' = lookups /\ void' = void /\ gaveUp' = gaveUp /\ problems' = problems
  BY DEF IgnoreRedirect, counts, Walking
<1>2. Top \in Frames /\ lookups \in Nat /\ void \in Nat
  BY <1>1, TopTyped DEF IInv, Rest
<1>3. f.domain = Top.domain /\ f.pos = Top.pos + 1 /\ f.all = Top.all
  BY <1>2 DEF Frames
<1>4. ~Calls /\ ~Descends /\ Term.name \notin {"a", "ptr"}
  BY <1>1 DEF Calls, Descends, Ignored
<1>5. TopFee("lookups") = 0 /\ TopFee("void") = 0
  BY <1>1, <1>4, TopFees
<1>6. Top.pos \notin Walked(zone, TopPath, Top.domain)
  BY <1>1, <1>4, TopLeads DEF Walked
<1>7. Top.pos \notin Named(Record(zone, Top.domain), {"redirect"})
  BY <1>1, TopTerm
<1> HIDE DEF f
<1>8. Passes(zone, TopPath, Top, f)
  BY <1>3, <1>7 DEF Passes
<1>9. WalkInv /\ Problem("lookup_limit", NoDomain) \notin problems
  BY <1>1 DEF TreeInv
<1>10. WalkInv'
  BY <1>1, <1>2, <1>3, <1>5, <1>6, <1>8, <1>9, AdvanceKeeps
<1> QED  BY <1>1, <1>9, <1>10, WalkTree

\* A term that names no other record costs at most a lookup.
LEMMA PlainTermTree == IInv /\ TreeInv /\ PlainTerm => TreeInv'
<1> SUFFICES ASSUME IInv, TreeInv, PlainTerm PROVE TreeInv'
  OBVIOUS
<1> DEFINE f == [Top EXCEPT !.pos = @ + 1]
<1>1. /\ Walking /\ stack' = SetTop(f) /\ main = "walk" /\ main' = "walk" /\ zone' = zone
      /\ void' = void /\ gaveUp' = gaveUp /\ problems \subseteq problems'
      /\ Term.name \notin {"include", "redirect"}
      /\ lookups' = IF Term.name \in {"a", "ptr"} THEN lookups + 1 ELSE lookups
  BY DEF PlainTerm, Walking
<1>2. Top \in Frames /\ lookups \in Nat /\ void \in Nat
  BY <1>1, TopTyped DEF IInv, Rest
<1>3. f.domain = Top.domain /\ f.pos = Top.pos + 1 /\ f.all = Top.all
  BY <1>2 DEF Frames
<1>4. ~Calls /\ ~Descends
  BY <1>1 DEF Calls, Descends
<1>5. lookups' = lookups + TopFee("lookups") /\ TopFee("void") = 0
  BY <1>1, <1>2, <1>4, TopFees
<1>6. Top.pos \notin Walked(zone, TopPath, Top.domain)
  BY <1>1, <1>4, TopLeads DEF Walked
<1>7. Top.pos \notin Named(Record(zone, Top.domain), {"redirect"})
  BY <1>1, TopTerm
<1> HIDE DEF f
<1>8. Passes(zone, TopPath, Top, f)
  BY <1>3, <1>7 DEF Passes
<1>9. WalkInv /\ Problem("lookup_limit", NoDomain) \notin problems
  BY <1>1 DEF TreeInv
<1>10. lookups' \in Nat /\ void' \in Nat /\ lookups' <= lookups + TopFee("lookups")
       /\ void' <= void + TopFee("void") /\ void' = void + TopFee("void")
  BY <1>1, <1>2, <1>5
<1>11. WalkInv'
  BY <1>1, <1>3, <1>5, <1>6, <1>8, <1>9, <1>10, AdvanceKeeps
<1>12. Problem("lookup_limit", NoDomain) \notin problems'
  BY <1>9, OtherProblem DEF PlainTerm
<1> QED  BY <1>1, <1>11, <1>12, WalkTree

\* A call that returns without a walk.
LEMMA SkipTree ==
    ASSUME IInv, TreeInv, Calls, NEW found, Skip(found),
           Problem("lookup_limit", NoDomain) \notin found,
           void' \in Nat, void' <= void + TopFee("void"),
           ~gaveUp' => /\ ~gaveUp /\ Top.pos \notin Walked(zone, TopPath, Top.domain)
                       /\ void' = void + TopFee("void")
    PROVE  TreeInv'
<1> DEFINE f == Resume(Top, "none")
<1>1. /\ Walking /\ stack' = SetTop(f) /\ main = "walk" /\ main' = "walk" /\ zone' = zone
      /\ problems' = problems \union found /\ lookups' = lookups + 1
      /\ Term.name \in {"include", "redirect"} /\ ~Ignored
  BY DEF Calls, Skip, Walking
<1>2. Top \in Frames /\ lookups \in Nat /\ void \in Nat /\ Rest
  BY <1>1, TopTyped DEF IInv, Rest
<1>3. /\ f.domain = Top.domain /\ f.pos = Top.pos + 1
      /\ Term.name = "include" => f.all = Top.all
      /\ Term.name # "include" => f.all = "none"
  BY <1>2, ResumeFrame DEF Term
<1>4. TopFee("lookups") = 1
  BY <1>1, TopFees
<1>5. Top.pos \in Named(Record(zone, Top.domain), {"redirect"}) <=> Term.name = "redirect"
  BY <1>1, TopTerm
<1> HIDE DEF f
<1>6. ~gaveUp' => Passes(zone, TopPath, Top, f)
  BY <1>1, <1>3, <1>5 DEF Passes
<1>7. WalkInv /\ Problem("lookup_limit", NoDomain) \notin problems
  BY <1>1 DEF TreeInv
<1>8. lookups' \in Nat /\ lookups' = lookups + TopFee("lookups")
      /\ lookups' <= lookups + TopFee("lookups")
  BY <1>1, <1>2, <1>4
<1>9. WalkInv'
  BY <1>1, <1>3, <1>6, <1>7, <1>8, AdvanceKeeps
<1> QED  BY <1>1, <1>7, <1>9, WalkTree

\* An include or redirect that is cut short costs its lookup and ends in no all.
LEMMA CallTree ==
    IInv /\ TreeInv /\ (MacroTarget \/ InvalidTarget \/ IncludeLoop) => TreeInv'
<1> SUFFICES ASSUME IInv, TreeInv, MacroTarget \/ InvalidTarget \/ IncludeLoop PROVE TreeInv'
  OBVIOUS
<1>1. PICK found : Calls /\ Skip(found) /\ Problem("lookup_limit", NoDomain) \notin found
  <2>1. CASE MacroTarget
    BY <2>1 DEF MacroTarget
  <2>2. CASE InvalidTarget
    BY <2>2, OtherProblem DEF InvalidTarget
  <2>3. CASE IncludeLoop
    BY <2>3, OtherProblem DEF IncludeLoop
  <2> QED  BY <2>1, <2>2, <2>3
<1>2. ~Descends /\ void' = void /\ gaveUp' = gaveUp
  BY DEF MacroTarget, InvalidTarget, IncludeLoop, Descends
<1>3. Walking /\ void \in Nat
  BY <1>1 DEF Calls, IInv, Rest
<1>4. TopFee("void") = 0
  BY <1>2, <1>3, TopFees
<1>5. Top.pos \notin Walked(zone, TopPath, Top.domain)
  BY <1>2, <1>3, TopLeads DEF Walked
<1>6. void' \in Nat /\ void' <= void + TopFee("void") /\ void' = void + TopFee("void")
  BY <1>2, <1>3, <1>4
<1> QED  BY <1>1, <1>2, <1>5, <1>6, SkipTree

\* After giving up the counters only fall behind.
LEMMA GiveUpTree == IInv /\ TreeInv /\ GiveUp => TreeInv'
<1> SUFFICES ASSUME IInv, TreeInv, GiveUp PROVE TreeInv'
  OBVIOUS
<1>1. Calls /\ Walking /\ Skip({}) /\ gaveUp' = TRUE /\ void' = void /\ void \in Nat
  BY DEF GiveUp, Descends, Calls, IInv, Rest
<1>2. TopFee("void") \in Nat
  BY <1>1, TopFees
<1>3. void' \in Nat /\ void' <= void + TopFee("void")
  BY <1>1, <1>2
<1> QED  BY <1>1, <1>3, SkipTree

\* A target without a record costs a lookup, and a void one when it has nothing.
LEMMA NoAnswerTree == IInv /\ TreeInv /\ (Unchecked \/ Missing) => TreeInv'
<1> SUFFICES ASSUME IInv, TreeInv, Unchecked \/ Missing PROVE TreeInv'
  OBVIOUS
<1>1. PICK found : Skip(found) /\ Problem("lookup_limit", NoDomain) \notin found
  <2>1. CASE Unchecked
    BY <2>1, OtherProblem DEF Unchecked
  <2>2. CASE Missing
    <3>1. Skip({Problem("include_missing", Term.target)})
      BY <2>2 DEF Missing
    <3>2. Problem("lookup_limit", NoDomain) # Problem("include_missing", Term.target)
      BY OtherProblem
    <3>3. Problem("lookup_limit", NoDomain) \notin {Problem("include_missing", Term.target)}
      BY <3>2
    <3> QED  BY <3>1, <3>3
  <2> QED  BY <2>1, <2>2
<1>2. /\ Descends /\ Calls /\ Walking /\ gaveUp' = gaveUp /\ void \in Nat
      /\ zone[Term.target].status # "spf"
      /\ void' = IF zone[Term.target].status = "void" THEN void + 1 ELSE void
  BY DEF Unchecked, Missing, Asks, Descends, Calls, IInv, Rest
<1>3. void' = void + TopFee("void")
  BY <1>2, TopFees
<1>4. Top.pos \notin Walked(zone, TopPath, Top.domain)
  BY <1>2, TopLeads DEF Walked
<1>5. void' \in Nat /\ void' <= void + TopFee("void")
  BY <1>2, <1>3
<1> QED  BY <1>1, <1>2, <1>3, <1>4, <1>5, SkipTree

USE ZonesAssumption, LimitsAssumption

\* The walk begins with the whole tree owed.
LEMMA EvaluateTree == IInv /\ TreeInv /\ EvaluateSPF => TreeInv'
<1> SUFFICES ASSUME IInv, TreeInv, EvaluateSPF PROVE TreeInv'
  OBVIOUS
<1>1. /\ main = "start" /\ main' = "walk" /\ stack' = <<Frame(Apex)>> /\ zone' = zone
      /\ lookups' = lookups /\ void' = void /\ gaveUp' = gaveUp
      /\ zone \in [Domains -> Answers] /\ Rest
  BY DEF EvaluateSPF, counts, IInv, Rest
<1>2. lookups = 0 /\ void = 0
  BY <1>1 DEF TreeInv
<1> DEFINE st == stack'
<1>3. Len(st) = 1 /\ st[1] = Frame(Apex) /\ st[1].domain = Apex /\ st[1].pos = 1
  BY <1>1 DEF Frame
<1>4. PathTo(st, 1) = {Apex} /\ {Apex} \in SUBSET Domains
  <2>1. \A j \in 1..1 : j = 1
    OBVIOUS
  <2>2. 1 \in 1..1
    OBVIOUS
  <2> QED  BY <1>3, <2>1, <2>2 DEF PathTo
<1> HIDE DEF st
<1>5. Linked(zone, st)
  <2>1. Len(Record(zone, Apex)) \in Nat
    BY <1>1, RecordTyped
  <2>2. Placed(zone, st[1])
    BY <1>3, <2>1 DEF Placed
  <2> QED  BY <1>3, <2>2 DEF Linked
<1>6. ASSUME NEW k \in Counters, NEW e PROVE Balanced(k, zone, st, 0, e)
  <2> DEFINE cost == Outcome(zone)[{Apex}][Apex].cost[k]
             due == [i \in 1..1 |-> cost]
  <2>1. cost = Owed(k, zone, {Apex}, Apex, 1) /\ cost \in Nat
    BY <1>1, <1>4, OwedStart
  <2>2. Owed(k, zone, PathTo(st, Len(st)), st[Len(st)].domain, st[Len(st)].pos) = cost
    BY <1>3, <1>4, <2>1
  <2> HIDE DEF cost
  <2>3. due \in [1..Len(st) -> Nat] /\ due[1] = cost /\ due[Len(st)] = cost
    BY <1>3, <2>1
  <2> HIDE DEF due
  <2>4. 1..(Len(st) - 1) = {} /\ 0 + cost <= cost /\ 0 + cost = cost
    BY <1>3, <2>1
  <2> QED  BY <2>2, <2>3, <2>4 DEF Balanced, cost
<1>7. Known(zone, st, problems')
  <2>1. AllKnown(zone, PathTo(st, 1), st[1]) /\ PassKnown(zone, PathTo(st, 1), st[1], problems')
    BY <1>1, <1>3, FrameKnown
  <2> QED  BY <1>3, <2>1 DEF Known
<1>8. \A k \in Counters : Counter(k)' = 0
  BY <1>1, <1>2 DEF Counter
<1>9. WalkInv'
  BY <1>1, <1>5, <1>6, <1>7, <1>8 DEF WalkInv, st
<1>10. Problem("lookup_limit", NoDomain) \notin problems'
  BY OtherProblem DEF EvaluateSPF, ApexSize, RedundantIPs
<1> QED  BY <1>1, <1>9, <1>10 DEF TreeInv, Evaluated

\* A record is entered: its caller waits, owing what it costs.
LEMMA EnterTree == IInv /\ TreeInv /\ Enter => TreeInv'
<1> SUFFICES ASSUME IInv, TreeInv, Enter PROVE TreeInv'
  OBVIOUS
<1> DEFINE n == Len(stack)
           t == Term.target
           st == stack'
<1>1. /\ Walking /\ Calls /\ Descends /\ main = "walk" /\ main' = "walk" /\ zone' = zone
      /\ zone[t].status = "spf" /\ t \in Domains /\ st = Append(stack, Frame(t))
      /\ lookups' = lookups + 1 /\ void' = void /\ gaveUp' = gaveUp
      /\ problems \subseteq problems'
  BY DEF Enter, Asks, Descends, Calls, Walking
<1>2. /\ n \in Nat /\ n > 0 /\ n \in 1..n /\ stack \in Seq(Frames)
      /\ zone \in [Domains -> Answers] /\ lookups \in Nat /\ void \in Nat /\ Rest
  BY <1>1, TopTyped DEF IInv, StackInv, Rest
<1>3. Frame(t) \in Frames /\ Frame(t).domain = t /\ Frame(t).pos = 1
  BY <1>1, <1>2, FrameTyped DEF Frame
<1> HIDE DEF t
<1>4. /\ Len(st) = n + 1 /\ st[n + 1] = Frame(t)
      /\ \A i \in 1..n : st[i] = stack[i]
  BY <1>1, <1>2, <1>3, AppendProperties
<1>5. Enters(zone, stack, st)
  <2>1. Top.pos \in Walked(zone, TopPath, Top.domain)
    BY <1>1, TopLeads DEF Walked, t
  <2>2. t = Record(zone, Top.domain)[Top.pos].target
    BY <1>1, TopTerm DEF t
  <2> QED  BY <1>3, <1>4, <2>1, <2>2 DEF Enters, Top, TopPath
<1>6. WalkInv /\ Problem("lookup_limit", NoDomain) \notin problems
  BY <1>1 DEF TreeInv
<1>7. Linked(zone, stack)
  BY <1>6 DEF WalkInv
<1> HIDE DEF st
<1>8. Linked(zone, st)
  BY <1>2, <1>5, <1>7, EnterLinked
<1>9. TopFee("lookups") = 1 /\ TopFee("void") = 0
  BY <1>1, TopFees DEF t
<1>10. ASSUME NEW k \in Counters PROVE Balanced(k, zone, st, Counter(k)', ~gaveUp)
  <2> DEFINE c == Counter(k)
             c2 == Counter(k)'
  <2>1. c \in Nat /\ c2 \in Nat /\ Balanced(k, zone, stack, c, ~gaveUp)
    BY <1>1, <1>2, <1>6 DEF Counter, WalkInv
  <2>2. c2 = c + TopFee(k)
    BY <1>1, <1>2, <1>9, <1>10 DEF Counter, Counters
  <2>3. c2 = c + Fee(k, zone, PathTo(stack, n), stack[n].domain, stack[n].pos)
    BY <2>2 DEF TopFee, TopPath, Top
  <2> HIDE DEF c, c2
  <2>4. Balanced(k, zone, st, c2, ~gaveUp)
    BY <1>2, <1>5, <1>7, <2>1, <2>3, EnterBalanced
  <2> QED  BY <2>4 DEF c2
<1>11. ASSUME ~gaveUp PROVE Known(zone, st, problems')
  <2>1. Known(zone, stack, problems)
    BY <1>6, <1>11 DEF WalkInv
  <2>2. \A path : AllKnown(zone, path, st[Len(st)]) /\ PassKnown(zone, path, st[Len(st)], problems')
    BY <1>1, <1>2, <1>4, FrameKnown
  <2> QED  BY <1>1, <1>2, <1>5, <1>7, <2>1, <2>2, EnterKnown
<1>12. WalkInv'
  BY <1>1, <1>8, <1>10, <1>11 DEF WalkInv, st
<1>13. Problem("lookup_limit", NoDomain) \notin problems'
  BY <1>6, OtherProblem DEF Enter, IncludeSize, RedundantIPs
<1> QED  BY <1>1, <1>12, <1>13, WalkTree

\* A record is left: what its caller learns of it is its outcome.
LEMMA LeaveTree == IInv /\ TreeInv /\ Leave => TreeInv'
<1> SUFFICES ASSUME IInv, TreeInv, Leave PROVE TreeInv'
  OBVIOUS
<1> DEFINE n == Len(stack)
           m == n - 1
           st == stack'
           g == stack[m]
           f == Resume(g, Top.all)
           path == PathTo(stack, m)
           w == Walked(zone, path, g.domain)
<1>1. /\ main = "walk" /\ main' = "walk" /\ zone' = zone /\ AtEnd(Top) /\ n > 1
      /\ lookups' = lookups /\ void' = void /\ gaveUp' = gaveUp
      /\ st = [SubSeq(stack, 1, n - 1) EXCEPT ![n - 1] = f]
      /\ problems' = problems \union When(TermOf(g).name = "include" /\ Top.all = "+",
                                          Problem("pass_all", Top.domain))
  BY DEF Leave, counts
<1>2. /\ n \in Nat /\ stack \in Seq(Frames) /\ zone \in [Domains -> Answers]
      /\ lookups \in Nat /\ void \in Nat /\ Rest
  BY <1>1, TopTyped DEF IInv, StackInv, Rest
<1>3. m \in Nat /\ m > 0 /\ m \in 1..n /\ n \in 1..n /\ m \in 1..(n - 1) /\ n = m + 1
  BY <1>1, <1>2
<1>4. WalkInv /\ Problem("lookup_limit", NoDomain) \notin problems /\ Linked(zone, stack)
  BY <1>1 DEF TreeInv, WalkInv
<1>5. g \in Frames /\ g.domain \in Domains /\ path \in SUBSET Domains
  <2>1. g \in Frames
    BY <1>2, <1>3
  <2>2. path \in SUBSET Domains
    BY <1>2, <1>3, <1>4, PathTyped
  <2> QED  BY <2>1, <2>2 DEF Frames
<1>6. g.pos \in w /\ stack[n].domain = Record(zone, g.domain)[g.pos].target
  BY <1>3, <1>4 DEF Linked
<1>7. /\ f.domain = g.domain /\ f.pos = g.pos + 1
      /\ TermOf(g).name = "include" => f.all = g.all
      /\ TermOf(g).name # "include" => f.all = Top.all
  BY <1>2, <1>5, ResumeFrame
<1>8. Len(st) = m /\ st[m] = f /\ \A i \in 1..(m - 1) : st[i] = stack[i]
  <2> DEFINE s == SubSeq(stack, 1, m)
  <2>1. DOMAIN s = 1..m /\ Len(s) = m /\ \A i \in 1..m : s[i] = stack[i]
    BY <1>2, <1>3, SubSeqProperties
  <2>2. st = [s EXCEPT ![m] = f]
    BY <1>1
  <2> HIDE DEF s, f, st
  <2>3. st = [i \in 1..m |-> IF i = m THEN f ELSE s[i]]
    BY <2>1, <2>2
  <2> HIDE DEF m
  <2>4. Len(st) = m
    BY <1>3, <2>3
  <2>5. m \in 1..m /\ \A i \in 1..(m - 1) : i \in 1..m /\ i # m
    BY <1>3
  <2> QED  BY <2>1, <2>3, <2>4, <2>5
<1>9. Resumes(stack, st, m)
  BY <1>7, <1>8 DEF Resumes
<1>10. g.pos \in 1..Len(Record(zone, g.domain))
  BY <1>2, <1>5, <1>6, WalkedTyped, RecordTyped
<1>11. stack[n].pos = Len(Record(zone, stack[n].domain)) + 1 /\ stack[n].domain \in Domains
  <2>1. Placed(zone, stack[n]) /\ AtEnd(stack[n])
    BY <1>1, <1>3, <1>4 DEF Linked, Top
  <2>2. stack[n].domain \in Domains
    BY <2>1 DEF Placed
  <2>3. Len(Record(zone, stack[n].domain)) \in Nat
    BY <1>2, <2>2, RecordTyped
  <2> QED  BY <2>1, <2>2, <2>3 DEF Placed, AtEnd, TermsOf, Record
<1> HIDE DEF st, f
<1>12. Linked(zone, st)
  <2> HIDE DEF m
  <2> QED  BY <1>2, <1>3, <1>4, <1>9, <1>10, ResumeLinked
<1>13. ASSUME NEW k \in Counters PROVE Balanced(k, zone, st, Counter(k), ~gaveUp)
  <2>1. Counter(k) \in Nat /\ Balanced(k, zone, stack, Counter(k), ~gaveUp)
    BY <1>2, <1>4 DEF Counter, WalkInv
  <2> QED  BY <1>1, <1>2, <1>4, <1>9, <1>11, <2>1, LeaveBalanced
<1>14. ASSUME ~gaveUp PROVE Known(zone, st, problems')
  <2> DEFINE d == stack[n].domain
             sub == Subs(zone, path, g.domain)
  <2>1. Known(zone, stack, problems)
    BY <1>4, <1>14 DEF WalkInv
  <2>2. PathTo(stack, n) = path \union {d}
    <3>1. 1..n = 1..m \union {n}
      BY <1>3
    <3> QED  BY <3>1 DEF PathTo
  <2>3. sub[g.pos] = Outcome(zone)[PathTo(stack, n)][d]
    <3> DEFINE c == g.domain
               p == g.pos
    <3>1. p \in Walked(zone, path, c) /\ d = Record(zone, c)[p].target
      BY <1>6
    <3>2. c \in Domains /\ path \in SUBSET Domains /\ zone \in [Domains -> Answers]
      BY <1>2, <1>5
    <3> HIDE DEF d, c, p, path
    <3>3. Subs(zone, path, c)[p] =
             Outcome(zone)[path \union {Record(zone, c)[p].target}][Record(zone, c)[p].target]
      BY ONLY <3>1, <3>2, CalleeOutcome
    <3> QED  BY <2>2, <3>1, <3>3 DEF c, p
  <2>4. PathTo(stack, n) \in SUBSET Domains
    BY <1>5, <1>11, <2>2
  <2>5. /\ stack[n].all = sub[g.pos].all
        /\ sub[g.pos].verdict = "+" => PassAll(problems) \/ stack[n].all = "+"
    <3>1. /\ AllKnown(zone, PathTo(stack, n), stack[n])
          /\ PassKnown(zone, PathTo(stack, n), stack[n], problems)
      BY <1>3, <2>1 DEF Known
    <3> QED  BY <1>2, <1>11, <2>3, <2>4, <3>1, EndKnown
  <2>6. Top.all = sub[g.pos].all
    BY <2>5 DEF Top
  <2>7. TermOf(g) = Record(zone, g.domain)[g.pos] /\ TermOf(g).name \in {"include", "redirect"}
    BY <1>6 DEF TermOf, TermsOf, Record, Walked, Leads, Named
  <2>8. g.pos \in Named(Record(zone, g.domain), {"redirect"}) <=> TermOf(g).name = "redirect"
    BY <1>6, <2>7 DEF Walked, Leads, Named
  <2>9. AllKnown(zone, path, g) /\ PassKnown(zone, path, g, problems)
    BY <1>3, <2>1 DEF Known
  <2> HIDE DEF sub
  <2>10. Passes(zone, path, g, f)
    BY <1>6, <1>7, <2>6, <2>7, <2>8 DEF Passes, sub
  <2>11. g.pos \in Nat
    BY <1>5 DEF Frames
  <2>12. AllKnown(zone, path, f)
    BY <1>2, <1>5, <2>9, <2>10, <2>11, AllPassed
  <2>13. TermOf(g).name = "include" /\ Top.all = "+" => PassAll(problems')
    <3> SUFFICES ASSUME TermOf(g).name = "include", Top.all = "+" PROVE PassAll(problems')
      OBVIOUS
    <3>1. Problem("pass_all", Top.domain) \in problems'
      BY <1>1 DEF When
    <3>2. Problem("pass_all", Top.domain).code = "pass_all"
      BY DEF Problem
    <3> QED  BY <3>1, <3>2 DEF PassAll
  <2>14. sub[g.pos].verdict = "+" =>
            PassAll(problems') \/ (TermOf(g).name = "redirect" /\ sub[g.pos].all = "+")
    <3>1. PassAll(problems) => PassAll(problems')
      BY <1>1 DEF PassAll
    <3> QED  BY <2>5, <2>6, <2>7, <2>13, <3>1
  <2>15. PassKnown(zone, path, f, problems')
    <3>1. problems \subseteq problems'
      BY <1>1
    <3> QED  BY <1>2, <1>5, <1>7, <2>7, <2>9, <2>11, <2>14, <3>1, PassPassed DEF sub
  <2>16. problems \subseteq problems'
    BY <1>1
  <2> HIDE DEF m
  <2> QED  BY <1>2, <1>3, <1>8, <1>9, <2>1, <2>12, <2>15, <2>16, ResumeKnown
<1>15. WalkInv'
  <2>1. \A k \in Counters : Counter(k)' = Counter(k)
    BY <1>1 DEF Counter
  <2> QED  BY <1>1, <1>12, <1>13, <1>14, <2>1 DEF WalkInv, st
<1>16. Problem("lookup_limit", NoDomain) \notin problems'
  BY <1>1, <1>4, OtherProblem
<1> QED  BY <1>1, <1>15, <1>16, WalkTree

\* When the apex's record ends, the counter shows what the tree costs.
LEMMA ApexPaid ==
    ASSUME NEW zn \in [Domains -> Answers], NEW k \in Counters, NEW st, Len(st) = 1,
           Linked(zn, st), st[1].pos = Len(Record(zn, Apex)) + 1,
           NEW c \in Nat, NEW e, Balanced(k, zn, st, c, e)
    PROVE  /\ c <= Outcome(zn)[{Apex}][Apex].cost[k]
           /\ e => c = Outcome(zn)[{Apex}][Apex].cost[k]
<1>1. st[1].domain = Apex
  BY DEF Linked
<1>2. PathTo(st, 1) = {Apex} /\ {Apex} \in SUBSET Domains
  <2>1. \A j \in 1..1 : j = 1
    OBVIOUS
  <2>2. 1 \in 1..1
    OBVIOUS
  <2> QED  BY <1>1, <2>1, <2>2 DEF PathTo
<1>3. Owed(k, zn, PathTo(st, Len(st)), st[Len(st)].domain, st[Len(st)].pos) = 0
  BY <1>1, <1>2, OwedEnd
<1>4. PICK due \in [1..Len(st) -> Nat] :
        /\ due[1] = Outcome(zn)[{Apex}][Apex].cost[k]
        /\ c + 0 <= due[Len(st)] /\ (e => c + 0 = due[Len(st)])
  BY <1>3 DEF Balanced
<1>5. due[1] \in Nat /\ c + 0 = c
  BY <1>4
<1> QED  BY <1>4, <1>5

\* The apex's record ends: nothing is owed any more.
LEMMA FinishTree == IInv /\ TreeInv /\ Finish => TreeInv'
<1> SUFFICES ASSUME IInv, TreeInv, Finish PROVE TreeInv'
  OBVIOUS
<1> DEFINE limit == Problem("lookup_limit", NoDomain)
<1>1. /\ main = "walk" /\ main' = "done" /\ zone' = zone /\ AtEnd(Top) /\ Len(stack) = 1
      /\ lookups' = lookups /\ void' = void /\ gaveUp' = gaveUp /\ result'.all = Top.all
      /\ problems' = problems
            \union When(~HasAll(Apex) /\ ~Top.redirected, Problem("no_all", Apex))
            \union NoteAll(Top.all, Top.via)
            \union When(lookups > spfLookupLimit, limit)
            \union When(void > spfVoidLimit, Problem("void_limit", NoDomain))
  BY DEF Finish, counts
<1>2. zone \in [Domains -> Answers] /\ lookups \in Nat /\ void \in Nat
  BY DEF IInv, Rest
<1>3. WalkInv /\ limit \notin problems /\ Linked(zone, stack)
  BY <1>1 DEF TreeInv, WalkInv
<1>4. Top = stack[1] /\ Top.domain = Apex /\ TopPath = {Apex} /\ {Apex} \in SUBSET Domains
  <2>1. Top = stack[1] /\ stack[1].domain = Apex
    BY <1>1, <1>3 DEF Top, Linked
  <2>2. \A j \in 1..1 : j = 1
    OBVIOUS
  <2>3. 1 \in 1..1
    OBVIOUS
  <2> QED  BY <1>1, <2>1, <2>2, <2>3 DEF TopPath, PathTo
<1>5. Top.pos = Len(Record(zone, Apex)) + 1
  <2>1. Placed(zone, stack[1])
    BY <1>1, <1>3 DEF Linked
  <2>2. Len(Record(zone, Apex)) \in Nat
    BY <1>2, RecordTyped
  <2> QED  BY <1>1, <1>4, <2>1, <2>2 DEF Placed, AtEnd, TermsOf, Record
<1>6. Reference' = Reference /\ Reference = Outcome(zone)[{Apex}][Apex]
  BY <1>1 DEF Reference
<1>7. ASSUME NEW k \in Counters
      PROVE  /\ Counter(k)' <= Reference.cost[k]
             /\ ~gaveUp => Counter(k)' = Reference.cost[k]
  <2> DEFINE c == Counter(k)
             exact == ~gaveUp
  <2>1. c \in Nat /\ Balanced(k, zone, stack, c, exact) /\ Counter(k)' = c
    BY <1>1, <1>2, <1>3 DEF Counter, WalkInv
  <2>2. stack[1].pos = Len(Record(zone, Apex)) + 1
    BY <1>4, <1>5
  <2> HIDE DEF c, exact
  <2>3. c <= Outcome(zone)[{Apex}][Apex].cost[k]
        /\ (exact => c = Outcome(zone)[{Apex}][Apex].cost[k])
    <3>1. /\ zone \in [Domains -> Answers] /\ k \in Counters
          /\ Len(stack) = 1 /\ Linked(zone, stack)
      BY <1>1, <1>2, <1>3
    <3> QED  BY ONLY <2>1, <2>2, <3>1, ApexPaid
  <2> QED  BY <1>6, <2>1, <2>3 DEF exact
<1>8. limit \in problems' <=> lookups > spfLookupLimit
  <2>1. limit \notin When(~HasAll(Apex) /\ ~Top.redirected, Problem("no_all", Apex))
        /\ limit \notin When(void > spfVoidLimit, Problem("void_limit", NoDomain))
        /\ limit \notin NoteAll(Top.all, Top.via)
    BY OtherProblem DEF NoteAll
  <2>2. limit \in When(lookups > spfLookupLimit, limit) <=> lookups > spfLookupLimit
    BY DEF When
  <2> HIDE DEF limit
  <2> QED  BY <1>1, <1>3, <2>1, <2>2
<1>9. ASSUME ~gaveUp
      PROVE  Top.all = Reference.all /\ (Reference.verdict = "+" => PassAll(problems'))
  <2>1. AllKnown(zone, {Apex}, Top) /\ PassKnown(zone, {Apex}, Top, problems)
    <3>1. Known(zone, stack, problems) /\ 1 \in 1..Len(stack)
      BY <1>1, <1>3, <1>9 DEF WalkInv
    <3>2. PathTo(stack, 1) = {Apex}
      BY <1>1, <1>4 DEF TopPath
    <3> QED  BY <1>4, <3>1, <3>2 DEF Known
  <2>2. /\ Top.all = Outcome(zone)[{Apex}][Top.domain].all
        /\ Outcome(zone)[{Apex}][Top.domain].verdict = "+" => PassAll(problems) \/ Top.all = "+"
    BY <1>2, <1>4, <1>5, <2>1, EndKnown
  <2>3. PassAll(problems) => PassAll(problems')
    BY <1>1 DEF PassAll
  <2>4. Top.all = "+" => PassAll(problems')
    <3> SUFFICES ASSUME Top.all = "+" PROVE PassAll(problems')
      OBVIOUS
    <3>1. Problem("pass_all", Top.via) \in problems'
      BY <1>1 DEF NoteAll, When
    <3>2. Problem("pass_all", Top.via).code = "pass_all"
      BY DEF Problem
    <3> QED  BY <3>1, <3>2 DEF PassAll
  <2> QED  BY <1>4, <1>6, <2>2, <2>3, <2>4
<1>10. EndInv'
  <2>1. gaveUp' = gaveUp /\ lookups' = lookups /\ result'.all = Top.all
    BY <1>1
  <2> QED  BY <1>6, <1>7, <1>8, <1>9, <2>1 DEF EndInv
<1> QED  BY <1>1, <1>10 DEF TreeInv

\* Before the evaluation nothing is counted and nothing reported.
LEMMA InitTree == Init => TreeInv
  BY DEF Init, TreeInv, Evaluated

\* Every step keeps the tree invariant.
LEMMA NextTree == IInv /\ TreeInv /\ [Next]_vars => TreeInv'
<1> SUFFICES ASSUME IInv, TreeInv, [Next]_vars PROVE TreeInv'
  OBVIOUS
<1>1. CASE NoRecord
  BY <1>1 DEF NoRecord, TreeInv, Evaluated
<1>2. CASE Done \/ UNCHANGED vars
  <2>1. UNCHANGED <<zone, main, stack, lookups, void, gaveUp, problems, result>>
    BY <1>2 DEF Done, vars, counts
  <2>2. WalkInv <=> WalkInv'
    BY <2>1 DEF WalkInv, Counter
  <2>3. EndInv <=> EndInv'
    BY <2>1 DEF EndInv, Counter, Reference
  <2> QED  BY <2>1, <2>2, <2>3 DEF TreeInv, Evaluated
<1> QED
  BY <1>1, <1>2, EvaluateTree, IgnoreRedirectTree, PlainTermTree, CallTree, GiveUpTree,
     NoAnswerTree, EnterTree, LeaveTree, FinishTree
  DEF Next

\* The walk of checkSPF follows the tree of the reference throughout.
THEOREM TreeInvariance == Spec => []TreeInv
<1>1. Init => TreeInv
  BY InitTree
<1>2. IInv /\ TreeInv /\ [Next]_vars => TreeInv'
  BY NextTree
<1> QED  BY <1>1, <1>2, Invariance, PTL DEF Spec

\* The walk charges what the tree of includes and redirects costs, for every
\* zone: it reports "over the limit" of exactly the trees that are, even of
\* those descend gives up on, and the all of evaluateSPF is the policy's.
THEOREM ChargesAreExact == Spec => []ChargesMatch
<1>1. IInv /\ TreeInv => ChargesMatch
  <2> SUFFICES ASSUME IInv, TreeInv, Evaluated
               PROVE  /\ Problem("lookup_limit", NoDomain) \in problems
                              <=> Reference.cost["lookups"] > spfLookupLimit
                      /\ ~gaveUp => /\ lookups = Reference.cost["lookups"]
                                    /\ void = Reference.cost["void"]
                                    /\ result.all = Reference.all
    BY DEF ChargesMatch
  <2>1. EndInv /\ lookups \in Nat
    BY DEF TreeInv, IInv, Rest
  <2>2. /\ lookups <= Reference.cost["lookups"]
        /\ ~gaveUp => lookups = Reference.cost["lookups"] /\ void = Reference.cost["void"]
    BY <2>1 DEF EndInv, Counter, Counters
  <2>3. Reference.cost["lookups"] \in Nat
    <3>1. zone \in [Domains -> Answers] /\ {Apex} \in SUBSET Domains
      BY DEF IInv, Rest
    <3> QED  BY <3>1, OwedStart DEF Reference, Counters
  <2>4. gaveUp => lookups > spfLookupLimit
    BY DEF IInv, CountInv
  <2>5. Problem("lookup_limit", NoDomain) \in problems <=> lookups > spfLookupLimit
    BY <2>1 DEF EndInv
  <2>6. lookups > spfLookupLimit <=> Reference.cost["lookups"] > spfLookupLimit
    BY <2>1, <2>2, <2>3, <2>4
  <2>7. ~gaveUp => result.all = Reference.all
    BY <2>1 DEF EndInv
  <2> QED  BY <2>2, <2>5, <2>6, <2>7
<1> QED  BY <1>1, Invariance, TreeInvariance, PTL

\* A policy that passes every sender, through any chain of includes and
\* redirects, is reported as pass_all by noteAll or by include.
THEOREM PassAllIsFound == Spec => []PassAllFound
<1>1. TreeInv => PassAllFound
  BY DEF TreeInv, EndInv, PassAllFound, PassAll
<1> QED  BY <1>1, TreeInvariance, PTL
=============================================================================
