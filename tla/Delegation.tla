----------------------------- MODULE Delegation -----------------------------
(***************************************************************************)
(* The delegation trace (trace.go): what a `dig +trace' output says of the *)
(* name's delegation.  An output is a sequence of blocks, one response     *)
(* each, read as                                                           *)
(*   ns      the NS names it gives for the domain (nsFor),                 *)
(*   soa     whose SOA it carries: the domain's own, another, or none,     *)
(*   server  who sent it; "" if the output ends before its Received line.  *)
(***************************************************************************)
EXTENDS Naturals, Sequences

Block(ns, soa, server) == [ns |-> ns, soa |-> soa, server |-> server]

\* A Delegation, without the sets that only its messages show.
Deleg(status, ns, server) == [status |-> status, parentNS |-> ns, parentServer |-> server]

\* Without an NS answer, a SOA at the end of the trace is the parent's denial.
classifyNoNS(blocks) ==
    IF blocks # <<>> /\ blocks[Len(blocks)].soa # "none"
    THEN Deleg("not_delegated", {}, blocks[Len(blocks)].server)
    ELSE Deleg("error", {}, "")

\* The blocks that answer with NS records, and the last of them.
NSBlocks(blocks) == {i \in 1..Len(blocks) : blocks[i].ns # {}}
LastNS(blocks)   == CHOOSE i \in NSBlocks(blocks) : \A j \in NSBlocks(blocks) : j <= i
FirstNS(blocks)  == CHOOSE i \in NSBlocks(blocks) : \A j \in NSBlocks(blocks) : i <= j

\* A delegated server answered with the domain's SOA and no NS.
soaOnlyChild(blocks) == \E i \in (LastNS(blocks) + 1)..Len(blocks) : blocks[i].soa = "own"

\* The one NS answer is the child's own if its sender is among the names,
\* else a referral nobody followed up.
classifySingleBlock(b) ==
    Deleg(IF b.server \in b.ns THEN "same_servers" ELSE "no_child_answer", b.ns, b.server)

compareDelegation(blocks) ==
    IF NSBlocks(blocks) = {} THEN classifyNoNS(blocks)
    ELSE LET parent == blocks[FirstNS(blocks)]
             child  == blocks[LastNS(blocks)]
         IN  CASE FirstNS(blocks) # LastNS(blocks) ->
                      Deleg(IF parent.ns = child.ns THEN "match" ELSE "mismatch",
                            parent.ns, parent.server)
               [] FirstNS(blocks) = LastNS(blocks) /\ soaOnlyChild(blocks) ->
                      Deleg("child_no_ns", parent.ns, parent.server)
               [] OTHER -> classifySingleBlock(parent)

\* Mutant: the sender of the referral is not asked.
TraceOnly(blocks, aa) == compareDelegation(blocks)

\* traceDelegation asks the sender of an unfollowed referral itself: an
\* authoritative answer (aa) means that it also hosts the child.
traceDelegation(blocks, aa) ==
    LET d == compareDelegation(blocks)
    IN  IF d.status = "no_child_answer" /\ d.parentServer # "" /\ aa
        THEN [d EXCEPT !.status = "same_servers"]
        ELSE d

\* What is left of an output that is cut short: any prefix of its blocks, the
\* last perhaps without the line that names its sender (parseTrace).
CutShort(blocks) ==
    LET prefixes == {SubSeq(blocks, 1, n) : n \in 0..Len(blocks)}
    IN  prefixes \union {[p EXCEPT ![Len(p)].server = ""] : p \in prefixes \ {<<>>}}
=============================================================================
