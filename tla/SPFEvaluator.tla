---------------------------- MODULE SPFEvaluator ----------------------------
(***************************************************************************)
(* The evaluation of a domain's SPF policy (mail.go, spfEvaluator): the    *)
(* walk over the terms of its record and, through includes and redirects,  *)
(* of other domains' records, with the counts and the limits of RFC 7208.  *)
(*                                                                         *)
(* The recursion of walk and descend is the stack: a frame per record      *)
(* being walked, the apex first.  The lookups are memoised, so a domain    *)
(* gives the same answer however often it is asked.                        *)
(***************************************************************************)
EXTENDS Integers, Sequences, FiniteSets

CONSTANTS
    Domains,         \* domain names
    Apex,            \* the domain under test
    Addrs,           \* addresses, for ip4 and ip6
    Zones,           \* the TXT answers to consider: functions from Domains
    spfLookupLimit,  \* RFC 7208's limit on DNS-querying terms
    spfVoidLimit,    \* and on void lookups
    PathLimit,       \* the depth at which descend gives up
    NoDomain         \* not a domain

Quals == {"+", "-", "~", "?"}

\* A term: "a" stands for a, mx and exists, "ip" for ip4 and ip6, "modifier"
\* for a modifier other than redirect.  A target is a domain, or one that is
\* not looked up: a macro (or empty), or not a domain name.
Terms == [name: {"a", "ptr", "ip", "all", "include", "redirect", "modifier", "unknown"},
          qual: Quals, target: Domains \union {NoDomain}, macro: BOOLEAN,
          prefix: SUBSET Addrs]

\* A TXT answer: no answer, none with records, records without SPF, or SPF.
Answers == [status: {"unanswered", "void", "other", "spf"}, records: 0..2,
            size: {"fits", "near", "over"}, terms: Seq(Terms)]

ASSUME ZonesAssumption == Apex \in Domains /\ NoDomain \notin Domains
                          /\ \A z \in Zones : z \in [Domains -> Answers]
ASSUME LimitsAssumption == /\ spfLookupLimit \in Nat \ {0} /\ spfVoidLimit \in Nat
                           /\ PathLimit \in Nat /\ spfLookupLimit <= PathLimit

VARIABLES
    zone,      \* the TXT answers
    main,      \* where evaluateSPF is
    stack,     \* the calls of walk
    lookups, void, includes, problems,  \* of spfEvaluator
    result,    \* SPFResult.All, and what led to it
    queries,   \* lookups of other domains' TXT records
    gaveUp     \* descend found the tree pathological

counts == <<lookups, void, includes, queries, gaveUp>>
vars   == <<zone, main, stack, counts, problems, result>>

-----------------------------------------------------------------------------
(* Records *)

TermsOf(d) == zone[d].terms

\* recordAll: the qualifier of the first all.
HasAll(d)    == \E i \in DOMAIN TermsOf(d) : TermsOf(d)[i].name = "all"
FirstAll(d)  == CHOOSE i \in DOMAIN TermsOf(d) :
                    /\ TermsOf(d)[i].name = "all"
                    /\ \A j \in 1..(i - 1) : TermsOf(d)[j].name # "all"
RecordAll(d) == IF HasAll(d) THEN TermsOf(d)[FirstAll(d)].qual ELSE "none"

\* Mutant: of two equal prefixes both are named.
CoversEqual(d, j, i) ==
    LET p == TermsOf(d)[i]
        q == TermsOf(d)[j]
    IN  i # j /\ q.name = "ip" /\ p.qual = q.qual /\ p.prefix \subseteq q.prefix

\* redundantIPs: prefix j makes prefix i redundant; of two equal ones only
\* the later is named.
Covers(d, j, i) ==
    LET p == TermsOf(d)[i]
        q == TermsOf(d)[j]
    IN  /\ i # j /\ q.name = "ip" /\ p.qual = q.qual /\ p.prefix \subseteq q.prefix
        /\ p.prefix = q.prefix => j < i

Redundant(d) == {i \in DOMAIN TermsOf(d) :
                    TermsOf(d)[i].name = "ip" /\ \E j \in DOMAIN TermsOf(d) : Covers(d, j, i)}

\* A problem: its class, and the domain or target it names.
Problem(code, at)   == [code |-> code, at |-> at]
When(condition, p)  == IF condition THEN {p} ELSE {}
RedundantIPs(d)     == When(Redundant(d) # {}, Problem("redundant_ip", d))

\* apexSize, includeSize.
ApexSize ==
    When(zone[Apex].size = "over", Problem("over_udp_limit", Apex))
    \union When(zone[Apex].size = "near", Problem("near_udp_limit", Apex))
IncludeSize(d) == When(zone[d].size = "over", Problem("include_over_udp_limit", d))

NoteAll(qual, via) ==
    When(qual = "+", Problem("pass_all", via))
    \union When(qual = "?", Problem("neutral_all", via))

-----------------------------------------------------------------------------
(* The walk *)

Frame(d) == [domain |-> d, pos |-> 1, all |-> RecordAll(d), via |-> NoDomain,
             redirected |-> FALSE]

Top      == stack[Len(stack)]
AtEnd(f) == f.pos > Len(TermsOf(f.domain))
TermOf(f) == TermsOf(f.domain)[f.pos]
Term     == TermOf(Top)
SetTop(f) == [stack EXCEPT ![Len(stack)] = f]

Init ==
    /\ zone \in Zones
    /\ main = "start"
    /\ stack = <<>>
    /\ lookups = 0 /\ void = 0 /\ queries = 0
    /\ includes = {} /\ problems = {}
    /\ result = [all |-> "none", via |-> NoDomain]
    /\ gaveUp = FALSE

NoRecord ==
    /\ main = "start"
    /\ zone[Apex].status # "spf"
    /\ main' = "done"
    /\ UNCHANGED <<zone, stack, counts, problems, result>>

EvaluateSPF ==
    /\ main = "start"
    /\ zone[Apex].status = "spf"
    /\ problems' = When(zone[Apex].records > 1, Problem("multiple", Apex))
                   \union ApexSize \union RedundantIPs(Apex)
    /\ stack' = <<Frame(Apex)>>
    /\ main' = "walk"
    /\ UNCHANGED <<zone, counts, result>>

Walking == main = "walk" /\ ~AtEnd(Top)

\* walk passes over a redirect beside an all.
Ignored == Term.name = "redirect" /\ HasAll(Top.domain)

IgnoreRedirect ==
    /\ Walking
    /\ Ignored
    /\ stack' = SetTop([Top EXCEPT !.pos = @ + 1, !.redirected = TRUE])
    /\ UNCHANGED <<zone, main, counts, problems, result>>

\* mechanism and term, for what names no other record.
PlainTerm ==
    /\ Walking
    /\ Term.name \notin {"include", "redirect"}
    /\ lookups' = IF Term.name \in {"a", "ptr"} THEN lookups + 1 ELSE lookups
    /\ problems' = problems \union When(Term.name = "ptr", Problem("ptr_deprecated", NoDomain))
                            \union When(Term.name = "unknown",
                                        Problem("unknown_mechanism", Top.domain))
    /\ stack' = SetTop([Top EXCEPT !.pos = @ + 1])
    /\ UNCHANGED <<zone, main, void, includes, queries, gaveUp, result>>

-----------------------------------------------------------------------------
(* descend, from an include or a redirect *)

Calls == Walking /\ Term.name \in {"include", "redirect"} /\ ~Ignored

\* The frame after its include or redirect ended with the given all.
Resume(f, all) ==
    IF TermOf(f).name = "include"
    THEN [f EXCEPT !.pos = @ + 1]
    ELSE [f EXCEPT !.pos = @ + 1, !.redirected = TRUE, !.all = all,
                   !.via = IF all = "none" THEN NoDomain ELSE TermOf(f).target]

\* descend returns without walking the target's record.
Skip(found) ==
    /\ lookups' = lookups + 1
    /\ problems' = problems \union found
    /\ stack' = SetTop(Resume(Top, "none"))
    /\ UNCHANGED <<zone, main, result>>

MacroTarget ==
    /\ Calls
    /\ Term.macro
    /\ Skip({})
    /\ UNCHANGED <<void, includes, queries, gaveUp>>

InvalidTarget ==
    /\ Calls
    /\ ~Term.macro /\ Term.target \notin Domains
    /\ Skip({Problem("include_invalid", Term.target)})
    /\ UNCHANGED <<void, includes, queries, gaveUp>>

\* Mutant: a domain is evaluated once.
OnPathEver(d) == d \in includes \/ \E i \in DOMAIN stack : stack[i].domain = d

OnPath(d) == \E i \in DOMAIN stack : stack[i].domain = d

IncludeLoop ==
    /\ Calls
    /\ ~Term.macro /\ Term.target \in Domains /\ OnPath(Term.target)
    /\ Skip({Problem("include_loop", Term.target)})
    /\ UNCHANGED <<void, includes, queries, gaveUp>>

Descends == Calls /\ ~Term.macro /\ Term.target \in Domains /\ ~OnPath(Term.target)

\* Mutant: only the depth is limited.
PathologicalDeep == Len(stack) > PathLimit

Pathological == lookups + 1 > 3 * spfLookupLimit \/ Len(stack) > PathLimit

NoteInclude == includes' = includes \union {Term.target}

GiveUp ==
    /\ Descends
    /\ Pathological
    /\ NoteInclude
    /\ gaveUp' = TRUE
    /\ Skip({})
    /\ UNCHANGED <<void, queries>>

Asks == Descends /\ ~Pathological /\ NoteInclude /\ queries' = queries + 1

Unchecked ==
    /\ Asks
    /\ zone[Term.target].status = "unanswered"
    /\ Skip({Problem("include_unchecked", Term.target)})
    /\ UNCHANGED <<void, gaveUp>>

Missing ==
    /\ Asks
    /\ zone[Term.target].status \in {"void", "other"}
    /\ void' = IF zone[Term.target].status = "void" THEN void + 1 ELSE void
    /\ Skip({Problem("include_missing", Term.target)})
    /\ UNCHANGED gaveUp

Enter ==
    /\ Asks
    /\ zone[Term.target].status = "spf"
    /\ lookups' = lookups + 1
    /\ problems' = problems \union IncludeSize(Term.target) \union RedundantIPs(Term.target)
    /\ stack' = Append(stack, Frame(Term.target))
    /\ UNCHANGED <<zone, main, void, gaveUp, result>>

\* Mutant: what an included record ends with is looked at in the apex only.
LeaveApexOnly ==
    /\ main = "walk" /\ AtEnd(Top) /\ Len(stack) > 1
    /\ LET caller == stack[Len(stack) - 1]
       IN  /\ stack' = [SubSeq(stack, 1, Len(stack) - 1) EXCEPT
                            ![Len(stack) - 1] = Resume(caller, Top.all)]
           /\ problems' = problems \union
                When(TermOf(caller).name = "include" /\ Top.all = "+" /\ Len(stack) = 2,
                     Problem("pass_all", Top.domain))
    /\ UNCHANGED <<zone, main, counts, result>>

\* The walk of a record ends: its caller goes on with its all.
Leave ==
    /\ main = "walk" /\ AtEnd(Top) /\ Len(stack) > 1
    /\ LET caller == stack[Len(stack) - 1]
       IN  /\ stack' = [SubSeq(stack, 1, Len(stack) - 1) EXCEPT
                            ![Len(stack) - 1] = Resume(caller, Top.all)]
           /\ problems' = problems \union
                When(TermOf(caller).name = "include" /\ Top.all = "+",
                     Problem("pass_all", Top.domain))
    /\ UNCHANGED <<zone, main, counts, result>>

\* The apex record ends: the verdicts on the whole.
Finish ==
    /\ main = "walk" /\ AtEnd(Top) /\ Len(stack) = 1
    /\ problems' = problems
            \union When(~HasAll(Apex) /\ ~Top.redirected, Problem("no_all", Apex))
            \union NoteAll(Top.all, Top.via)
            \union When(lookups > spfLookupLimit, Problem("lookup_limit", NoDomain))
            \union When(void > spfVoidLimit, Problem("void_limit", NoDomain))
    /\ result' = [all |-> Top.all, via |-> Top.via]
    /\ stack' = <<>>
    /\ main' = "done"
    /\ UNCHANGED <<zone, counts>>

Done == main = "done" /\ UNCHANGED vars

-----------------------------------------------------------------------------
Next ==
    \/ NoRecord \/ EvaluateSPF
    \/ IgnoreRedirect \/ PlainTerm
    \/ MacroTarget \/ InvalidTarget \/ IncludeLoop \/ GiveUp
    \/ Unchecked \/ Missing \/ Enter
    \/ Leave \/ Finish
    \/ Done

Spec == Init /\ [][Next]_vars

-----------------------------------------------------------------------------
(* Properties *)

Frames == [domain: Domains, pos: Nat \ {0}, all: Quals \union {"none"},
           via: Domains \union {NoDomain}, redirected: BOOLEAN]

\* Every variable has its type, and the walk never gets deeper than the limit
\* of descend.
TypeOK ==
    /\ zone \in [Domains -> Answers]
    /\ main \in {"start", "walk", "done"}
    /\ stack \in Seq(Frames) /\ Len(stack) <= PathLimit + 1
    /\ main = "walk" <=> stack # <<>>
    /\ lookups \in Nat /\ void \in Nat /\ queries \in Nat
    /\ includes \subseteq Domains
    /\ gaveUp \in BOOLEAN
    /\ result.all \in Quals \union {"none"}

\* No domain is evaluated inside its own evaluation, however long the way
\* round (descend: "only the current path is remembered, to stop a loop").
LoopFree ==
    \A i, j \in DOMAIN stack : i # j => stack[i].domain # stack[j].domain

\* A tree that descend gives up on is reported as over the lookup limit:
\* nothing left out goes untold ("the limit finding already fires").
LimitTold ==
    gaveUp => /\ lookups > spfLookupLimit
              /\ main = "done" => Problem("lookup_limit", NoDomain) \in problems

\* However an include tree fans out, it costs the run no more than three
\* times the limit in TXT lookups.
QueriesBounded == queries <= 3 * spfLookupLimit

\* The ip terms of a record that match an address, and the first of some terms.
IPMatches(d, address) ==
    {i \in DOMAIN TermsOf(d) : TermsOf(d)[i].name = "ip" /\ address \in TermsOf(d)[i].prefix}
FirstOf(terms) == CHOOSE i \in terms : \A j \in terms : i <= j

\* What redundantIPs names could go: every address the ip terms match is still
\* matched by one that is not named, and first by one of the same qualifier.
\* The one exception is a term of another qualifier, left standing between the
\* term that matched and a term of its qualifier that covers it: then the
\* prefix is named although it decides ("+ip4:1.2.3.4 -ip4:1.2.3.0/24
\* +ip4:1.2.0.0/16"; redundantIPs compares prefixes, not their order).
RedundantRemovable ==
    \A n \in DOMAIN stack :
        LET d       == stack[n].domain
            qual(i) == TermsOf(d)[i].qual
        IN  \A i \in DOMAIN TermsOf(d) : \A address \in TermsOf(d)[i].prefix :
                LET all  == IPMatches(d, address)
                    left == all \ Redundant(d)
                IN  all # {} =>
                        /\ left # {}
                        /\ \/ qual(FirstOf(left)) = qual(FirstOf(all))
                           \/ \E c \in left : /\ FirstOf(all) < FirstOf(left) /\ FirstOf(left) < c
                                              /\ qual(c) = qual(FirstOf(all))
=============================================================================
