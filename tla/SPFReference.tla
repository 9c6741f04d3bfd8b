---------------------------- MODULE SPFReference ----------------------------
(***************************************************************************)
(* What RFC 7208 makes of a domain's SPF policy, by recursion over the     *)
(* tree of includes and redirects instead of a walk, and the properties    *)
(* that hold the walk of SPFEvaluator against it.                          *)
(*                                                                         *)
(* A record is reached along a path of domains, its own included; a way    *)
(* back into the path is cut.  Everything is a function of the zone zn.    *)
(***************************************************************************)
EXTENDS SPFEvaluator

\* Names have at most 255 octets, so there are finitely many.
ASSUME DomainsAssumption == IsFiniteSet(Domains)

\* The sum of a sequence of numbers from each position on, and as a whole.
SumFrom(s) ==
    LET from[i \in 1..(Len(s) + 1)] == IF i > Len(s) THEN 0 ELSE s[i] + from[i + 1]
    IN  from
Total(s) == SumFrom(s)[1]

Earliest(S) == CHOOSE i \in S : \A j \in S : i <= j
Latest(S)   == CHOOSE i \in S : \A j \in S : j <= i

-----------------------------------------------------------------------------
(* Records *)

Record(zn, d) == zn[d].terms

\* The terms with one of the names; beside an all a redirect counts for
\* nothing.
Named(ts, names) ==
    {i \in DOMAIN ts : /\ ts[i].name \in names
                       /\ ts[i].name = "redirect" => \A j \in DOMAIN ts : ts[j].name # "all"}

\* The terms that lead to another record, or would if there were one: those
\* whose target has the status and is not on the path.
Leads(zn, path, d, status) ==
    LET ts == Record(zn, d)
    IN  {i \in Named(ts, {"include", "redirect"}) :
            /\ ~ts[i].macro /\ ts[i].target \in Domains \ path
            /\ zn[ts[i].target].status = status}
Walked(zn, path, d) == Leads(zn, path, d, "spf")

-----------------------------------------------------------------------------
(* Outcomes *)

Counters == {"lookups", "void"}

\* What a record costs with everything below it, the all that ends it, and
\* its result for a sender whom no address matches.
Outcomes == [cost: [Counters -> Nat], all: Quals \union {"none"}, verdict: Quals \union {"none"}]

\* What a term costs by itself.
Fee(k, zn, path, d, i) ==
    IF \/ k = "lookups" /\ i \in Named(Record(zn, d), {"a", "ptr", "include", "redirect"})
       \/ k = "void" /\ i \in Leads(zn, path, d, "void")
    THEN 1 ELSE 0

\* What each term costs, given the outcomes sub of the records below.
Prices(k, zn, path, d, sub) ==
    [i \in DOMAIN Record(zn, d) |->
        Fee(k, zn, path, d, i) + IF i \in Walked(zn, path, d) THEN sub[i].cost[k] ELSE 0]

\* The terms that match every sender: all, and an include of a record that
\* passes every sender.
Matching(zn, path, d, sub) ==
    Named(Record(zn, d), {"all"})
    \union {i \in Walked(zn, path, d) :
                Record(zn, d)[i].name = "include" /\ sub[i].verdict = "+"}

\* The redirect that takes effect, and whether its target has a record.
Redirect(zn, d) == Latest(Named(Record(zn, d), {"redirect"}))
Redirected(zn, path, d) ==
    Named(Record(zn, d), {"redirect"}) # {} /\ Redirect(zn, d) \in Walked(zn, path, d)

\* A record ends with its own all or with that of its redirect; its result is
\* the qualifier of the first term that matches, or the redirect's result.
Combine(zn, path, d, sub) ==
    LET ts       == Record(zn, d)
        alls     == Named(ts, {"all"})
        matching == Matching(zn, path, d, sub)
    IN  [cost    |-> [k \in Counters |-> Total(Prices(k, zn, path, d, sub))],
         all     |-> IF alls # {} THEN ts[Earliest(alls)].qual
                     ELSE IF Redirected(zn, path, d) THEN sub[Redirect(zn, d)].all ELSE "none",
         verdict |-> IF matching # {} THEN ts[Earliest(matching)].qual
                     ELSE IF Redirected(zn, path, d) THEN sub[Redirect(zn, d)].verdict
                     ELSE "none"]

\* The outcomes of the records that d's refers to, taken from those of the
\* longer paths.
Below(zn, path, d, of) ==
    [i \in Walked(zn, path, d) |->
        LET t == Record(zn, d)[i].target IN of[path \union {t}][t]]

\* The outcome of every record along every path.
Outcome(zn) ==
    LET of[path \in SUBSET Domains] ==
            [d \in Domains |-> Combine(zn, path, d, Below(zn, path, d, of))]
    IN  of

Reference == Outcome(zone)[{Apex}][Apex]

-----------------------------------------------------------------------------
(* Properties *)

Evaluated == main = "done" /\ zone[Apex].status = "spf"

\* The walk counts what the include tree costs, "a domain included twice
\* twice", and says "over the limit" of exactly the trees that are, even of
\* those it gives up on; the all it reports is the one that ends the record.
ChargesMatch ==
    LET ref == Reference
    IN  Evaluated =>
            /\ Problem("lookup_limit", NoDomain) \in problems
                    <=> ref.cost["lookups"] > spfLookupLimit
            /\ ~gaveUp => /\ lookups = ref.cost["lookups"]
                          /\ void = ref.cost["void"]
                          /\ result.all = ref.all

\* A policy that passes every sender is reported, through however many
\* includes and redirects ("judged as if the apex said it").
PassAllFound ==
    Evaluated /\ ~gaveUp /\ Reference.verdict = "+" =>
        \E p \in problems : p.code = "pass_all"

(* What the code says, and does not do *)

\* "+all authorises every sender (no protection)", and of an include that
\* ends so: "matches every sender, so the including record authorises them
\* all".
PassAllAuthorises ==
    Evaluated /\ ~gaveUp /\ (\E p \in problems : p.code = "pass_all") =>
        Reference.verdict = "+"
=============================================================================
