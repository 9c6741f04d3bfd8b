--------------------------- MODULE MCSPFEvaluator ---------------------------
(***************************************************************************)
(* SPFEvaluator and SPFReference for TLC: the zones they are run on.       *)
(***************************************************************************)
EXTENDS SPFReference, TLC

CONSTANTS x, y, z

(* Zones *)

T(name, qual, target) ==
    [name |-> name, qual |-> qual, target |-> target, macro |-> FALSE, prefix |-> {}]
Plain(name) == T(name, "+", NoDomain)
All(qual)   == T("all", qual, NoDomain)
Inc(d)      == T("include", "+", d)
Red(d)      == T("redirect", "+", d)
IP(q, p)    == [T("ip", q, NoDomain) EXCEPT !.prefix = p]
Macro       == [Inc(NoDomain) EXCEPT !.macro = TRUE]

SPF(terms)      == [status |-> "spf", records |-> 1, size |-> "fits", terms |-> terms]
NoSPF(status)   == [status |-> status, records |-> 0, size |-> "fits", terms |-> <<>>]
UpTo2(ts)       == {SPF(s) : s \in {<<>>} \union {<<t>> : t \in ts} \union (ts \X ts)}

\* Chains of includes and redirects: apex to x to y to z, with branches, ways
\* back and records that end it.
Chains ==
    {Apex :> a @@ x :> b @@ y :> c @@ z :> d :
        a \in UpTo2({Inc(x), T("include", "-", x), Inc(y), Red(x), All("-")})
                \union {SPF(<<Inc(x), Inc(y), Inc(x)>>)},
        b \in UpTo2({Inc(y), Red(y), Inc(Apex), All("+")}) \union {NoSPF("unanswered")},
        c \in UpTo2({Inc(z), Red(x), All("?")}) \union {NoSPF("void")},
        d \in {SPF(<<All("+")>>), SPF(<<Plain("a"), Plain("ptr")>>), NoSPF("void"), NoSPF("other")}}

\* Everything else a record can hold, in an apex that includes x.
Oddities ==
    {Apex :> [SPF(<<s, t, Inc(x), u>>) EXCEPT !.records = n, !.size = size]
     @@ x :> [SPF(<<t, u>>) EXCEPT !.size = size] @@ y :> NoSPF("other") @@ z :> NoSPF("void") :
        s \in {Macro, Inc(NoDomain), Plain("unknown"), Plain("modifier"), IP("-", {1, 2}),
               IP("+", {1})},
        t \in {IP("+", {1}), IP("+", {1, 2}), IP("-", {1})},
        u \in {IP("+", {1}), IP("+", {1, 2}), IP("-", {1, 2})},
        n \in 1..2, size \in {"fits", "near", "over"}}

Unpublished == {Apex :> NoSPF(s) @@ x :> NoSPF(s) @@ y :> NoSPF(s) @@ z :> NoSPF(s) :
                    s \in {"unanswered", "void", "other"}}

MCZones == Chains \union Oddities \union Unpublished
=============================================================================
