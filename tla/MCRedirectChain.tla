--------------------------- MODULE MCRedirectChain ---------------------------
(* The entry URL, another spelling of it and one with a token in its query;  *)
(* an https page, the www host, an external host over http and a mailto: URL.*)
(* Over the limit: the entry URL with a long token, which is cut within the  *)
(* query, a URL with a long path, and a Location that does not parse for     *)
(* something behind the cut.                                                 *)
EXTENDS RedirectChain, TLC

MCURLs == {"h", "h2", "hq", "hl", "s", "w", "x", "m", "p"}
MCBads == {"b", "bl"}
MCLong == {"hl", "p", "bl"}
MCClips == {"hl...", "p...", "bl..."}
MCClip == [u \in Long |-> CASE u = "hl" -> "hl..." [] u = "p" -> "p..." [] u = "bl" -> "bl..."]
MCKey == [u \in URLs |-> IF u = "h2" THEN "h" ELSE u]
MCShort == [u \in URLs \union Bads \union Clips |->
    CASE u \in {"h2", "hq", "hl", "hl..."} -> "h" [] u \in Bads -> BadLocation [] OTHER -> u]
MCScheme == [u \in URLs \union Clips |->
    CASE u = "m" -> "mailto" [] u \in {"s", "w"} -> "https" [] OTHER -> "http"]
MCHost == [u \in URLs |-> CASE u = "w" -> "www" [] u \in {"x", "m"} -> "other" [] OTHER -> "apex"]

FamilySymmetry == Permutations(Families)

=============================================================================
