----------------------------- MODULE MCGateway -----------------------------
EXTENDS Gateway, TLC

Url(name, form) == [name |-> name, form |-> form]

\* A picture that a rewrite rule gave another name, in each form of its URL.
Picture(form) ==
    [api |-> FALSE, proxyreq |-> TRUE, domain |-> "allowed", url |-> Url("new", form),
     OLDURL |-> Url("old", "plain"), baseurl |-> "unset", sameEncode |-> FALSE]

MCRequests ==
    {Picture("query"),
     [Picture("query") EXCEPT !.OLDURL = NULL, !.baseurl = "env"],
     [Picture("query") EXCEPT !.sameEncode = TRUE, !.baseurl = "conf"],
     [Picture("ifbase") EXCEPT !.OLDURL = Url("old", "ifbase")],
     Picture("longquery"),
     [Picture("plain") EXCEPT !.domain = "friendly"],
     [Picture("plain") EXCEPT !.domain = "other"],
     [Picture("plain") EXCEPT !.proxyreq = FALSE],
     [Picture("plain") EXCEPT !.api = TRUE]}

\* Workers are told apart by nothing but their requests; no run here has a
\* liveness property.
Symmetry == Permutations(Workers)
=============================================================================
