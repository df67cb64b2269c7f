--------------------------- MODULE MCOutputFilter ---------------------------
EXTENDS OutputFilter

Page == [handler |-> "proxy", status |-> 200, location |-> "none", oldurl |-> FALSE,
         notConvert404 |-> FALSE, convertible |-> TRUE, charset |-> "short"]

\* A page, and requests that differ from it in what sends them another way.
MCRequests ==
    {Page,
     [Page EXCEPT !.charset = "none"],
     [Page EXCEPT !.charset = "long"],
     [Page EXCEPT !.convertible = FALSE],
     [Page EXCEPT !.handler = "fjt"],
     [Page EXCEPT !.handler = "fjtapi", !.convertible = FALSE],
     [Page EXCEPT !.status = 304],
     [Page EXCEPT !.status = 302],
     [Page EXCEPT !.status = 302, !.location = "origin"],
     [Page EXCEPT !.status = 404],
     [Page EXCEPT !.status = 404, !.notConvert404 = TRUE],
     [Page EXCEPT !.status = 404, !.oldurl = TRUE],
     [Page EXCEPT !.oldurl = TRUE]}
=============================================================================
