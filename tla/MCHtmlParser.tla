---------------------------- MODULE MCHtmlParser ----------------------------
EXTENDS HtmlParser

Short == {d \in UNION {[1 .. n -> {"<", ">", " ", "a", "hi"}] : n \in 1 .. 5} : TwoByte(d)}

\* Names that are none, a script that writes tags, one cut off by the page's
\* end, one in which ">" precedes the end.
Long == {<<"a", "<", ".", ">", "a", "<", "a", " ", ".", ">", "a">>,
         <<"<", ">", "a", "<", "a", ".", ">">>,
         <<"<", "script", ">", "<", "a", ">", "<", "/script", ">", "a", " ">>,
         <<"a", "<", "script", " ", "a", ">", "a", "<", "/script", ">">>,
         <<"<", "script", ">", ">", "a", "<", "script", ">", "<", "/script", ">", ">">>}

MCDocs == Short \cup Long
=============================================================================
