------------------------------ MODULE MCBrowse ------------------------------
(***************************************************************************)
(* An instance of Browse: the kinds of references against the kinds of     *)
(* pages they may stand in, under the directives that change their course. *)
(***************************************************************************)
EXTENDS Browse

MCToPage == "zs" :> "zt"
MCLowTrail == {"zs"}
MCLeftovers == {<<>>, <<"http", ":", "/", "/", "gw", "/", "x">>}

\* What may come into a block; 37 spreads the bits.
Coded == <<"zs", "zt", "=", "&", "&amp;", "%", " ", "'", "\"", "x", "y", "p", "d", "b", "/", "?",
           ".", "http", "https", ":", "#", "+", "*", "jpg", "pdf", "jsp", "(", ")", "f", "u", "a",
           "gw", "8", "0", "ex", "\\", "{", "$", ";", "<", ">">>
MCBytes == [s \in ToSet(Coded) |-> (37 * SelectInSeq(Coded, LAMBDA x : x = s) + 90) % 256]

MCWordTable == 20013 :> 228
MCTexts == {<<>>,
            <<[code |-> 97, coded |-> FALSE], [code |-> 20013, coded |-> TRUE]>>,
            <<[code |-> 37, coded |-> TRUE], [code |-> 117, coded |-> FALSE]>>,
            <<[code |-> 20013, coded |-> FALSE], [code |-> 98, coded |-> FALSE]>>,
            <<[code |-> 228, coded |-> FALSE], [code |-> 65509, coded |-> FALSE]>>}

Dc == [level |-> 3, valueLevel |-> 0, scriptLevel |-> 1, shouldChange |-> TRUE,
       ignorePrefix |-> FALSE, convertExts |-> {<<".", "jsp">>}, addSlash |-> TRUE,
       processPicture |-> FALSE, keepSuffix |-> {"pdf"}, exclude |-> {<<"ex">>},
       urlMap |-> <<>>, ignoreUrlEncode |-> FALSE, notReplaceUrl |-> FALSE,
       notChangeTextboxUrl |-> FALSE, replaceHttpInText |-> TRUE, detectBOM |-> 0,
       keepUTF8Encode |-> FALSE, forceOutputUTF8 |-> FALSE, isUTF8 |-> TRUE,
       unconvertOutput |-> FALSE, toEncode |-> "big5"]

At(host) == <<"http", ":", "/", "/">> \o host
A == At(<<"a", "/">>)
B == At(<<"b">>)
Secure == <<"https", ":", "/", "/", "a", "/">>

Tag(before, ref, after) == [kind |-> "tag", s |-> before \o ref \o after]
Href(ref) == Tag(<<"<", "a", " ", "href", "=", "\"">>, ref, <<"\"", ">">>)
Src(ref)  == Tag(<<"<", "img", " ", "src", "=", "'">>, ref, <<"'", ">">>)
Bare(ref) == Tag(<<"<", "a", " ", "href", "=">>, ref, <<">">>)
Form(ref) == Tag(<<"<", "form", " ", "action", "=", "\"">>, ref, <<"\"", ">">>)
Base(ref) == Tag(<<"<", "base", " ", "href", "=", "\"">>, ref, <<"\"", ">">>)
Open(name)  == Tag(<<"<", name>>, <<>>, <<">">>)
Close(name) == Tag(<<"<", "/", name>>, <<>>, <<">">>)
Words(s)  == [kind |-> "text", s |-> s]
Style(ref) == Words(<<"zs", " ", "url(">> \o ref \o <<")", "zs">>)
Script(s) == [kind |-> "script", s |-> <<"<", "script", ">">> \o s]

\* References without scheme and with one.
Relative == {<<"p">>, <<"zs">>, <<"zs", "/", "p">>, <<"d", "/", "p", "?", "x">>,
             <<".", ".", "/", "p">>, <<".", ".", "/", ".", ".", "/", ".", ".", "/", "p">>,
             <<".", "/", "p">>, <<".", ".">>, <<".", "x", "/", "p">>, <<"/", "p">>, <<"/", "/", "b", "/", "p">>,
             <<"?", "x", "=", "y">>, <<"p", "?", "x", "=", "zs">>, <<"p", "?", "x", "=", "%", "zs">>,
             <<"p", "?", "x", "=", "%", "&">>, <<"p", "?", "x", "=", "y", "&amp;", "y", "=", "x">>,
             <<"p", "#", "f">>, <<"p", "?", "x", "=", "y", "#", "f">>, <<"zs", "#", "zs">>, <<"#", "f">>,
             <<"p", "?", "u", "=", "http", ":", "/", "/", "b", "/">>,
             <<"p", ".", "jpg">>, <<"p", ".", "pdf">>, <<"d", "\\", "p">>, <<"p", "*">>, <<"{", "$", "p">>,
             <<" ", "p", " ">>, <<"p", " ", "zs">>, <<"p", "+", "+", "zs">>, <<"javascript", ":", "p", "\\", "p">>}
Absolute == {B, B \o <<"/">>, B \o <<"/", "p">>, B \o <<":", "8", "0", "/", "zs">>,
             B \o <<"?", "x", "=", "y">>, At(<<"ex", "/", "p">>), Secure \o <<"zs", "?", "x", "=", "zs">>,
             B \o <<"/", "p", ".", "jsp">>, UrlPrefix \o <<"b", "/", "p">>}
Refs == Relative \cup Absolute

\* Pages: one reference; a reference behind something that changes what becomes
\* of it; and what is no reference.
Single == {<<Href(r)>> : r \in Refs}
Few == {<<"p">>, <<"p", "?", "x", "=", "zs">>, <<"?", "x", "=", "y">>, B \o <<"/", "p">>}
Other == UNION {{<<Src(r)>>, <<Bare(r)>>, <<Style(r)>>,
                 <<Base(A \o <<"d", "/">>), Href(r)>>, <<Base(B), Href(r)>>,
                 <<Open("fjtignoreurl"), Href(r), Close("fjtignoreurl")>>,
                 <<Open("textarea"), Words(<<"zs">> \o r), Close("textarea"), Open("p")>>,
                 <<Tag(<<"<", "input", " ", "value", "=", "'">>, r, <<"'", ">">>), Href(r)>>}
                : r \in Few}
Plainly == {<<Form(<<"p", "?", "x", "=", "zs">>)>>,
            <<Words(<<"zs", " ", "zs">>), Words(<<"zs">> \o B \o <<"/", "p", " ", "x">>)>>,
            <<Script(<<"u", "=", "'">> \o B \o <<"/", "p", "'", ";", "\"">> \o B \o <<"\\", "\"", "\"">>)>>,
            <<Tag(<<"<", "meta", " ", "charset", "=", "\"">>, <<"utf-8">>, <<"\"", ">">>),
              Tag(<<"<", "?xml", " ", "encoding", "=", "\"">>, <<"gb2312">>, <<"\"", "?", ">">>)>>,
            <<Tag(<<"<", "meta", " ", "x", "=", "\"", "5", ";", "url", "=">>, B \o <<"/", "p">>, <<"\"", ">">>)>>,
            <<Tag(<<"<", "param", " ", "x", "=", "charset", " ", "value", "=">>, <<"gb2312">>, <<">">>)>>,
            <<Tag(<<"<", "!--", " ">>, B, <<" ", "zs", ">">>), Open("body"), Close("head")>>,
            <<Tag(<<"<", "body", " ", "background", "=">>, <<"p">>, <<" ", "onload", "=", "x", ">">>)>>,
            <<Tag(<<"<", "option", " ", "value", "=", "\"">>, <<"%", "zs">>, <<"\"", ">">>),
              Tag(<<"<", "option", " ", "value", "=", "\"">>, <<".", "/", "%", "zs">>, <<"\"", ">">>)>>}

Hop == {<<Href(r)>> : r \in {<<"p">>, <<".", ".", "/", "zs">>, <<"zs", "/", "zs", "?", "x", "=", "zs">>,
                              <<"/", "d", "/", "p">>, B, <<"?", "x">>}}

Starts == {A \o <<"d", "/", "p">>, A \o <<"zs", "/", "zs", "?", "x", "=", "/", "y">>,
           Secure \o <<"d", "/", "p">>, At(<<"a">>)}

\* References below directories whose names are characters, or a <base> without
\* a scheme.
Up == {<<"p">>, <<".", ".", "/", "p">>, <<".", ".", "/", ".", ".", "/", "p">>}
Deep == {<<Href(r)>> : r \in Up} \cup {<<Style(r)>> : r \in Up}
        \cup {<<Base(<<"/", "d", "/">>), Href(r)>> : r \in Up \cup {<<"/", "p">>, <<"?", "x">>}}
        \cup {<<Tag(<<"<", "base", " ", "href", "=">>, <<"/", "d", "/">>, <<" ", ">">>), Style(<<"p", "zs">>)>>}
DeepStarts == {A \o <<"d", "/", "zs", "/", "d", "/", "p">>, A \o <<"zs", "zs", "/", "p">>,
               A \o <<"d", "/", "x", "zs", "?", "x", "=", "/", "y">>}

MCPages == [single |-> Single, hop |-> Hop, other |-> Other \cup Plainly, deep |-> Deep]

Sc(dcs, starts, name) == [dc : dcs, start : starts, site : {name}]
MCScenarios ==
    Sc({[Dc EXCEPT !.level = l] : l \in {0, 1, 3}}, Starts, "single")
    \cup Sc({Dc, [Dc EXCEPT !.level = 0]}, {A \o <<"d", "/", "p">>}, "hop")
    \cup Sc({[Dc EXCEPT !.level = l, !.isUTF8 = u] : l \in {0, 3}, u \in BOOLEAN}, DeepStarts, "deep")
    \cup Sc({Dc, [Dc EXCEPT !.notChangeTextboxUrl = TRUE],
             [Dc EXCEPT !.level = 4, !.valueLevel = 2, !.scriptLevel = 0, !.replaceHttpInText = FALSE,
                        !.forceOutputUTF8 = TRUE, !.isUTF8 = FALSE],
             [Dc EXCEPT !.level = 0, !.ignoreUrlEncode = TRUE, !.addSlash = FALSE, !.keepUTF8Encode = TRUE,
                        !.processPicture = TRUE, !.isUTF8 = FALSE, !.toEncode = "gb2312"],
             [Dc EXCEPT !.ignorePrefix = TRUE, !.notReplaceUrl = TRUE, !.isUTF8 = FALSE, !.unconvertOutput = TRUE],
             [Dc EXCEPT !.urlMap = <<[from |-> B \o <<"/">>, to |-> <<"m", "/">>]>>]},
            {A \o <<"d", "/", "p">>}, "other")
=============================================================================
