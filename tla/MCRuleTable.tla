---------------------------- MODULE MCRuleTable ----------------------------
EXTENDS RuleTable

\* Phrases that begin one another, phrases that differ late, a second bucket, and
\* the empty phrase.
MCPhrases == {<<>>, <<1>>, <<1, 1>>, <<1, 2>>, <<1, 2, 1>>, <<2>>}
MCTexts == UNION {[1 .. n -> Chars] : n \in 1 .. 3}
\* What completes a phrase that the text breaks off, and what does not.
MCBehind == {<<1, 1>>, <<2, 1>>}
============================================================================
