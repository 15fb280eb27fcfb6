---------------------------- MODULE MCLineWriter ----------------------------
(* Texts of up to MaxTokens tokens and MaxBytes bytes, with strings of up to *)
(* MaxString characters, of which some are two bytes.                        *)
EXTENDS LineWriter

CONSTANTS MaxTokens, MaxString, MaxBytes

Character ==
    {<<Byte>>, <<Space>>, <<Backslash, Quote>>, <<Backslash, Backslash>>,
     <<Backslash, Byte>>}
String ==
    {<<Quote>> \o FlattenSeq(s) \o <<Quote>> :
        s \in UNION {[1..n -> Character] : n \in 0..MaxString}}
Token == {<<Space>>, <<Newline>>, <<Byte>>} \cup String
Texts == UNION {[1..n -> Token] : n \in 1..MaxTokens}
MCDoc == {d \in Texts : ~IsLayout(d[1]) /\ Len(FlattenSeq(d)) <= MaxBytes}
=============================================================================
