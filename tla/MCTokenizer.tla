---------------------------- MODULE MCTokenizer -----------------------------
(***************************************************************************)
(* A small vocabulary and the texts over a few characters: h, e, l, a      *)
(* space, an exclamation mark, the two bytes of a multiplication sign and  *)
(* the spelling of a control token.                                        *)
(***************************************************************************)
EXTENDS Tokenizer

Entry(s, type) == [text |-> s, token_type |-> type, is_byte_fallback |-> FALSE]
ByteEntry(b) == [text |-> <<b>>, token_type |-> "byte", is_byte_fallback |-> TRUE]

Unk == Entry(<<60, 117, 110, 107, 62>>, "unknown")
EndOfText == Entry(<<60, 124, 62>>, "control")

\* The characters and words in the GPT-2 spelling.
H == Gpt2(<<104>>)
E == Gpt2(<<101>>)
L == Gpt2(<<108>>)
Space == Gpt2(<<32>>)
Times == <<Gpt2(<<195>>), Gpt2(<<151>>)>>
Normal(spellings) == [i \in DOMAIN spellings |-> Entry(spellings[i], "normal")]

\* Every byte that occurs has an entry, but for the exclamation mark; two
\* entries are raw bytes, one of them the first unit of the multiplication
\* sign's.  A slice holds two spaces, so that the last rule makes a token that
\* is too long to be looked up.
MCVocab ==
    <<Unk, EndOfText, ByteEntry(1), ByteEntry(195)>> \o
    Normal(<<H, E, L, Space, Times[1], Times[2], H \o E, E \o L, L \o L,
             E \o L \o L, Times[1] \o Times[2], Space \o Space,
             Space \o Space \o Space \o Space, <<60>>, <<124>>, <<62>>, H \o H>>)

\* The id of the control token and that of an ordinary one, hh.
MCSkippedIds == {2, Len(MCVocab)}

MCMerges ==
    << <<E, L>>, <<H, E>>, <<Space, Space>>, <<L, L>>, <<Times[1], Times[2]>>,
       <<E \o L, L>>, <<Space \o Space, Space \o Space>> >>

Chars == {<<104>>, <<101>>, <<108>>, <<32>>, <<33>>, <<195, 151>>, <<60, 124, 62>>}

TextsOver(chars, lens) ==
    UNION {{FlattenSeq(s) : s \in [1 .. k -> chars]} : k \in lens}

\* The longer ones are those with something left to merge.
MCTexts == TextsOver(Chars, 0 .. 4) \cup TextsOver({<<101>>, <<32>>}, 5 .. 7)
=============================================================================
