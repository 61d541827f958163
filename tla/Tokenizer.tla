----------------------------- MODULE Tokenizer ------------------------------
(***************************************************************************)
(* The tokenizer (qfz3-engine/src/tokenizer.rs): encode as a state machine *)
(* over one text, decode as an operator.                                   *)
(*                                                                         *)
(* A vocabulary entry spells its token in the GPT-2 alphabet, in which     *)
(* every byte is a printable character of one or two UTF-8 bytes; a        *)
(* byte-fallback entry, <0xNN>, holds the raw byte itself.  encode rewrites*)
(* the text in the GPT-2 alphabet, covers it with the longest entries it   *)
(* can find, falls back to a byte table where it finds none, and then runs *)
(* the BPE merges over the result.  The bytes of the two spellings are     *)
(* called units here and are the numbers they are.                         *)
(***************************************************************************)
EXTENDS Naturals, SequencesExt

CONSTANTS
    Vocab,      \* the entries; id i of the code is Vocab[i + 1]
    Merges,     \* the merge rules, best first: pairs of spellings
    Texts,      \* the texts to encode, as sequences of bytes
    MaxMatch,   \* the longest slice looked up; 64 in the code
    TableLen,   \* the size of the byte table; 256 in the code
    SkippedIds  \* what decode skips by number; 128000, 128001, 128004 in the code

VARIABLES
    text,
    units,      \* the text in the GPT-2 alphabet (gpt2_bytes)
    pos,        \* how many units are covered (i)
    working,    \* the ids so far
    phase       \* "match", "merge", "done" or "panicked"

vars == <<text, units, pos, working, phase>>

Byte == 0 .. 255
Id == DOMAIN Vocab

Entries == [text : Seq(Byte), token_type : STRING, is_byte_fallback : BOOLEAN]

-----------------------------------------------------------------------------
(* UTF-8, as far as it cuts a spelling into characters.                    *)

Continues(unit) == unit \in 128 .. 191

\* The units of the character that starts with this one.
Utf8Len(unit) ==
    CASE unit < 128 -> 1
      [] unit \in 128 .. 223 -> 2
      [] unit \in 224 .. 239 -> 3
      [] OTHER -> 4

\* No character is cut off at the end.
Whole(s) ==
    \A i \in DOMAIN s : Continues(s[i]) \/ i + Utf8Len(s[i]) - 1 <= Len(s)

\* An entry is a string of the model file, or the byte that string names; the
\* texts are bytes.
ASSUME TokenizerAssumption ==
    /\ Vocab \in Seq(Entries)
    /\ \A id \in Id : IF Vocab[id].is_byte_fallback THEN Len(Vocab[id].text) = 1
                                                   ELSE Whole(Vocab[id].text)
    /\ Merges \in Seq(Seq(Byte) \X Seq(Byte))
    /\ Texts \subseteq Seq(Byte)
    /\ MaxMatch \in Nat /\ MaxMatch >= 2
    /\ TableLen \in Nat \ {0}

-----------------------------------------------------------------------------
(* The GPT-2 alphabet.                                                     *)

Printable(b) == b \in 33 .. 126 \/ b \in 161 .. 172 \/ b \in 174 .. 255

CodePoint ==
    [b \in Byte |-> IF Printable(b) THEN b
                    ELSE 256 + Cardinality({c \in 0 .. b - 1 : ~Printable(c)})]

\* All code points are below 0x800.
Utf8(cp) == IF cp < 128 THEN <<cp>> ELSE <<192 + (cp \div 64), 128 + (cp % 64)>>

\* The characters of the alphabet, in units.
Char == [b \in Byte |-> Utf8(CodePoint[b])]

\* bytes_to_gpt2_unicode
Gpt2(bytes) == FlattenSeq([i \in DOMAIN bytes |-> Char[bytes[i]]])

\* gpt2_char_len, from the first unit of a character.
CharLen(unit) == IF unit < 128 THEN 1 ELSE IF unit < 224 THEN 2 ELSE 3

\* The bytes a character stands for; one outside the alphabet passes through.
OriginalBytes(char) ==
    LET bytes == {b \in Byte : Char[b] = char}
    IN  IF bytes = {} THEN char ELSE <<Max(bytes)>>

\* gpt2_unicode_to_original_bytes, one character after the other.
FromGpt2(s) ==
    FlattenSeq([i \in DOMAIN s |->
        IF Continues(s[i]) THEN <<>>
        ELSE OriginalBytes(SubSeq(s, i, i + Utf8Len(s[i]) - 1))])

-----------------------------------------------------------------------------
(* The tables from_gguf_parts builds.                                      *)

Spellings == {Vocab[id].text : id \in Id}

\* token_to_id: of two entries with one spelling the later one is found.
TokenToId(s) == Max({id \in Id : Vocab[id].text = s})

\* The rules whose two sides are entries, as pairs of ids.
Rules ==
    [k \in {k \in DOMAIN Merges : {Merges[k][1], Merges[k][2]} \subseteq Spellings}
         |-> <<TokenToId(Merges[k][1]), TokenToId(Merges[k][2])>>]

\* The ranks of the pair; a later rule for the same pair replaces an earlier.
Ranks(l, r) == {k \in DOMAIN Rules : Rules[k] = <<l, r>>}

\* byte_to_token: the byte entries, else id 0.  (The search for the spelling
\* "<0xNN>" finds nothing: such entries are spelled by their byte.)
ByteToToken(b) ==
    LET bytes == {id \in Id : /\ Vocab[id].text[1] = b
                              /\ \/ Vocab[id].token_type = "byte"
                                 \/ /\ Len(Vocab[id].text) = 1
                                    /\ Vocab[id].token_type # "normal"}
    IN  IF bytes = {} THEN 1 ELSE Max(bytes)

-----------------------------------------------------------------------------
(* decode.                                                                 *)

Skipped(id) == id \in SkippedIds \/ Vocab[id].token_type = "control"

\* The bytes of one entry.
BytesOf(id) ==
    IF Skipped(id) THEN <<>>
    ELSE IF Vocab[id].is_byte_fallback THEN Vocab[id].text
    ELSE FromGpt2(Vocab[id].text)

\* The bytes are collected first and read as UTF-8 once; a text is UTF-8.
Decode(ids) == FlattenSeq([i \in DOMAIN ids |-> BytesOf(ids[i])])

-----------------------------------------------------------------------------
(* encode.                                                                 *)

Init ==
    /\ text \in Texts
    /\ units = Gpt2(text)
    /\ pos = 0
    /\ working = <<>>
    /\ phase = "match"

Slice(n) == SubSeq(units, pos + 1, pos + n)

\* The lengths at which a slice that starts here is an entry.
MatchLengths ==
    {n \in 1 .. MaxMatch : pos + n <= Len(units) /\ Slice(n) \in Spellings}

\* A plausible bug: the lengths are tried from the shortest.
MatchShortest ==
    /\ phase = "match"
    /\ MatchLengths # {}
    /\ working' = Append(working, TokenToId(Slice(Min(MatchLengths))))
    /\ pos' = pos + Min(MatchLengths)
    /\ UNCHANGED <<text, units, phase>>

MatchLongest ==
    /\ phase = "match"
    /\ MatchLengths # {}
    /\ working' = Append(working, TokenToId(Slice(Max(MatchLengths))))
    /\ pos' = pos + Max(MatchLengths)
    /\ UNCHANGED <<text, units, phase>>

\* The number of units of the first n bytes of the text.
UnitsOf(n) == Len(Gpt2(SubSeq(text, 1, n)))

\* orig_byte_at: the index (0-based) of the byte whose character starts here;
\* 0 when no character does.
OrigByteAt ==
    IF \E n \in 0 .. Len(text) - 1 : UnitsOf(n) = pos
    THEN CHOOSE n \in 0 .. Len(text) - 1 : UnitsOf(n) = pos
    ELSE 0

\* Nothing matches: the byte table is indexed by orig_byte_at and the
\* character is skipped.
Fallback ==
    /\ phase = "match"
    /\ pos < Len(units)
    /\ MatchLengths = {}
    /\ OrigByteAt < TableLen
    /\ working' = Append(working, ByteToToken(OrigByteAt))
    /\ pos' = pos + CharLen(units[pos + 1])
    /\ UNCHANGED <<text, units, phase>>

\* The index is beyond the byte table.
FallbackPanics ==
    /\ phase = "match"
    /\ pos < Len(units)
    /\ MatchLengths = {}
    /\ OrigByteAt >= TableLen
    /\ phase' = "panicked"
    /\ UNCHANGED <<text, units, pos, working>>

Covered ==
    /\ phase = "match"
    /\ pos >= Len(units)
    /\ phase' = "merge"
    /\ UNCHANGED <<text, units, pos, working>>

\* The positions of ids that hold a pair with a rank.
Pairs(ids) == {i \in 1 .. Len(ids) - 1 : Ranks(ids[i], ids[i + 1]) # {}}

RankAt(ids, i) == Max(Ranks(ids[i], ids[i + 1]))

\* The leftmost pair of the lowest rank.
BestPos(ids) ==
    Min({i \in Pairs(ids) : \A j \in Pairs(ids) : RankAt(ids, i) <= RankAt(ids, j)})

MergedText(ids, i) == Vocab[ids[i]].text \o Vocab[ids[i + 1]].text

\* A plausible bug: the left token of the pair is removed with the wrong index.
MergeAtShifted(ids, i) ==
    RemoveAt([ids EXCEPT ![i] = TokenToId(MergedText(ids, i))], i)

MergeAt(ids, i) ==
    RemoveAt([ids EXCEPT ![i] = TokenToId(MergedText(ids, i))], i + 1)

Mergeable(ids) ==
    Pairs(ids) # {} /\ MergedText(ids, BestPos(ids)) \in Spellings

Merge ==
    /\ phase = "merge"
    /\ Mergeable(working)
    /\ working' = MergeAt(working, BestPos(working))
    /\ UNCHANGED <<text, units, pos, phase>>

\* No pair is left, or the best one has no entry for its result.
MergesDone ==
    /\ phase = "merge"
    /\ ~Mergeable(working)
    /\ phase' = "done"
    /\ UNCHANGED <<text, units, pos, working>>

Encode ==
    \/ MatchLongest
    \/ Fallback
    \/ FallbackPanics
    \/ Covered
    \/ Merge
    \/ MergesDone

Next == Encode

\* encode is sequential code.
Spec == Init /\ [][Next]_vars /\ WF_vars(Encode)

-----------------------------------------------------------------------------
(* Properties.                                                             *)

\* Every character of the text has an entry of its own.
Spelled == \A i \in DOMAIN text : Char[text[i]] \in Spellings

\* No part of the text spells a token that decode skips.
Plain ==
    \A i \in DOMAIN units : \A j \in i .. Len(units) :
        SubSeq(units, i, j) \in Spellings =>
            ~Skipped(TokenToId(SubSeq(units, i, j)))

\* At every moment decode gives back the text up to pos and nothing else, and
\* the whole text when the matching is over: neither the longest-match pass nor
\* a merge loses, repeats or reorders a byte, and decode undoes the spelling.
\* (Characters without an entry fall back to a token that need not be theirs,
\* and what spells a skipped token in the text is encoded as that token.)
NothingLost ==
    Spelled /\ Plain =>
        \E n \in 0 .. Len(text) :
            /\ Decode(working) = SubSeq(text, 1, n)
            /\ UnitsOf(n) = pos
            /\ phase # "match" => n = Len(text)

\* The number of units before the i-th id.
StartOf(ids, i) == Len(FlattenSeq([j \in 1 .. i - 1 |-> Vocab[ids[j]].text]))

\* initial_tokenise takes the longest entry first and bpe_merge comes second,
\* and the order decides the segmentation: during both passes and in the
\* result, each id is spelled in the text just where the ids before it end, and
\* no longer entry that could have been looked up is spelled there.  A merge
\* drops the start between its two tokens and moves no other, whatever the
\* rules are.
LongestMatched ==
    Spelled =>
        \A i \in DOMAIN working :
            LET start == StartOf(working, i)
                spelling == Vocab[working[i]].text
            IN  /\ start + Len(spelling) <= Len(units)
                /\ SubSeq(units, start + 1, start + Len(spelling)) = spelling
                /\ \A n \in Len(spelling) + 1 .. MaxMatch :
                       start + n <= Len(units) =>
                           SubSeq(units, start + 1, start + n) \notin Spellings

\* The longest-match pass leaves nothing to merge but what it could not look
\* up: a merge of two matched tokens yields a token longer than MaxMatch.
MergesOnlyLongTokens ==
    [][Spelled /\ phase = "merge" /\ working' # working =>
         \E i \in DOMAIN working' : Len(Vocab[working'[i]].text) > MaxMatch]_vars

-----------------------------------------------------------------------------
(* What the documentation says and the code does not do.                   *)

\* tokenizer.rs, initial_tokenise: "Byte fallback: use the original input
\* byte": a fallback appends the token of the byte it skips.  The table is
\* indexed by the byte's position in the text.
FallbackUsesByte ==
    [][Fallback => Last(working') = ByteToToken(text[OrigByteAt + 1])]_vars
=============================================================================
