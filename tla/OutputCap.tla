----------------------------- MODULE OutputCap -----------------------------
(***************************************************************************)
(* How much of a process's output is kept, CappedOutputBuffer and           *)
(* trimToUtf8Boundary of src/core/bash-executor.ts.                         *)
(*                                                                          *)
(* A byte is the number of bytes its first one says the character has: 1 to *)
(* 4 for the first byte of a character, 0 for a later one, and Bad for a    *)
(* byte no character starts with.                                           *)
(***************************************************************************)
EXTENDS Integers, Sequences, SequencesExt, FiniteSetsExt

Bad == 5

\* trimToUtf8Boundary: the bytes of chunk to keep of the first room of them.
TrimToBoundary(chunk, room) ==
    LET limit  == Min({room, Len(chunk)})
        firsts == {i \in 1 .. limit : chunk[i] # 0}
        last   == Max(firsts)
    IN  IF limit <= 0 \/ firsts = {} THEN 0
        ELSE IF chunk[last] # Bad /\ last - 1 + chunk[last] <= limit
        THEN last - 1 + chunk[last]
        ELSE last - 1

\* CappedOutputBuffer.append: r is [kept, truncated], cap 1 MiB in the code.
AppendOutput(r, chunk, cap) ==
    IF r.truncated THEN r
    ELSE IF Len(r.kept) + Len(chunk) <= cap THEN [r EXCEPT !.kept = @ \o chunk]
    ELSE [kept      |-> r.kept \o SubSeq(chunk, 1, TrimToBoundary(chunk, cap - Len(r.kept))),
          truncated |-> TRUE]

-----------------------------------------------------------------------------
(* Checks                                                                   *)

Characters == {<<1>>, <<2, 0>>, <<3, 0, 0>>}

Written(chunks, cap) ==
    FoldLeft(LAMBDA r, c : AppendOutput(r, c, cap), [kept |-> <<>>, truncated |-> FALSE], chunks)

Whole(bytes) == \A i \in DOMAIN bytes : bytes[i] # 0 =>
                    /\ i - 1 + bytes[i] <= Len(bytes)
                    /\ \A j \in i + 1 .. i - 1 + bytes[i] : bytes[j] = 0

\* Bytes that are characters, one after the other.
IsText(bytes) ==
    /\ Whole(bytes)
    /\ \A j \in DOMAIN bytes : bytes[j] = 0 =>
           \E i \in 1 .. j - 1 : bytes[i] # 0 /\ j <= i - 1 + bytes[i]

Texts == {FlattenSeq(t) : t \in UNION {[1 .. n -> Characters] : n \in 1 .. 3}}

\* Output written at once, or in chunks that end with a character, is cut at
\* the last character that fits: the cap is never passed, no character is cut,
\* and less than a character's room is wasted.
ASSUME CutBetweenCharacters ==
    \A first, second \in Texts, cap \in 1 .. 9 :
        LET r == Written(<<first, second>>, cap) IN
        /\ Len(r.kept) <= cap
        /\ IsPrefix(r.kept, first \o second)
        /\ IsText(r.kept)
        /\ r.truncated <=> Len(first) + Len(second) > cap
        /\ r.truncated => Len(r.kept) > cap - 3

\* A chunk that ends within a character defeats this: the start of the
\* character was kept with its chunk, and the rest is dropped.  The comment at
\* bash-executor.ts:146 rules such a cut out.
ASSUME CutWithinACharacter ==
    LET r == Written(<<<<1, 3>>, <<0, 0, 1>>>>, 3)
    IN  r.truncated /\ r.kept = <<1, 3>> /\ ~Whole(r.kept)

\* Bytes that are no text do no harm: the cap holds and nothing but the end is
\* dropped.
ASSUME AnyBytesAreCapped ==
    \A n, m \in 0 .. 3 : \A a \in [1 .. n -> {0, 1, 2, Bad}], b \in [1 .. m -> {0, 1, 2, Bad}] :
        LET r == Written(<<a, b>>, 3)
        IN  Len(r.kept) <= 3 /\ IsPrefix(r.kept, a \o b)
=============================================================================
