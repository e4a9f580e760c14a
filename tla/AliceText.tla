----------------------------- MODULE AliceText -----------------------------
(***************************************************************************)
(* What the announcements of Alice say and when she keeps quiet: the pure  *)
(* functions of internal/event/chat_handlers.go.                           *)
(*                                                                         *)
(* A text is the sequence of the lengths of its words, in runes, with one  *)
(* space between two words.  A piece is a part of a word, the runes first  *)
(* to last of word number word; a chunk is a sequence of pieces with one   *)
(* space between two of them.  A minute is counted from midnight.          *)
(***************************************************************************)
EXTENDS Naturals, Sequences, SequencesExt

Piece(word, first, last) == [word |-> word, first |-> first, last |-> last]

\* utf8.RuneCountInString of a chunk.
RuneCount(chunk) ==
    FoldLeft(LAMBDA sum, p: sum + (p.last - p.first + 1), 0, chunk)
    + (IF chunk = <<>> THEN 0 ELSE Len(chunk) - 1)

\* Mutant: a piece ends with the first rune of the next one.
splitLongAliceWord_Overlaps(w, length, limit) ==
    [k \in 1 .. (length + limit - 1) \div limit |->
        <<Piece(w, (k - 1) * limit + 1, IF k * limit + 1 < length THEN k * limit + 1 ELSE length)>>]

\* splitLongAliceWord: pieces of limit runes, a chunk each.
splitLongAliceWord(w, length, limit) ==
    [k \in 1 .. (length + limit - 1) \div limit |->
        <<Piece(w, (k - 1) * limit + 1, IF k * limit < length THEN k * limit ELSE length)>>]

Flush(s) == IF s.current = <<>> THEN s.chunks ELSE Append(s.chunks, s.current)

\* One turn of the loop of splitAliceAnnouncementText.
AddWord(s, w, length, limit) ==
    LET candidate == Append(s.current, Piece(w, 1, length))
    IN  IF length > limit
        THEN [chunks |-> Flush(s) \o splitLongAliceWord(w, length, limit), current |-> <<>>]
        ELSE IF RuneCount(candidate) > limit
        THEN [chunks |-> Append(s.chunks, s.current), current |-> <<Piece(w, 1, length)>>]
        ELSE [s EXCEPT !.current = candidate]

Whole(text) == [w \in 1 .. Len(text) |-> Piece(w, 1, text[w])]

splitAliceAnnouncementText(text, limit) ==
    IF text = <<>> THEN <<>>
    ELSE IF limit = 0 \/ RuneCount(Whole(text)) <= limit THEN <<Whole(text)>>
    ELSE Flush(FoldLeft(LAMBDA s, w: AddWord(s, w, text[w], limit),
                        [chunks |-> <<>>, current |-> <<>>],
                        [w \in 1 .. Len(text) |-> w]))

\* What is left of limit once every chunk starts with the prefix; floor is 40.
effectiveAliceAnnouncementChunkLimit(prefix, limit, floor) ==
    IF limit = 0 THEN 0
    ELSE IF limit < prefix + floor THEN floor ELSE limit - prefix

\* Mutant: quiet hours do not pass midnight.
isAliceQuietHoursActive_NoWrap(start, end, now) == start <= now /\ now < end

\* isAliceQuietHoursActive, for settings that are enabled and well formed.
isAliceQuietHoursActive(start, end, now) ==
    \/ start = end
    \/ start < end /\ start <= now /\ now < end
    \/ start > end /\ (start <= now \/ now < end)

-----------------------------------------------------------------------------
(* Reference definitions                                                   *)

Pieces(chunks) == FlattenSeq(chunks)

\* The pieces, one after another, are the words of the text, in order.
Spells(pieces, text) ==
    /\ pieces # <<>> /\ pieces[1].word = 1 /\ pieces[1].first = 1
    /\ Last(pieces).word = Len(text) /\ Last(pieces).last = Last(text)
    /\ \A k \in 1 .. Len(pieces) - 1:
        LET p == pieces[k]
            q == pieces[k + 1]
        IN  \/ q.word = p.word /\ q.first = p.last + 1
            \/ q.word = p.word + 1 /\ q.first = 1 /\ p.last = text[p.word]
    /\ \A k \in 1 .. Len(pieces): pieces[k].first <= pieces[k].last

\* Two neighbouring chunks are two because they do not fit into one, or
\* because a word too long for any chunk ends one of them.
SplitsForAReason(chunks, text, limit) ==
    \A k \in 1 .. Len(chunks) - 1:
        \/ RuneCount(Append(chunks[k], chunks[k + 1][1])) > limit
        \/ \E c \in {chunks[k], chunks[k + 1]}: text[c[1].word] > limit

\* A text cut into chunks loses nothing, repeats nothing and keeps the order;
\* no chunk is longer than the limit (before its label "part i of n") and
\* none is shorter than it need be.
SplitKeepsText(text, limit) ==
    LET chunks == splitAliceAnnouncementText(text, limit)
    IN  text # <<>> =>
            /\ Spells(Pieces(chunks), text)
            /\ limit > 0 => /\ \A k \in 1 .. Len(chunks): RuneCount(chunks[k]) <= limit
                            /\ SplitsForAReason(chunks, text, limit)

\* With a prefix that leaves floor runes or more, a chunk and its prefix fit
\* into the limit together.
PrefixFits(text, prefix, limit, floor) ==
    LET chunks == splitAliceAnnouncementText(
                      text, effectiveAliceAnnouncementChunkLimit(prefix, limit, floor))
    IN  prefix + floor <= limit =>
            \A k \in 1 .. Len(chunks): prefix + RuneCount(chunks[k]) <= limit

\* The quiet hours are the minutes met on the way from start to end around
\* the clock of day minutes; equal ends mean the whole day.
QuietAroundTheClock(start, end, now, day) ==
    isAliceQuietHoursActive(start, end, now) <=>
        \/ start = end
        \/ (now + day - start) % day < (end + day - start) % day
=============================================================================
