---------------------------- MODULE TextSplitter ----------------------------
(***************************************************************************)
(* What the chunkers of this repository need to take texts apart and to    *)
(* pack parts into chunks.  A text is a sequence of pieces that are never  *)
(* cut.                                                                    *)
(***************************************************************************)
EXTENDS Naturals, Sequences, SequencesExt, FiniteSetsExt

CONSTANT Chars(_)   \* the length of a text

(* How texts are cut is given by a record [max, size, overlap]: of a chunk,  *)
(* of the pieces that a longer part is split into, and of two such pieces.   *)

Ends(text) == {SubSeq(text, n, Len(text)) : n \in 1 .. Len(text) + 1}

\* The longest end of a piece that p can follow, <<>> if there is none.
Kept(cut, piece, p) ==
    LET Fits(e) == Chars(e) <= cut.overlap /\ Chars(Append(e, p)) <= cut.size
    IN  CHOOSE e \in Ends(piece) : /\ Fits(e) \/ e = <<>>
                                   /\ \A f \in Ends(piece) : Len(f) > Len(e) => ~Fits(f)

\* RecursiveCharacterTextSplitter: pieces of at most so many characters, each
\* beginning with the end of the last one, as much of it as the overlap allows.
AddPiece(cut, pieces, p) ==
    CASE pieces = <<>> -> <<<<p>>>>
      [] pieces # <<>> /\ Chars(Append(Last(pieces), p)) <= cut.size
            -> Append(Front(pieces), Append(Last(pieces), p))
      [] OTHER -> Append(pieces, Append(Kept(cut, Last(pieces), p), p))

SplitText(cut, text) == FoldLeft(LAMBDA pieces, p : AddPiece(cut, pieces, p), <<>>, text)

\* The chunks with a buffer that is not empty as one more.
Emit(chunked, buffer) == IF buffer = <<>> THEN chunked ELSE Append(chunked, buffer)

\* Parts are packed into a buffer until the next does not fit; one that is too long
\* for a chunk is split by itself.
AddPart(cut, acc, part) ==
    LET fits == Chars(acc.buffer \o part) <= cut.max
    IN  CASE fits -> [acc EXCEPT !.buffer = @ \o part]
          [] ~fits /\ Chars(part) > cut.max ->
                [chunked |-> Emit(acc.chunked, acc.buffer) \o SplitText(cut, part), buffer |-> <<>>]
          [] OTHER -> [chunked |-> Emit(acc.chunked, acc.buffer), buffer |-> part]

Pack(cut, parts) ==
    FoldLeft(LAMBDA acc, part : AddPart(cut, acc, part), [chunked |-> <<>>, buffer |-> <<>>], parts)
=============================================================================
