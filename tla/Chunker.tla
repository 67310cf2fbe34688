------------------------------ MODULE Chunker ------------------------------
(***************************************************************************)
(* DocumentChunker of knowledge_base/chunker.py (M1): a section is cut     *)
(* into windows of at most size characters, ended early at the end of a    *)
(* sentence in their second half, and each begun overlap characters before *)
(* the end of the one before.                                              *)
(*                                                                         *)
(* A text is a function of its positions, counted from 0 as in the code,   *)
(* into four classes of characters.  A chunk is the set of positions it is *)
(* made of: hashes, ids and the text itself follow from them.              *)
(***************************************************************************)
EXTENDS Integers, Sequences

CONSTANTS
  MaxLength,  \* bound: characters of a section
  MaxSize     \* bound: chunk_size

ASSUME ChunkerAssumption == MaxLength \in Nat /\ MaxSize \in Nat

VARIABLES
  phase,      \* "idle", "cutting", and "cut" after the loop
  text,       \* the stripped content of the section
  length,     \* its length
  size,       \* chunk_size
  overlap,    \* chunk_overlap
  pos,        \* where the next window begins
  end,        \* where the last one ended
  chunks      \* the chunks so far

inputVars == <<text, length, size, overlap>>
chunkerVars == <<phase, inputVars, pos, end, chunks>>

-----------------------------------------------------------------------------
(* Variants the code might have had, used only to show that the properties *)
(* depend on the code they are about.                                      *)

OneTooFar(p, e) == IF e + 1 - overlap > p THEN e + 1 - overlap ELSE p + 1

AnySentence(p, e) ==
  LET cuts == {i \in p .. p + size - 2 : text[i] = "stop" /\ text[i + 1] = "space"}
  IN IF p + size < length /\ cuts # {}
       THEN e - 1 \in cuts /\ \A i \in cuts : i < e
       ELSE e = IF p + size < length THEN p + size ELSE length

-----------------------------------------------------------------------------

\* A letter, one of ".?!", a blank and a line break.
Char == {"letter", "stop", "space", "newline"}

Blank(i) == text[i] \in {"space", "newline"}

ChunkerInit ==
  /\ phase = "idle"
  /\ text = <<>> /\ length = 0
  /\ size = 1 /\ overlap = 0
  /\ pos = 0 /\ end = 0
  /\ chunks = <<>>

\* Stripped of blanks at both ends.
Section(n, t) ==
  n > 0 => t[0] \in {"letter", "stop"} /\ t[n - 1] \in {"letter", "stop"}

\* The constructor refuses an overlap that is not smaller than the size.
Start ==
  /\ phase = "idle"
  /\ \E n \in 0 .. MaxLength, s \in 1 .. MaxSize :
       \E t \in [0 .. n - 1 -> Char], o \in 0 .. s - 1 :
         /\ Section(n, t)
         /\ phase' = IF n = 0 THEN "cut" ELSE "cutting"
         /\ text' = t /\ length' = n
         /\ size' = s /\ overlap' = o
  /\ UNCHANGED <<pos, end, chunks>>

Earlier(a, b) == IF a < b THEN a ELSE b

\* Where rfind may find the end of a sentence and the space after it.
Cuts(p, e) ==
  {i \in p + (size \div 2) .. e - 2 :
     text[i] \in {"stop", "newline"} /\ text[i + 1] = "space"}

Boundary(p, e, cut) == cut \in Cuts(p, e) /\ \A i \in Cuts(p, e) : i <= cut

\* A boundary exactly in the middle is not used.
InSecondHalf(p, cut) == cut > p + (size \div 2)

\* The ends the window from p may have: there is always exactly one.
WindowEnd(p, e) ==
  LET limit == Earlier(p + size, length)
      cuttable(i) == limit < length /\ Boundary(p, limit, i) /\ InSecondHalf(p, i)
  IN \/ cuttable(e - 1)
     \/ e = limit /\ \A i \in Cuts(p, limit) : ~cuttable(i)

\* What strip leaves of the characters from a up to b.
Content(a, b) ==
  {i \in a .. b - 1 : \E j, k \in a .. b - 1 : j <= i /\ i <= k /\ ~Blank(j) /\ ~Blank(k)}

\* At least one step forward, whatever the overlap.
NextPos(p, e) == IF e - overlap > p THEN e - overlap ELSE p + 1

Cut ==
  /\ phase = "cutting"
  /\ \E e \in 1 .. length :
       /\ WindowEnd(pos, e)
       /\ end' = e
       /\ chunks' = IF Content(pos, e) = {} THEN chunks
                      ELSE Append(chunks, Content(pos, e))
       /\ IF e >= length
            THEN phase' = "cut" /\ UNCHANGED pos
            ELSE phase' = (IF NextPos(pos, e) < length THEN "cutting" ELSE "cut")
                 /\ pos' = NextPos(pos, e)
  /\ UNCHANGED inputVars

ChunkerNext == Start \/ Cut

ChunkerSpec == ChunkerInit /\ [][ChunkerNext]_chunkerVars

-----------------------------------------------------------------------------
(* Properties.                                                             *)

\* Every variable keeps its type, the next window begins within the section and
\* not after the end of the last one, and the chunks hold its positions
\* (chunker.py 24-67).
ChunkerTypeOK ==
  /\ phase \in {"idle", "cutting", "cut"}
  /\ length \in 0 .. MaxLength
  /\ text \in [0 .. length - 1 -> Char]
  /\ size \in Nat \ {0} /\ overlap \in 0 .. size - 1
  /\ pos \in 0 .. length /\ end \in 0 .. length
  /\ phase = "cutting" => pos < length /\ pos <= end
  /\ chunks \in Seq(SUBSET (0 .. length - 1))

\* No text is lost: whatever the sentence ends, the blanks that are stripped and
\* the overlap are, every character that is not blank is in a chunk as soon as
\* its window has been cut, and so in the end all of them are (chunker.py 35-67).
NothingSkipped ==
  \A i \in 0 .. length - 1 :
    ~Blank(i) /\ (phase = "cut" \/ i < end) => \E c \in DOMAIN chunks : i \in chunks[c]

\* A window never ends where or before the last one did, so that no chunk only
\* repeats a part of another, if the overlap is at most half of the size: a window
\* cut at a sentence is longer than half of the size (chunker.py 38-45, 64-65).
WindowsAdvance == [][Cut /\ 2 * overlap <= size => end' > end]_chunkerVars

=============================================================================
