---------------------------- MODULE FlightParse -----------------------------
(***************************************************************************)
(* flight.Parse, which each of the two writers runs on every update: of    *)
(* the positions in it, the one that is kept, and its heading.  What the   *)
(* writers do with the result is in CacheWriter and DatabaseWriter.        *)
(***************************************************************************)
EXTENDS Integers, Sequences, SequencesExt

CONSTANTS
    Position,       \* positions of the feed (see PositionType)
    MaxPositions,   \* bound: positions in one update
    None            \* a field that is absent or cannot be parsed

\* time: seconds; the digits written of their fraction, none to two; and what these
\* say, in hundredths.  sec 0 is the empty string; all others are in UTC.
\* place: None when pos does not parse.  track: None, or the angle of the velocity
\* to the north in hundredths of a degree, as Atan2 gives it.
TimeType ==
    {t \in [sec : Nat, digits : 0..2, fraction : 0..99] :
        /\ t.digits = 0 => t.fraction = 0
        /\ t.digits = 1 => t.fraction % 10 = 0}
Angle == -18000..18000
PositionType ==
    [time : TimeType, place : Nat \cup {None}, track : Angle \cup {None}]

ASSUME ParseAssumption ==
    /\ Position \subseteq PositionType
    /\ \A p \in Position : p.time.sec = 0 => p.time.digits = 0
    /\ None \notin Position
    /\ MaxPositions \in Nat

VARIABLES
    message,    \* the positions of the update
    next,       \* the loop: the position to examine, 0 when no update is held
    best        \* the loop: the fields kept so far, None when best.ok is false

parseVars == <<message, next, best>>

ParseInit == message = <<>> /\ next = 0 /\ best = None

\* An update is unmarshalled.
Unmarshal(m) ==
    /\ next = 0
    /\ message' = m /\ next' = 1 /\ best' = None

-----------------------------------------------------------------------------
(* The loop over the positions. *)

\* What follows the seconds, as a number that sorts as the text does: a digit is its
\* value and the "Z" comes after all digits; and "." comes before "Z".
Text(t) ==
    CASE t.digits = 0 -> 110
      [] t.digits = 1 -> 11 * (t.fraction \div 10) + 10
      [] t.digits = 2 -> 11 * (t.fraction \div 10) + (t.fraction % 10)

\* Times are compared as strings.
Earlier(s, t) == s.sec < t.sec \/ (s.sec = t.sec /\ Text(s) < Text(t))

\* Mutant: a position of the same time does not replace the one before.
KeepsFirst(p) == best # None /\ ~Earlier(best.time, p.time)

\* best stays when p is earlier.
Keeps(p) == best # None /\ Earlier(p.time, best.time)

\* parsePos: two numbers.
ParsePos(p) == p.place # None

Examine ==
    /\ next \in DOMAIN message
    /\ LET p == message[next]
       IN  best' = IF ~ParsePos(p) \/ Keeps(p) THEN best ELSE p
    /\ next' = next + 1
    /\ UNCHANGED message

\* Mutant: angles to the west stay negative.
HeadingSigned(p) == IF p.track = None THEN None ELSE (p.track + 5) \div 10

\* velocity: the heading in tenths of a degree, rounded.
Heading(p) ==
    IF p.track = None THEN None
    ELSE ((IF p.track < 0 THEN p.track + 36000 ELSE p.track) + 5) \div 10

\* The loop is over: Parse returns.
Return ==
    /\ next = Len(message) + 1
    /\ message' = <<>> /\ next' = 0 /\ best' = None

ParseNext ==
    \/ \E m \in BoundedSeq(Position, MaxPositions) : Unmarshal(m)
    \/ Examine \/ Return

ParseSpec == ParseInit /\ [][ParseNext]_parseVars

-----------------------------------------------------------------------------
Parsable == {i \in DOMAIN message : ParsePos(message[i])}
Looped == next = Len(message) + 1

\* The moment a time stands for, in hundredths of a second.
Moment(t) == 100 * t.sec + t.fraction

\* Parse keeps all fields of one position, whenever one parses.  None that parses is of
\* a later moment, with one exception: within the same second, one whose fraction is
\* written with another number of digits.  Of those with the same time it is the last.
BestIsLatest ==
    Looped => IF Parsable = {} THEN best = None
              ELSE \E i \in Parsable :
                      /\ best = message[i]
                      /\ \A j \in Parsable :
                            LET s == message[i].time
                                t == message[j].time
                            IN  /\ \/ Moment(t) <= Moment(s)
                                   \/ t.sec = s.sec /\ t.digits # s.digits
                                /\ j > i => t # s

\* The heading is the direction of the velocity to half a tenth of a degree, also
\* across north, where it is 360.0 and 0.0.
HeadingIsDirection ==
    Looped /\ best # None /\ Heading(best) # None =>
        /\ Heading(best) \in 0..3600
        /\ (10 * Heading(best) - best.track + 36005) % 36000 <= 10

\* The inductive invariant: the same of the positions examined so far.
Examined == {i \in Parsable : i < next}
ParseInv ==
    /\ message \in Seq(Position) /\ next \in 0..(Len(message) + 1)
    /\ IF Examined = {} THEN best = None
       ELSE \E i \in Examined :
               /\ best = message[i]
               /\ \A j \in Examined : /\ ~Earlier(message[i].time, message[j].time)
                                      /\ j > i => message[j].time # message[i].time
=============================================================================
