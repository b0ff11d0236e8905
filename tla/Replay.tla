------------------------------- MODULE Replay -------------------------------
(***************************************************************************)
(* bridge in dev mode: ReplayRunner streams the records of the seed files  *)
(* to fixm.raw, over and over.  A file is a sequence of lines, each the    *)
(* separator, a blank line or text; a record is named by its file and its  *)
(* first and last line of text, which is what strip leaves of it.          *)
(***************************************************************************)
EXTENDS Naturals, Sequences, FiniteSets, FiniteSetsExt

CONSTANTS
    Seeds,      \* seed directories: sequences of files in name order
    Loop,       \* replay.loop
    MaxSent     \* bound: records sent

ASSUME ReplayAssumption ==
    /\ Seeds \subseteq Seq(Seq({"separator", "blank", "text"})) \ {<<>>}
    /\ Loop \in BOOLEAN /\ MaxSent \in Nat

VARIABLES
    seed,       \* the directory this process replays
    file,       \* the file being read; beyond the last once the replay is over
    line,       \* the line read next
    buffer,     \* the lines buffered since the last separator: buffer..line-1
    sent,       \* records handed to the producer
    latest      \* the last one

replayVars == <<seed, file, line, buffer, sent, latest>>

NoRecord == <<0, 0, 0>>

ReplayInit ==
    /\ seed \in Seeds
    /\ file = 1 /\ line = 1 /\ buffer = 1
    /\ sent = 0 /\ latest = NoRecord

Reading == file <= Len(seed)

\* publishRecord: nothing but blanks is skipped.  The send is not waited for;
\* whether the brokers store it makes no difference here.
PublishRecord ==
    LET text == {i \in buffer..(line - 1) : seed[file][i] = "text"}
        record == <<file, Min(text), Max(text)>>
    IN  IF text = {}
        THEN UNCHANGED <<sent, latest>>
        ELSE /\ sent < MaxSent
             /\ sent' = sent + 1
             /\ latest' = record

\* A line that is not the separator goes into the buffer.
BufferLine ==
    /\ Reading /\ line <= Len(seed[file]) /\ seed[file][line] # "separator"
    /\ line' = line + 1
    /\ UNCHANGED <<seed, file, buffer, sent, latest>>

\* The separator ends a record.
EndRecord ==
    /\ Reading /\ line <= Len(seed[file]) /\ seed[file][line] = "separator"
    /\ PublishRecord
    /\ line' = line + 1 /\ buffer' = line + 1
    /\ UNCHANGED <<seed, file>>

\* Mutant: what is left in the buffer is not flushed but starts the next file.
EndFileKeeps ==
    /\ Reading /\ line = Len(seed[file]) + 1
    /\ line' = 1 /\ buffer' = 1
    /\ file' = IF Loop /\ file = Len(seed) THEN 1 ELSE file + 1
    /\ UNCHANGED <<seed, sent, latest>>

\* The end of the file flushes what no separator followed; after the last file
\* comes the first one again.
EndFile ==
    /\ Reading /\ line = Len(seed[file]) + 1
    /\ PublishRecord
    /\ line' = 1 /\ buffer' = 1
    /\ file' = IF Loop /\ file = Len(seed) THEN 1 ELSE file + 1
    /\ UNCHANGED seed

\* The process is restarted and replays from the start.
ReplayRestart ==
    /\ file' = 1 /\ line' = 1 /\ buffer' = 1
    /\ sent' = 0 /\ latest' = NoRecord
    /\ UNCHANGED seed

ReplayNext == BufferLine \/ EndRecord \/ EndFile \/ ReplayRestart

-----------------------------------------------------------------------------
\* The records of a seed, by definition: the text between two separators or
\* ends of a file, from its first to its last line of text.
IsRecord(s, r) ==
    LET lines == s[r[1]]
        Between(i, j) == {lines[k] : k \in i..j}
        from == Max({0} \cup {i \in 1..(r[2] - 1) : lines[i] = "separator"})
        to == Min({Len(lines) + 1} \cup {i \in r[3]..Len(lines) : lines[i] = "separator"})
    IN  /\ r[2] <= r[3]
        /\ lines[r[2]] = "text" /\ lines[r[3]] = "text"
        /\ "separator" \notin Between(r[2], r[3])
        /\ "text" \notin Between(from + 1, r[2] - 1) \cup Between(r[3] + 1, to - 1)

Records(s) ==
    LET lines == UNION {DOMAIN s[f] : f \in DOMAIN s}
    IN  {r \in (DOMAIN s) \X lines \X lines :
             {r[2], r[3]} \subseteq DOMAIN s[r[1]] /\ IsRecord(s, r)}

\* Which record of the seed it is, counted through the files in order.
Rank(s, r) ==
    Cardinality({q \in Records(s) : q[1] < r[1] \/ (q[1] = r[1] /\ q[2] <= r[2])})

\* The n-th record the replay sends is the n-th of the seed, counted round and
\* round: none is skipped, split, joined with its neighbour or sent twice,
\* at the ends of files and of the seed too.  Without loop there is one round.
ReplaysTheSeed ==
    sent > 0 => /\ latest \in Records(seed)
                /\ \E round \in 0..(sent - 1) :
                       /\ sent = round * Cardinality(Records(seed)) + Rank(seed, latest)
                       /\ Loop \/ round = 0

\* The inductive invariant behind it: the buffer begins behind a separator or with the
\* file and holds none, and the records sent in this round are those before it.
BufferOK ==
    Reading => /\ line \in 1..(Len(seed[file]) + 1) /\ buffer \in 1..line
               /\ buffer = 1 \/ seed[file][buffer - 1] = "separator"
               /\ \A i \in buffer..(line - 1) : seed[file][i] # "separator"
Passed == {r \in Records(seed) : r[1] < file \/ (r[1] = file /\ r[3] < buffer)}
CountOK ==
    \E round \in 0..sent : /\ sent = round * Cardinality(Records(seed)) + Cardinality(Passed)
                           /\ Loop \/ round = 0
ReplayInv == seed \in Seeds /\ file \in Nat \ {0} /\ sent \in Nat /\ BufferOK /\ CountOK
             /\ ReplaysTheSeed
=============================================================================
