------------------------------ MODULE MCIngest ------------------------------
EXTENDS Ingest

t == "text"
b == "blank"
s == "separator"

\* A record at each end of a file, blanks at its edges and inside it, and a file
\* with no separator; and a seed without any record but blanks.
MCSeeds == {<< <<b, t, s, s, t, b, t, b>>, <<t>> >>, << <<b, s>>, <<s, t, s>> >>}

\* A record with a value and an element without text, and records with another
\* value, which is one more than fits.
MCElements(r) == IF r = 1 THEN <<"a", "">> ELSE <<"b">>
=============================================================================
