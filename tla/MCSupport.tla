------------------------------ MODULE MCSupport ------------------------------
EXTENDS SupportProps

\* A line of two characters, the second one perhaps on the next page; a line
\* that is read into the last page.
PrintLine == [call |-> "print",   page |-> 1, len |-> 2]
ReadLine  == [call |-> "receive", page |-> 2, len |-> 0]

OneReader == <<{Quit, ReadLine}, {Quit}>>
LineCalls == <<{Quit, PrintLine, ReadLine}, {Quit, PrintLine, ReadLine}>>
=============================================================================
