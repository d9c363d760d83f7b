----------------------------- MODULE MCConsole ------------------------------
\* A short line; an empty line between a short one and one that is cut; more
\* lines than the display has, in a text that just fits the buffer; a text
\* that lacks room for the terminator alone; a text much longer than the
\* buffer, in lines that fit the ring; a text with a conversion.
EXTENDS Console
Text(lines) == [lines |-> lines, conv |-> FALSE]
MCMessages == {Text(<<1>>), Text(<<2, 0, 6>>), Text(<<1, 2, 3, 2>>),
               Text(<<12>>), Text(<<9, 9>>), [lines |-> <<3>>, conv |-> TRUE]}
=============================================================================
