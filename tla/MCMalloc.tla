------------------------------ MODULE MCMalloc ------------------------------
\* Instances of Malloc for TLC.
EXTENDS Malloc

\* Requests for chunks of three, four, seven and fourteen words, most of them
\* rounded up and the last one more than a chunk of CHUNK_SIZE.
MCSizes == {1, 17, 48, 100}

\* Words of free chunks behind their headers are never read.
MCView ==
  <<brk, head, live, lost, stopped,
    {<<a, mem[a], Next(mem, a), Prev(mem, a)>> : a \in InList},
    {<<b, [i \in WordsOf(b) |-> mem[i]]>> : b \in live}>>
=============================================================================
