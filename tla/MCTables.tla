---- MODULE MCTables ----
EXTENDS Tables

CONSTANTS A, B, C, D

Do(op, table, rec) == [op |-> op, table |-> table, rec |-> rec]
Script(from, exclusive, update, append, acts) ==
  [from |-> from, exclusive |-> exclusive, update |-> update, append |-> append, acts |-> acts]

MCRecNum == [f \in Files |-> 3]
MCScripts == {
  Script(<<A, B>>, FALSE, TRUE,  FALSE, <<Do("calrec", 1, 2), Do("calrec", 2, 2)>>),
  Script(<<B, A>>, FALSE, TRUE,  FALSE, <<Do("calrec", 2, 2)>>),
  Script(<<A, A>>, FALSE, TRUE,  FALSE, <<Do("calrec", 2, 3)>>),
  Script(<<A>>,    FALSE, TRUE,  FALSE, <<Do("apprec", 1, 1)>>),
  Script(<<A, B>>, FALSE, FALSE, TRUE,  <<Do("apprec", 1, 1), Do("calrec", 2, 2)>>),
  Script(<<A>>,    TRUE,  TRUE,  FALSE, <<Do("calrec", 1, 2)>>),
  Script(<<B, A>>, TRUE,  FALSE, FALSE, <<Do("calrec", 2, 2)>>),
  Script(<<B, D>>, TRUE,  FALSE, FALSE, <<>>),
  Script(<<C>>,    FALSE, TRUE,  FALSE, <<Do("calrec", 1, 1)>>)}
====
