------------------------------ MODULE MCMsiBus ------------------------------
(***************************************************************************)
(* Programs for model checking MsiBus: which memory instructions each core *)
(* may execute, in any order and any number of times.                      *)
(***************************************************************************)
EXTENDS MsiBus

Loads(tags) ==
  [op : {"load"}, tag : tags, index : Indexes, word : Words,
   bytes : {Bytes}, val : {InitVal}, chained : {FALSE}]
ChainedLoads(tags) == {[r EXCEPT !.chained = TRUE] : r \in Loads(tags)}

\* sw writes every byte of the word, sb one.
WordStores(tags) ==
  [op : {"store"}, tag : tags, index : Indexes, word : Words,
   bytes : {Bytes}, val : Vals, chained : {FALSE}]
ByteStores(tags) ==
  [op : {"store"}, tag : tags, index : Indexes, word : Words,
   bytes : {{b} : b \in Bytes}, val : Vals, chained : {FALSE}]

\* Every core may load from and store to every line.
SharedLines == [c \in Cores |-> Loads(Tags) \cup WordStores(Tags)]
SharedLinesChained ==
  [c \in Cores |-> Loads(Tags) \cup ChainedLoads(Tags) \cup WordStores(Tags)]

\* All cores load from and store to the lines of tag 0; the first and the last
\* core of the loop store to those of the other tags as well, which evicts them.
OuterCoresEvict ==
  [c \in Cores |-> Loads({0}) \cup
                   WordStores(IF c \in {0, NumP - 1} THEN Tags ELSE {0})]

\* Only core 0 stores, to the lines of tag 0.
OneWriter ==
  [c \in Cores |-> Loads(Tags) \cup (IF c = 0 THEN WordStores({0}) ELSE {})]

\* Core c alone uses two tags; all cores use the same indexes.  A chained load does
\* what any load does for as long as it keeps its address.
PrivateTags ==
  [c \in Cores |-> LET own == {2 * c, 2 * c + 1}
                   IN  ChainedLoads(own) \cup WordStores(own)]

\* Stores of single bytes.
SubWord == [c \in Cores |-> Loads(Tags) \cup ByteStores(Tags)]
=============================================================================
