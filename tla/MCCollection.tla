---------------------------- MODULE MCCollection ----------------------------
(* Collection on small instances.                                          *)
EXTENDS Collection

CONSTANTS s1

Ebay == [local |-> {Null, s1}, actor |-> {}, bounded |-> TRUE, stale |-> FALSE,
         kinds |-> {"full", "fired", "probe"}, runs |-> 2]
Actor == [local |-> {}, actor |-> {s1}, bounded |-> FALSE, stale |-> FALSE,
          kinds |-> {"full", "probe"}, runs |-> 3]
Mixed == [local |-> {Null}, actor |-> {s1}, bounded |-> FALSE, stale |-> TRUE,
          kinds |-> {"full"}, runs |-> 3]
AllSources == {Ebay, Actor, Mixed}
=============================================================================
