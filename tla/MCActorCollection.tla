------------------------- MODULE MCActorCollection -------------------------
(* ActorCollection on small sources.                                       *)
EXTENDS ActorCollection

Of(bytes, listings) == [bytes |-> bytes, listings |-> listings]
Two == <<Of(4, <<"good">>), Of(1, <<"good", "good">>)>>
Source(pages, listed, pagesDeclared, itemsDeclared) ==
    [pages |-> pages, listed |-> listed, pagesDeclared |-> pagesDeclared,
     itemsDeclared |-> itemsDeclared]

SmallSources ==
    {Source(Two, 2, 2, 3),                       \* declares everything
     Source(Two, 2, Undeclared, Undeclared),     \* declares nothing
     Source(Two, 1, Undeclared, 3),              \* a page is not listed
     Source(Two, 1, 2, Undeclared),
     Source(Two, 3, 2, Undeclared),              \* a page is listed that is not there
     Source(Two, 3, Undeclared, 3),
     Source(Two, 2, 1, 2),                       \* declares too little
     Source(<<Of(2, <<"bad", "good", "bad">>), Of(1, <<"bad", "free">>)>>, 2, 2, 5),
     Source(<<Of(2, <<"good">>), Of(1, <<"free">>)>>, 2, Undeclared, 2),
     Source(<<Of(1, <<>>)>>, 1, 1, 0),           \* declares itself empty
     Source(<<Of(1, <<>>)>>, 1, Undeclared, Undeclared)}

Caps(pages, requests, items, bytes) ==
    [pages |-> pages, requests |-> requests, items |-> items, bytes |-> bytes]
SmallCaps ==
    {Caps(9, 9, 9, 9), Caps(2, 2, 3, 5), Caps(1, 9, 9, 9), Caps(9, 1, 9, 9),
     Caps(9, 9, 2, 9), Caps(9, 9, 9, 1)}

AllFaults ==
    {"none", "truncate_items", "truncate_pages", "truncate_time", "truncate_bytes",
     "partial_failure", "contradictory_report", "count_mismatch", "unknown_schema", "fail"}
AllConducts == {"synthetic", "unchecked", "misdirected"}
=============================================================================
