---------------------------- MODULE MCRadioValues ----------------------------
(* Inputs of the constructors for TLC: the limits and their neighbours. *)
EXTENDS RadioValues

MCUnits ==
  [kind \in IntervalKind |->
     CASE kind = "Advertising" -> {0, 31, 32, 33, 16384, 16385}
       [] kind = "Scan"        -> {0, 3, 4, 5, 16384, 16385}
       [] kind = "Announce"    -> {0, 31, 32, 33, 16777215, 16777216}
       [] kind = "Seek"        -> {0, 19, 20, 21, 65535}]

\* A constructor that does not look at an input gets one value of it.
MCDescriptorUuids ==
  ("GATT" :> {Uuid16(CCC), Uuid16(10497), Uuid128(CCC)}) @@ ("SSAP" :> {Uuid16(10497)})
MCPermissions == ("GATT" :> {{"READ"}}) @@ ("SSAP" :> SUBSET Permission)

MCOperations == {{}, {"READ"}, {"WRITE"}, {"NOTIFY"}, {"READ", "INDICATE"}, {"READ", "WRITE"}}

Letters(n) == [i \in 1 .. n |-> 65]

MCSsidBytes == {Letters(n) : n \in {0, 1, 32, 33}} \cup {<<0>>}

MCPassphraseBytes ==
  {Letters(n) : n \in {7, 8, 63, 64}}
    \cup {[Letters(8) EXCEPT ![i] = byte] : i \in {1, 8}, byte \in {0, 31, 32, 126, 127, 128}}

MCTraceEntries == [kind : {"VendorStatus", "IeeeStatus"}, value : {1}]

\* A quote, a backslash, controls of each kind, and letters.
MCCharacters == {34, 92, 9, 10, 13, 1, 31, 32, 65, 127, 159, 160}
MCRevisions ==
  {<<c>> : c \in MCCharacters} \cup {<<c, d>> : c \in {34, 92}, d \in {34, 92, 117}} \cup {<<>>}
=============================================================================
