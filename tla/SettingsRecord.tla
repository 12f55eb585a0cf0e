--------------------------- MODULE SettingsRecord ---------------------------
(***************************************************************************)
(* What loading settings.xml leaves behind: the vectors of xml_settings    *)
(* and how the loading ended, "loaded"; "rejected", when load_settings_xml *)
(* returns false; "threw", when a std::string is made of a missing         *)
(* property attribute; "crashed", when a node that is not an element or an *)
(* attribute that is not there is used through a null pointer, or an       *)
(* assertion of TinyXML fails.                                             *)
(***************************************************************************)
EXTENDS Integers, Sequences, Functions

Statuses == {"loaded", "rejected", "threw", "crashed"}

Nothing == [status |-> "loaded", sources |-> <<>>, endpoints |-> <<>>]

Ended(status) == [Nothing EXCEPT !.status = status]

IsVector(s) == s \in Seq(Range(s))

IsSettings(s) ==
  /\ s.status \in Statuses
  /\ IsVector(s.sources) /\ \A i \in DOMAIN s.sources : s.sources[i].id \in Int
  /\ IsVector(s.endpoints)
=============================================================================
