------------------------------ MODULE MCAshLog ------------------------------
(* Instantiation of AshLog for TLC. *)
EXTENDS AshLog

MCNoInheritedIds == {}

\* Shell names: comm values as words.
MCOneWordNames == {<<"bash">>, <<"zsh">>}
MCSpacedNames == {<<"my", "sh">>}

MCAddrs == {"a1"}

\* Time zone abbreviations and their lengths.
MCShortZones == {[name |-> "CET", len |-> 3]}
MCLongZones == {[name |-> "+0545", len |-> 5]}
====
