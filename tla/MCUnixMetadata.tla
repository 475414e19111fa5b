---------------------------- MODULE MCUnixMetadata ----------------------------
(* Hosts for checking UnixMetadata. *)
EXTENDS UnixMetadata

\* Shell names: one word, as bash and zsh; two words, as a shell started
\* through a link or script whose name has a blank.
MCOneWordNames == {<<"bash">>, <<"zsh">>}
MCShellNames == {<<"bash">>, <<"my", "sh">>}
MCAddrs == {"a1", "a2"}
\* "CET" fits the 5-byte buffer; "+0545" (Asia/Kathmandu) does not.
MCShortZones == {[name |-> "CET", len |-> 3]}
MCZones == {[name |-> "CET", len |-> 3], [name |-> "+0545", len |-> 5]}

===============================================================================
