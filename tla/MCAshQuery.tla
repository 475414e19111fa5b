----------------------------- MODULE MCAshQuery -----------------------------
(* Instantiation of AshQuery for TLC. *)
EXTENDS AshQuery

MCKnownQueries == {"q1"}
MCQueryNames == {"q1", "q2"}
\* A registered format, and a name no formatter has.
MCFormatNames == {"auto", "bogus"}
MCWithArgs == {TRUE}
MCWithoutArgs == {FALSE}
====
