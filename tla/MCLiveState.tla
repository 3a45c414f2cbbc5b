---------------------------- MODULE MCLiveState ----------------------------
(* An instance of LiveState for TLC. *)
EXTENDS LiveState

\* An observation of the connection, and two meter readings of a session, the
\* first of which HAL may repeat with altered content.
MCContents == [connection |-> <<{"ONLINE"}>>, connector |-> <<>>,
               meter |-> <<{"Wh", "kWh"}, {"Wh"}>>, soc |-> <<>>]
=============================================================================
