---------------------------- MODULE MCTCPMonitor ----------------------------
(***************************************************************************)
(* Inputs for TCPMonitor: the contents of /proc/net/tcp are a header line  *)
(* followed by up to two sample lines, with or without a trailing newline. *)
(* The header looks like an established connection, so counting it shows. *)
(* The samples cover four fields with state 01, another state, "011", 01   *)
(* in another field, fewer than four fields, five fields, an empty line,   *)
(* and leading, doubled and trailing spaces.                               *)
(***************************************************************************)
EXTENDS TCPMonitor, SequencesExt

MCHeader == <<"1", SP, "1", SP, "1", SP, "0", "1">>

MCSamples ==
  { << >>,
    <<"0", SP, "0", SP, "0", SP, "0", "1">>,
    <<"0", SP, "0", SP, "0", SP, "1">>,
    <<SP, "0", SP, SP, "1", SP, "0", SP, "0", "1", SP>>,
    <<"0", "1", SP, "0", "1", SP, "0", "1">>,
    <<"0", SP, "0", SP, "0", SP, "0", "1", "1">>,
    <<"1", SP, "1", SP, "1", SP, "0", "1", SP, "1">> }

MCLines == {<< >>} \cup {<<l>> : l \in MCSamples}
           \cup {<<l, m>> : l, m \in MCSamples}

MCFiles ==
  { MCHeader \o FlattenSeq([i \in DOMAIN ls |-> <<NL>> \o ls[i]]) \o t :
      ls \in MCLines, t \in {<< >>, <<NL>>} }
  \cup {<< >>}

=============================================================================
