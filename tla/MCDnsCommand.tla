---------------------------- MODULE MCDnsCommand ----------------------------
(* Instances of DnsCommand.  Three rounds, two targets, a retry and two     *)
(* types in a comparison are all explored, but not all at once; the options *)
(* that a trace does not read have one value, and its rounds are two.       *)
EXTENDS DnsCommand

\* No address, and two of which the first is asked; one alone is what looking
\* up a name server gives.
MCGlue == {<<>>, <<"ns", "root">>}

Sized ==
  /\ watching => targets = 1 /\ retries = 0
  /\ comparing /\ (targets > 1 \/ watching) => types = 1
  /\ tracing => /\ ~comparing /\ servers = 1 /\ types = 1 /\ retries = 0
                /\ transport = "auto"

MCInit == CommandInit /\ Sized

MCStep == Step /\ (tracing /\ rounds = 2 => phase' # "running")

MCSpec == MCInit /\ [][MCStep \/ Interrupt]_vars /\ WF_vars(MCStep)
=============================================================================
