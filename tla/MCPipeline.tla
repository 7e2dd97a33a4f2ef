--------------------------------- MODULE MCPipeline ---------------------------------
(* Two tests of one capture with the same kind of entropy, the four detectors that       *)
(* work.py runs, and one more file, which no detector reads.                             *)
EXTENDS Pipeline

MCTests == << [f |-> "with_attackers", entropy |-> "renyi"],
              [f |-> "with_attackers", entropy |-> "renyi"] >>
MCCusums == <<"ent_sp", "ent_fsd", "ent_sip", "ent_pn">>
MCTxtFiles == <<"ent_fsd", "ent_pn", "ent_sip", "ent_sp", "tot_pn">>
=====================================================================================
