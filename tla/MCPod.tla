------------------------------- MODULE MCPod -------------------------------
(* Pods of two ids over two images: a command of its own beside an image's *)
(* one, two containers, equal container ids, none, a pod that may not pull *)
(* its image; Prepare of an image; and pods of one id in two projects.     *)
EXTENDS Pod, TLC

CONSTANTS a, b, top, web, db, team

C(id, image, cmd) == [id |-> id, image |-> image, cmd |-> cmd]
Asked(id, project, ctrs, off) ==
  [op |-> "pod", id |-> id, project |-> project, ctrs |-> ctrs, offline |-> off]
MCRequests ==
  { Asked(web, Default, <<C("c", b, top), C("d", a, NoCmd)>>, FALSE),
    Asked(web, Default, <<C("c", a, NoCmd)>>, TRUE),
    Asked(db, Default, <<C("c", a, top), C("c", b, NoCmd)>>, FALSE),
    Asked(db, Default, << >>, FALSE),
    [op |-> "prepare", image |-> a, offline |-> FALSE] }
MCTeamRequests == { Asked(web, j, <<C("c", a, NoCmd)>>, FALSE) : j \in Projects }

Kernel == <<"default", "kernel">>
PodInitrd == <<"default", "pod-initrd">>
ISO == <<"default", "iso">>
MCShelves == { {Kernel, PodInitrd}, {ISO} }
MCVariables == { {}, {"kernel"} }
MCSymmetry == Permutations(Runners)
=============================================================================
