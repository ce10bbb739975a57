---------------------------- MODULE MCInitBuild ----------------------------
(* Sizes on both sides of the wrap and of every residue of the padding; a  *)
(* job with nested and shared directories beside those of PodInitrd.       *)
EXTENDS InitBuild, TLC

MCTrailer == <<"TRAILER!!!">>
MCNameLen ==
  <<"init">> :> 4 @@ <<"bin">> :> 3 @@ <<"bin", "crun">> :> 8 @@
  <<"usr">> :> 3 @@ <<"usr", "lib">> :> 7 @@ <<"usr", "lib", "a">> :> 9 @@
  <<"usr", "b">> :> 5 @@ MCTrailer :> 10
MCNames == DOMAIN MCNameLen
MCBodyLen == "init" :> 5 @@ "crun" :> 3
MCJobs == { PackOne, PodFiles(<<"crun">>),
            <<[path |-> <<"usr", "lib", "a">>, source |-> "init", mode |-> 420],
              [path |-> <<"usr", "b">>, source |-> "crun", mode |-> 0]>> }
MCLibraryNames == {<<"init">>, <<"usr", "lib">>}
MCSymmetry == Permutations(Builders)
=============================================================================
