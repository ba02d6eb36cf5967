------------------------------- MODULE Nginx -------------------------------
(***************************************************************************)
(* The conf.d volume and the nginx process behind it.                      *)
(*                                                                         *)
(* ConfigGenerator::write fills <path>.tmp and renames it over the file    *)
(* nginx includes; docker exec runs `nginx -t` and `nginx -s reload`; the  *)
(* nginx master, a process of another container, reads the file when it    *)
(* starts and when it handles the SIGHUP a reload sends it.                *)
(*                                                                         *)
(* What a file holds is abstracted to the committed table it was rendered  *)
(* from, as an index into log, and to whether all of it reached the disk.  *)
(***************************************************************************)
EXTENDS Naturals, Sequences

CONSTANTS StaticExact,  \* prefixes kp-locations.conf has an exact location for
          Cuts          \* the ways a short write may cut the file

ASSUME CutsAssumption == Cuts \subseteq {"middle", "empty"}

VARIABLES log,   \* log[n]: the enabled routes after the n-th commit
          tmp,   \* kingdom-routes.conf.tmp
          file,  \* kingdom-routes.conf
          up,    \* nginx is running
          live,  \* the configuration its workers use
          hup,   \* a SIGHUP the master has not handled yet
          late   \* reloads whose caller has given up, for docker to run yet

confVars  == <<tmp, file>>
procVars  == <<up, live, hup, late>>
nginxVars == <<log, confVars, procVars>>

-----------------------------------------------------------------------------
Config == [ver : Nat, cut : {"none", "middle", "empty"}]

Whole(v) == [ver |-> v, cut |-> "none"]

Latest == Len(log)

NoRoutes == [i \in {} |-> {}]

\* The routes a file configures.  A file that is cut in the middle of a
\* block does not parse; an empty one is a legal file without routes.
Contents(c) == IF c.cut = "none" THEN log[c.ver] ELSE NoRoutes

\* What `nginx -t` accepts: the file parses, and no route repeats an exact
\* location of kp-locations.conf (a duplicate location is a fatal error).
Valid(c) == /\ c.cut # "middle"
            /\ \A i \in DOMAIN Contents(c) :
                 Contents(c)[i].path_prefix \notin StaticExact

-----------------------------------------------------------------------------
\* The image ships an empty routes file and nginx is started first.
NginxInit == /\ log = <<NoRoutes>>
             /\ tmp = Whole(1)
             /\ file = Whole(1)
             /\ up = TRUE
             /\ live = Whole(1)
             /\ hup = FALSE
             /\ late = 0

\* Mutant of OpenTmp: the file nginx includes is truncated and written in
\* place.
OpenTmp_InPlace(v) == /\ tmp' = [ver |-> v, cut |-> "empty"]
                      /\ file' = [ver |-> v, cut |-> "empty"]

\* std::ofstream out(tmp_path, std::ios::trunc).
OpenTmp(v) == /\ tmp' = [ver |-> v, cut |-> "empty"]
              /\ UNCHANGED file

\* out << rendered, and the close that flushes it; the stream state is never
\* looked at, so a short write takes the same way as a full one.
FillTmp(v, c) == /\ tmp' = [ver |-> v, cut |-> c]
                 /\ UNCHANGED file

\* std::filesystem::rename(tmp_path, final_path).
RenameTmp == /\ file' = tmp
             /\ UNCHANGED tmp

\* Mutant of TestPasses: the exit code of `nginx -t` is not looked at.
TestPasses_Unchecked == up

\* The exit status of docker exec `nginx -t`; exec fails in a stopped
\* container.
TestPasses == up /\ Valid(file)

\* docker exec `nginx -s reload`: signals the master and returns.
SignalMaster == /\ hup' = TRUE
                /\ UNCHANGED <<up, live, late>>

\* The caller stops waiting (the client's read timeout, or its own death) for
\* a reload that docker runs all the same: now, later or not before nginx ends.
GiveUp == /\ up
          /\ late' = late + 1
          /\ UNCHANGED <<up, live, hup>>

LateSignal == /\ up /\ late > 0
              /\ late' = late - 1
              /\ hup' = TRUE
              /\ UNCHANGED <<log, confVars, up, live>>

\* The master reads the file that is in place now, and keeps the running
\* configuration if it is invalid.
HandleHup == /\ up /\ hup
             /\ hup' = FALSE
             /\ live' = IF Valid(file) THEN file ELSE live
             /\ UNCHANGED <<log, confVars, up, late>>

NginxDies == /\ up
             /\ up' = FALSE
             /\ hup' = FALSE /\ late' = 0
             /\ UNCHANGED <<log, confVars, live>>

\* restart: unless-stopped; the process exits at once on an invalid file.
NginxStart == /\ ~up
              /\ Valid(file)
              /\ up' = TRUE
              /\ live' = file
              /\ UNCHANGED <<log, confVars, hup, late>>

-----------------------------------------------------------------------------
\* Files and the configuration in use are renderings of commits; what the log
\* holds is typed where the commits are made.
NginxTypeOK == tmp \in Config /\ file \in Config /\ live \in Config
               /\ late \in Nat

=============================================================================
