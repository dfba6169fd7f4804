----------------------------- MODULE ZoneMapper -----------------------------
(***************************************************************************)
(* The zone mapper of the pipeline: a cache of the calibration file of the *)
(* store, looked at before every read and loaded again when the time of    *)
(* modification differs from the one remembered.  The file is written by   *)
(* the calibration studio, another process, with a truncating open and a   *)
(* write.  The contents are numbered by the save that wrote them; 0 stands *)
(* for the geometry of the legacy override file.  The studio saves any     *)
(* JSON object it is sent, so that a save may be misshapen: cameras or     *)
(* shapes that are not of the expected structure, over which _load raises  *)
(* after it has replaced what it held.                                     *)
(*                                                                         *)
(* Threads are the pipeline threads of the process (two analyses may run,  *)
(* see Console) and the event loop, which reads the zones for the wizard.  *)
(***************************************************************************)
EXTENDS Naturals

CONSTANTS
  Threads,    \* the threads that read the geometry
  MaxSaves    \* bound on the number of saves in the studio

ASSUME MapperAssumption == MaxSaves \in Nat

VARIABLES
  file,       \* the calibration file: absent, torn or whole, its save, and
              \* whether that is of the expected structure
  mtime,      \* its time of modification
  geometry,   \* ZoneMapper._data with _shapes_by_cam: the save they came from
  complete,   \* whether _shapes_by_cam has all shapes of that save
  cached,     \* ZoneMapper._mtime
  look        \* per thread: where it stands in _check_reload and _load

mapperVars == <<file, mtime, geometry, complete, cached, look>>

Legacy == 0

MapperInit ==
  /\ \/ /\ file = [state |-> "absent", save |-> 0, sound |-> TRUE]
        /\ mtime = 0
     \/ /\ \E sound \in BOOLEAN : file = [state |-> "whole", save |-> 1, sound |-> sound]
        /\ mtime = 1
        /\ MaxSaves >= 1
  /\ geometry = file.save
  /\ complete = file.sound
  /\ cached = mtime
  /\ look = [t \in Threads |-> [at |-> "idle", mtime |-> 0]]

(* _check_reload, outside the lock: a file that is there with another time *)
(* than the remembered one sends the thread into _load.                    *)
Stale == file.state # "absent" /\ mtime # cached

\* Mutated Check: the file is looked at only until it was loaded once.
CheckLoadedOnce(t) ==
  /\ look[t].at = "idle"
  /\ Stale
  /\ geometry = Legacy
  /\ look' = [look EXCEPT ![t].at = "stale"]
  /\ UNCHANGED <<file, mtime, geometry, complete, cached>>

Check(t) ==
  /\ look[t].at = "idle"
  /\ Stale
  /\ look' = [look EXCEPT ![t].at = "stale"]
  /\ UNCHANGED <<file, mtime, geometry, complete, cached>>

(* _load takes the time again, before it takes the lock.                   *)
Stat(t) ==
  /\ look[t].at = "stale"
  /\ look' = [look EXCEPT ![t] = [at |-> "loading", mtime |-> mtime]]
  /\ UNCHANGED <<file, mtime, geometry, complete, cached>>

UpToDate(t) == look[t].mtime = cached /\ geometry # Legacy

(* Under the lock: a thread that finds the time already remembered leaves  *)
(* all as it is; a torn file fails to parse, and the exception leaves the  *)
(* geometry and the time as they were.                                     *)
LoadSkips(t) ==
  /\ UpToDate(t) \/ file.state = "torn"
  /\ UNCHANGED <<geometry, complete, cached>>

(* The contents and their time are taken before the shapes are gone        *)
(* through: over a misshapen file the exception leaves some shapes out, or *)
(* all, and the time remembered.                                           *)
LoadTakes(t) ==
  /\ ~UpToDate(t)
  /\ file.state # "torn"
  /\ geometry' = file.save
  /\ complete' = file.sound
  /\ cached' = look[t].mtime

LoadEnds(t) ==
  /\ look[t].at = "loading"
  /\ look' = [look EXCEPT ![t] = [at |-> "idle", mtime |-> 0]]
  /\ UNCHANGED <<file, mtime>>

\* Mutated Load: the time is remembered before the file is parsed.
LoadMarksFirst(t) ==
  /\ LoadEnds(t)
  /\ \/ LoadTakes(t)
     \/ /\ UpToDate(t) \/ file.state = "torn"
        /\ cached' = look[t].mtime
        /\ UNCHANGED <<geometry, complete>>

\* Mutated Load: a file that does not parse sends the mapper to the legacy
\* override.
LoadFallsBack(t) ==
  /\ LoadEnds(t)
  /\ \/ LoadTakes(t)
     \/ UpToDate(t) /\ LoadSkips(t)
     \/ /\ ~UpToDate(t) /\ file.state = "torn"
        /\ geometry' = Legacy /\ complete' = TRUE
        /\ UNCHANGED cached

Load(t) == LoadEnds(t) /\ (LoadSkips(t) \/ LoadTakes(t))

(* POST /save of the studio: the open truncates the file and the dump      *)
(* fills it.  The studio may die in between and be started again.  Two     *)
(* saves are further apart than the resolution of the time, one save need  *)
(* not be.                                                                 *)
Truncate ==
  /\ file.save < MaxSaves
  /\ \E sound \in BOOLEAN :
       file' = [state |-> "torn", save |-> file.save + 1, sound |-> sound]
  /\ mtime' = mtime + 1
  /\ UNCHANGED <<geometry, complete, cached, look>>

Dump ==
  /\ file.state = "torn"
  /\ file' = [file EXCEPT !.state = "whole"]
  /\ \E tick \in 0..1 : mtime' = mtime + tick
  /\ UNCHANGED <<geometry, complete, cached, look>>

StudioSave == Truncate \/ Dump

ReadGeometry(t) == Check(t) \/ Stat(t) \/ Load(t)

MapperNext == StudioSave \/ \E t \in Threads : ReadGeometry(t)

(* The cameras ask for their zones again and again, so that a thread that  *)
(* finds the file stale goes on; the studio saves when it likes and may    *)
(* never finish.                                                           *)
MapperSpec ==
  /\ MapperInit
  /\ [][MapperNext]_mapperVars
  /\ \A t \in Threads : WF_mapperVars(ReadGeometry(t))

------------------------------------------------------------------------------

MapperTypeOK ==
  /\ file \in [state : {"absent", "torn", "whole"}, save : 0..MaxSaves, sound : BOOLEAN]
  /\ mtime \in Nat
  /\ geometry \in Nat
  /\ complete \in BOOLEAN
  /\ cached \in Nat
  /\ look \in [Threads -> [at : {"idle", "stale", "loading"}, mtime : Nat]]

(* The time the mapper remembers is the time of what it holds: when it     *)
(* equals the time of a file that is whole, the geometry in use is the one *)
(* in the file, with all its shapes unless the file is misshapen.  Were it *)
(* not so, no later look would ever load the file (_check_reload skips     *)
(* it), and the cameras would keep zones the user had replaced, however    *)
(* the two looks at the time, the open and the write of another process    *)
(* interleave (zone_mapper.py, _load and _check_reload).                   *)
CachedIsCurrent ==
  file.state = "whole" /\ cached = mtime =>
    geometry = file.save /\ (file.sound => complete)

(* The contents never go back: not to an older save when two threads load  *)
(* one after the other with times taken in the other order, and not to the *)
(* legacy zones when one of them meets a half written file (zone_mapper.py,*)
(* _load).  The legacy zones a reader takes when the mapper has none for a *)
(* camera (zones.py 222) are the reader's.                                 *)
GeometryForward == [][geometry' >= geometry]_mapperVars

(* A save in the studio reaches the cameras: once the file is whole for    *)
(* good the mapper comes to hold it, and all its shapes if they are well   *)
(* formed, even if a look met the file half written, took the time of an   *)
(* older save or left the shapes of a misshapen one out (zone_mapper.py,   *)
(* _check_reload and _load).                                               *)
ReloadSettles ==
  <>[](file.state = "whole" => geometry = file.save /\ (file.sound => complete))

==============================================================================
