----------------------------- MODULE FileStore -----------------------------
(***************************************************************************)
(* The commands of Cli on either store: the bucket object, written by one  *)
(* request, or in development a local file (--file, CONFIG_FILE), written  *)
(* by FileStore.Save to a temporary file and renamed, and by the web tier  *)
(* (EXPORT_LOCAL_PATH) in place: opened, which truncates it, then filled.  *)
(*                                                                         *)
(* object is what a Load of the file returns: an absent or empty file is   *)
(* an empty config, a torn one does not parse.  A rename replaces the file,*)
(* so that who still has the old one open writes to a file without a name. *)
(***************************************************************************)
EXTENDS Cli

CONSTANT Exports   \* requests of the web tier that may export at once

VARIABLES
    local,       \* whether the store is a file
    content,     \* the file: whole, blank (absent or empty), or torn
    temp,        \* each command's temporary file: none, open, or closed
    writing,     \* exports that have the file open
    adrift,      \* exports that have a file open that lost its name
    spoilt,      \* history: an export wrote beside another, or ended half-way
    last         \* history: the config last saved in full, if the file has not
                 \* been emptied since

fileVars == <<local, content, temp, writing, adrift, spoilt, last>>
fvars == <<vars, fileVars>>

FInit ==
    /\ Init
    /\ local \in BOOLEAN
    /\ content \in {"whole", "blank"}
    /\ content = "blank" => object = {}
    /\ temp = [o \in Operators |-> "none"]
    /\ writing = {}
    /\ adrift = {}
    /\ spoilt = FALSE
    /\ last = object

-----------------------------------------------------------------------------
(* filestore.go *)

\* Load fails on a torn file, and the command ends there.
Command(o) ==
    /\ content # "torn"
    /\ Add(o) \/ Remove(o)
    /\ UNCHANGED fileVars

Invalid(o) == SaveRefused(o) /\ UNCHANGED fileVars

\* Mutated form of WriteTemp: a config is written unseen.
WriteTempUnseen(o) ==
    /\ stage[o] = "save" /\ temp[o] = "none"
    /\ temp' = [temp EXCEPT ![o] = "open"]
    /\ UNCHANGED <<vars, local, content, writing, adrift, spoilt, last>>

\* Save validates, then creates a temporary file and writes to it.
WriteTemp(o) ==
    /\ stage[o] = "save" /\ temp[o] = "none"
    /\ Validate(draft[o])
    /\ temp' = [temp EXCEPT ![o] = "open"]
    /\ UNCHANGED <<vars, local, content, writing, adrift, spoilt, last>>

CloseTemp(o) ==
    /\ temp[o] = "open"
    /\ temp' = [temp EXCEPT ![o] = "closed"]
    /\ UNCHANGED <<vars, local, content, writing, adrift, spoilt, last>>

\* Mutated form of Rename: the file gets its name before it is written.
RenameOpen(o) ==
    /\ temp[o] \in {"open", "closed"}
    /\ object' = draft[o]
    /\ content' = IF temp[o] = "open" THEN "torn" ELSE "whole"
    /\ temp' = [temp EXCEPT ![o] = "none"]
    /\ writing' = {}
    /\ adrift' = adrift \cup writing
    /\ spoilt' = FALSE
    /\ last' = draft[o]
    /\ Finish(o)
    /\ UNCHANGED local

\* The temporary file takes the name from whatever file had it.
Rename(o) ==
    /\ temp[o] = "closed"
    /\ object' = draft[o]
    /\ content' = "whole"
    /\ temp' = [temp EXCEPT ![o] = "none"]
    /\ writing' = {}
    /\ adrift' = adrift \cup writing
    /\ spoilt' = FALSE
    /\ last' = draft[o]
    /\ Finish(o)
    /\ UNCHANGED local

\* Mutated form of SaveStops: the temporary file stays with the next command.
SaveStopsUntidy(o) ==
    /\ Faults
    /\ stage[o] = "save"
    /\ UNCHANGED object
    /\ Finish(o)
    /\ UNCHANGED fileVars

\* Save fails before the rename and removes its temporary file, or the process
\* is killed, which leaves a file that nobody looks at.
SaveStops(o) ==
    /\ Faults
    /\ stage[o] = "save"
    /\ UNCHANGED object
    /\ Finish(o)
    /\ temp' = [temp EXCEPT ![o] = "none"]
    /\ UNCHANGED <<local, content, writing, adrift, spoilt, last>>

FileStep(o) ==
    Command(o) \/ Invalid(o) \/ WriteTemp(o) \/ CloseTemp(o) \/ Rename(o) \/ SaveStops(o)

-----------------------------------------------------------------------------
(* gcs-export.ts with EXPORT_LOCAL_PATH *)

\* What a write of the web tier leaves alone, and whom it overtakes.
Web == UNCHANGED <<stage, order, draft, local, temp>> /\ Overtake

\* writeFile has the file emptied.
OpenFile(x) ==
    /\ x \notin writing \cup adrift
    /\ writing' = writing \cup {x}
    /\ object' = {}
    /\ content' = "blank"
    /\ spoilt' = (writing # {})
    /\ last' = {}
    /\ UNCHANGED adrift
    /\ Web

\* A part of the body has arrived.
FillPart(x) ==
    /\ x \in writing
    /\ object' = {}
    /\ content' = "torn"
    /\ UNCHANGED <<writing, adrift, spoilt, last>>
    /\ Web

\* All of it: the rows as they were when the export read them, whatever those are.
FillAll(x) ==
    /\ x \in writing
    /\ object' \in Exported
    /\ content' = "whole"
    /\ last' = object'
    /\ writing' = writing \ {x}
    /\ UNCHANGED <<adrift, spoilt>>
    /\ Web

\* All of it, over the longer body of another export, whose end remains.
FillOver(x) ==
    /\ x \in writing
    /\ spoilt
    /\ object' = {}
    /\ content' = "torn"
    /\ writing' = writing \ {x}
    /\ UNCHANGED <<adrift, spoilt, last>>
    /\ Web

\* The write fails, or the web tier is killed.
FillStops(x) ==
    /\ Faults
    /\ x \in writing
    /\ writing' = writing \ {x}
    /\ spoilt' = TRUE
    /\ UNCHANGED <<vars, local, content, temp, adrift, last>>

\* Whatever it writes, and however it ends, to a file without a name.
EndAdrift(x) ==
    /\ x \in adrift
    /\ adrift' = adrift \ {x}
    /\ UNCHANGED <<vars, local, content, temp, writing, spoilt, last>>

ExportStep(x) ==
    \/ OpenFile(x)
    \/ FillPart(x)
    \/ FillAll(x)
    \/ FillOver(x)
    \/ FillStops(x)
    \/ EndAdrift(x)

-----------------------------------------------------------------------------

FNext ==
    \/ ~local /\ Next /\ UNCHANGED fileVars
    \/ local /\ \E o \in Operators : FileStep(o)
    \/ local /\ \E x \in Exports : ExportStep(x)

FSpec == FInit /\ [][FNext]_fvars

-----------------------------------------------------------------------------
(* Properties *)

\* Every variable has its type, and a temporary file is that of a command in its
\* Save, past the validation.
FileOK ==
    /\ local \in BOOLEAN
    /\ content \in {"whole", "blank", "torn"}
    /\ temp \in [Operators -> {"none", "open", "closed"}]
    /\ writing \subseteq Exports
    /\ adrift \subseteq Exports
    /\ spoilt \in BOOLEAN
    /\ last \in SUBSET Mapping
    /\ \A o \in Operators :
         temp[o] # "none" => stage[o] = "save" /\ Validate(draft[o])

\* "atomically writes the config (temp file + rename)": with no export of the web
\* tier under way or spoilt, what a Load returns is the config last saved in full,
\* wherever a Save was interrupted, and whatever an export that had the file open
\* before a rename still writes.
SettledFile ==
    local /\ ~spoilt /\ writing = {} => content # "torn" /\ object = last

\* On either store the commands do what Cli says: a save is validated, and takes
\* effect in one step or not at all.
ImplementsCli == Spec
=============================================================================
