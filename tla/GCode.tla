-------------------------------- MODULE GCode --------------------------------
(***************************************************************************)
(* The G-code page (GCodePage.tsx, gcodeApi.ts): a sample generated or a   *)
(* file uploaded, previewed and translated into a stored program, and the  *)
(* program run.  Every answer may come after the user has chosen another   *)
(* file.  A source is a file or a sample; the program made of it carries   *)
(* its name, and so does the path drawn.                                   *)
(***************************************************************************)
EXTENDS Naturals, FiniteSets

CONSTANTS MaxFiles, \* bound: files the user chooses
          MaxCalls, \* bound: requests of one behaviour
          MaxInFlight \* bound: requests under way at once

Sample == 0              \* the source generated by the Brain
Source == 0..MaxFiles
None == MaxFiles + 1     \* null

VARIABLES
  selectedSample,          \* whether the list of samples has come
  file, fileId,            \* selectedFile; the file stored under fileId
  preview, result,         \* sources of the path and of the program shown
  runOf, runSteps,         \* source of the run shown; of the steps beside it
  generating, uploading, previewing, translating,
  errors,                  \* messages shown
  calls, sent              \* requests under way, with what their handler holds

vars == <<selectedSample, file, fileId, preview, result, runOf, runSteps, generating, uploading,
          previewing, translating, errors, calls, sent>>
flags == <<generating, uploading, previewing, translating>>
shown == <<file, fileId, preview, result, runOf, runSteps>>

-----------------------------------------------------------------------------
(* gcodeApi.ts: each wrapper sends one request; a refusal is thrown. *)

Send(op, src) ==
  /\ sent < MaxCalls /\ sent' = sent + 1
  /\ Cardinality(calls) < MaxInFlight
  /\ calls' = calls \union {[op |-> op, src |-> src, n |-> sent + 1]}

listGcodeSamples == Send("list", None)
generateGcodeSample == Send("generate", Sample)
uploadGcodeFile == Send("upload", file)
previewGcode == Send("preview", fileId)
translateGcode == Send("translate", fileId)

-----------------------------------------------------------------------------
(* The handlers of the page *)

SamplesAnswered(c, ok) ==
  /\ selectedSample' = (selectedSample \/ ok)
  /\ UNCHANGED <<flags, shown, errors>>

handleGenerateSample ==
  /\ selectedSample
  /\ generating' = TRUE /\ errors' = errors \ {"generate"}
  /\ generateGcodeSample
  /\ UNCHANGED <<selectedSample, uploading, previewing, translating, shown>>

\* Program and path change together.
Shows(c, ok) ==
  IF ok THEN result' = c.src /\ preview' = c.src ELSE UNCHANGED <<result, preview>>
Fails(what, ok) == errors' = IF ok THEN errors ELSE errors \union {what}

GenerateAnswered(c, ok) ==
  /\ Shows(c, ok) /\ Fails("generate", ok) /\ generating' = FALSE
  /\ UNCHANGED <<selectedSample, uploading, previewing, translating, file, fileId, runOf, runSteps>>

handleFileChange ==
  /\ \E f \in 1..MaxFiles \union {None} :
       /\ f # file /\ file' = f
  /\ fileId' = None /\ preview' = None /\ result' = None /\ runOf' = None
  /\ errors' = errors \ {"upload", "preview", "translate"}
  /\ UNCHANGED <<selectedSample, runSteps, flags, calls, sent>>

handleUpload ==
  /\ file # None
  /\ uploading' = TRUE /\ errors' = errors \ {"upload"}
  /\ uploadGcodeFile
  /\ UNCHANGED <<selectedSample, generating, previewing, translating, shown>>

\* The file is taken for the selected one, whichever that is by now.
UploadAnswered(c, ok) ==
  /\ fileId' = IF ok THEN c.src ELSE fileId
  /\ Fails("upload", ok) /\ uploading' = FALSE
  /\ UNCHANGED <<selectedSample, generating, previewing, translating, file, preview, result, runOf,
                 runSteps>>

busy == uploading \/ previewing \/ translating

handlePreview ==
  /\ fileId # None
  /\ previewing' = TRUE /\ errors' = errors \ {"preview"}
  /\ previewGcode
  /\ UNCHANGED <<selectedSample, generating, uploading, translating, shown>>

PreviewAnswered(c, ok) ==
  /\ preview' = IF ok THEN c.src ELSE preview
  /\ Fails("preview", ok) /\ previewing' = FALSE
  /\ UNCHANGED <<selectedSample, generating, uploading, translating, file, fileId, result, runOf,
                 runSteps>>

handleTranslate ==
  /\ fileId # None
  /\ translating' = TRUE /\ errors' = errors \ {"translate"}
  /\ translateGcode
  /\ UNCHANGED <<selectedSample, generating, uploading, previewing, shown>>

TranslateAnswered(c, ok) ==
  /\ Shows(c, ok) /\ Fails("translate", ok) /\ translating' = FALSE
  /\ UNCHANGED <<selectedSample, generating, uploading, previewing, file, fileId, runOf, runSteps>>

handleRun ==
  /\ result # None
  /\ errors' = errors \ {"run"}
  /\ Send("run", result)
  /\ UNCHANGED <<selectedSample, flags, shown>>

\* Mutant of RunAnswered: the steps are those of the program shown by now.
StepsShownNow(c, ok) ==
  /\ IF ok THEN runSteps' = result /\ runOf' = c.src ELSE UNCHANGED <<runSteps, runOf>>
  /\ Fails("run", ok)
  /\ UNCHANGED <<selectedSample, flags, file, fileId, preview, result>>

\* The steps are those of the program of the click.
RunAnswered(c, ok) ==
  /\ IF ok THEN runSteps' = c.src /\ runOf' = c.src ELSE UNCHANGED <<runSteps, runOf>>
  /\ Fails("run", ok)
  /\ UNCHANGED <<selectedSample, flags, file, fileId, preview, result>>

-----------------------------------------------------------------------------
(* What the page lets click. *)

SampleCard == ~generating /\ handleGenerateSample
UploadCard ==
  \/ handleFileChange
  \/ fileId = None /\ ~uploading /\ handleUpload
\* Nothing disables "Run" until the first run is shown.
Actions ==
  \/ ~busy /\ (handlePreview \/ handleTranslate)
  \/ runOf = None /\ handleRun

RunClosed ==
  /\ runOf # None /\ runOf' = None
  /\ UNCHANGED <<selectedSample, file, fileId, preview, result, runSteps, flags, errors, calls,
                 sent>>

Answer ==
  \E c \in calls, ok \in BOOLEAN :
    /\ calls' = calls \ {c}
    /\ \/ c.op = "list" /\ SamplesAnswered(c, ok)
       \/ c.op = "generate" /\ GenerateAnswered(c, ok)
       \/ c.op = "upload" /\ UploadAnswered(c, ok)
       \/ c.op = "preview" /\ PreviewAnswered(c, ok)
       \/ c.op = "translate" /\ TranslateAnswered(c, ok)
       \/ c.op = "run" /\ RunAnswered(c, ok)
    /\ UNCHANGED sent

-----------------------------------------------------------------------------
Init ==
  /\ selectedSample = FALSE /\ file = None /\ fileId = None /\ preview = None /\ result = None
  /\ runOf = None /\ runSteps = None /\ errors = {}
  /\ generating = FALSE /\ uploading = FALSE /\ previewing = FALSE /\ translating = FALSE
  /\ calls = {[op |-> "list", src |-> None, n |-> 1]} /\ sent = 1

Next ==
  \/ SampleCard \/ UploadCard \/ Actions \/ RunClosed \/ Answer

Spec == Init /\ [][Next]_vars

-----------------------------------------------------------------------------
TypeOK ==
  /\ {file, fileId, runSteps, runOf} \subseteq Source \union {None}
  /\ {preview, result} \subseteq Source \union {None}
  /\ {generating, uploading, previewing, translating, selectedSample} \subseteq BOOLEAN
  /\ errors \subseteq {"generate", "upload", "preview", "translate", "run"}

(* The progress panel lists the steps of the program that runs, whichever  *)
(* program, file or sample took the place of the one "Run" was clicked for *)
(* and however often it was clicked (GCodePage handleRun).                 *)
RunShowsItsSteps == runOf # None => runSteps = runOf
=============================================================================
