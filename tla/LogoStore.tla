-------------------------------- MODULE LogoStore --------------------------------
(***************************************************************************)
(* The style templates of a tenant (modules/export/branding-routes.ts) and *)
(* the objects their logos are stored in (modules/export/logo-upload.ts).  *)
(*                                                                         *)
(* An upload reads the template, deletes the object of the old logo, puts  *)
(* the new one and records its key; each is a call of its own.  The key    *)
(* has the time of the upload in it and is taken to be new.  A logo that   *)
(* was given as a URL is deleted like a key, to no effect.  Export jobs    *)
(* name a style template without a foreign key.                            *)
(***************************************************************************)
CONSTANTS
    StyleIds,
    LogoKeys,
    Url, NoLogo, NoStyle,   \* a URL given as logo, none, no style template
    Uploads                 \* requests in flight

ASSUME LogosAreDistinct == /\ {Url, NoLogo, NoStyle} \cap LogoKeys = {}
                           /\ NoStyle \notin {Url, NoLogo} \cup StyleIds

VARIABLES
    style,                  \* id -> its logo
    styleOf,                \* key -> the template it was put for
    objects,                \* the keys in the bucket
    upload,                 \* request -> what its handler does next
    exported,               \* templates that export jobs name
    raced,                  \* history: named when they were not there, or when
                            \* a deletion had already counted the jobs
    failing,                \* history: their last upload failed
    untidy                  \* history: their uploads overlapped or failed, or
                            \* a logo was replaced by a URL or with its template
logoVars == <<style, styleOf, objects, upload, exported, raced, failing, untidy>>

NoUpload == [at |-> "idle"]
Styles == {s \in StyleIds : style[s] # NoStyle}
On(s) == {u \in Uploads : upload[u] # NoUpload /\ upload[u].style = s}
Goes(u, step) == upload' = [upload EXCEPT ![u] = step]

-----------------------------------------------------------------------------
\* The id is new.
CreateStyle(s) ==
    /\ s \notin Styles \cup exported \cup untidy
    /\ \E logo \in {NoLogo, Url} : style' = [style EXCEPT ![s] = logo]
    /\ UNCHANGED <<styleOf, objects, upload, exported, raced, failing, untidy>>

UpdateStyle(s) ==
    /\ s \in Styles
    /\ style' = [style EXCEPT ![s] = Url]
    /\ untidy' = untidy \cup {s}
    /\ UNCHANGED <<styleOf, objects, upload, exported, raced, failing>>

\* Mutant: templates are deleted whether or not jobs name them.
CountNothing(u, s) ==
    /\ upload[u] = NoUpload /\ s \in Styles
    /\ Goes(u, [at |-> "erase", style |-> s])
    /\ untidy' = untidy \cup {s}
    /\ UNCHANGED <<style, styleOf, objects, exported, raced, failing>>

\* DELETE counts the jobs that name the template and then deletes it.
CountJobs(u, s) ==
    /\ upload[u] = NoUpload /\ s \in Styles /\ s \notin exported
    /\ Goes(u, [at |-> "erase", style |-> s])
    /\ untidy' = untidy \cup {s}
    /\ UNCHANGED <<style, styleOf, objects, exported, raced, failing>>

DeleteStyle(u) ==
    /\ upload[u].at = "erase"
    /\ style' = [style EXCEPT ![upload[u].style] = NoStyle]
    /\ Goes(u, NoUpload)
    /\ UNCHANGED <<styleOf, objects, exported, raced, failing, untidy>>

\* A new export job names any id, with no look at the style templates.
ExportWith(s) ==
    /\ exported' = exported \cup {s}
    /\ raced' = IF s \notin Styles \/ \E u \in On(s) : upload[u].at = "erase"
                THEN raced \cup {s} ELSE raced
    /\ UNCHANGED <<style, styleOf, objects, upload, failing, untidy>>

-----------------------------------------------------------------------------
ReadStyle(u, s) ==
    /\ upload[u] = NoUpload /\ s \in Styles
    /\ Goes(u, IF style[s] = NoLogo THEN [at |-> "put", style |-> s]
                ELSE [at |-> "delete", style |-> s, old |-> style[s]])
    /\ untidy' = IF On(s) = {} THEN untidy ELSE untidy \cup {s}
    /\ UNCHANGED <<style, styleOf, objects, exported, raced, failing>>

\* Mutant: the old object stays.
KeepOld(u) ==
    /\ upload[u].at = "delete"
    /\ Goes(u, [at |-> "put", style |-> upload[u].style])
    /\ UNCHANGED <<style, styleOf, objects, exported, raced, failing, untidy>>

\* An error is logged and ignored.
DeleteOld(u) ==
    LET s == upload[u].style IN
    /\ upload[u].at = "delete"
    /\ \/ objects' = objects \ {upload[u].old} /\ UNCHANGED untidy
       \/ untidy' = untidy \cup {s} /\ UNCHANGED objects
    /\ Goes(u, [at |-> "put", style |-> s])
    /\ UNCHANGED <<style, styleOf, exported, raced, failing>>

\* Mutant: the key is recorded before the object is there.
RecordFirst(u) ==
    LET s == upload[u].style IN
    /\ upload[u].at = "put" /\ s \in Styles
    /\ \E k \in LogoKeys :
          /\ styleOf[k] = NoStyle
          /\ styleOf' = [styleOf EXCEPT ![k] = s]
          /\ style' = [style EXCEPT ![s] = k]
    /\ Goes(u, NoUpload)
    /\ UNCHANGED <<objects, exported, raced, failing, untidy>>

\* Mutant: the key has the time in it but not the template.
UploadByTime(u) ==
    LET s == upload[u].style IN
    /\ upload[u].at = "put"
    /\ \E k \in LogoKeys :
          /\ styleOf' = [styleOf EXCEPT ![k] = s]
          /\ objects' = objects \cup {k}
          /\ Goes(u, [at |-> "record", style |-> s, key |-> k])
    /\ UNCHANGED <<style, exported, raced, failing, untidy>>

UploadLogo(u) ==
    LET s == upload[u].style IN
    /\ upload[u].at = "put"
    /\ \E k \in LogoKeys :
          /\ styleOf[k] = NoStyle
          /\ styleOf' = [styleOf EXCEPT ![k] = s]
          /\ objects' = objects \cup {k}
          /\ Goes(u, [at |-> "record", style |-> s, key |-> k])
    /\ UNCHANGED <<style, exported, raced, failing, untidy>>

\* The update of a template that is gone throws.
Record(u) ==
    LET s == upload[u].style IN
    /\ upload[u].at = "record" /\ s \in Styles
    /\ style' = [style EXCEPT ![s] = upload[u].key]
    /\ failing' = failing \ {s}
    /\ Goes(u, NoUpload)
    /\ UNCHANGED <<styleOf, objects, exported, raced, untidy>>

\* A call throws, or the process dies.
UploadFails(u) ==
    /\ upload[u] # NoUpload
    /\ failing' = failing \cup {upload[u].style}
    /\ untidy' = untidy \cup {upload[u].style}
    /\ Goes(u, NoUpload)
    /\ UNCHANGED <<style, styleOf, objects, exported, raced>>

-----------------------------------------------------------------------------
LogoInit ==
    /\ style = [s \in StyleIds |-> NoStyle]
    /\ styleOf = [k \in LogoKeys |-> NoStyle]
    /\ objects = {}
    /\ upload = [u \in Uploads |-> NoUpload]
    /\ exported = {} /\ raced = {} /\ failing = {} /\ untidy = {}

LogoNext ==
    \/ \E s \in StyleIds : CreateStyle(s) \/ UpdateStyle(s) \/ ExportWith(s)
    \/ \E u \in Uploads :
          \/ \E s \in StyleIds : CountJobs(u, s) \/ ReadStyle(u, s)
          \/ DeleteStyle(u) \/ DeleteOld(u) \/ UploadLogo(u) \/ Record(u)
          \/ UploadFails(u)

-----------------------------------------------------------------------------
\* A template's logo is none, a URL or a key that was made for the template,
\* and only keys that were made are stored.
LogoTypeOK ==
    /\ \A s \in Styles :
          style[s] \in {NoLogo, Url} \cup {k \in LogoKeys : styleOf[k] = s}
    /\ \A k \in objects : styleOf[k] # NoStyle
    /\ \A u \in Uploads : upload[u] # NoUpload => upload[u].style \in StyleIds
    /\ failing \subseteq untidy

\* A logo that is a key has its object, uploads overlapping in whatever way,
\* unless an upload of this template has deleted it and not yet recorded
\* another, or failed in between (logoUploadHandler).
LogoIsThere ==
    \A s \in Styles :
        style[s] \in LogoKeys \ objects =>
            \/ s \in failing
            \/ \E u \in On(s) : upload[u].at \in {"put", "record"}

\* Every stored object is the logo of its template or that of an upload about
\* to record it, as long as the uploads of a template come one at a time and
\* succeed, and neither a URL nor the deletion of the template replaces it.
NothingLeftBehind ==
    \A k \in objects :
        \/ styleOf[k] \in untidy
        \/ style[styleOf[k]] = k
        \/ \E u \in On(styleOf[k]) : upload[u].at = "record" /\ upload[u].key = k

\* A style template that export jobs name is there, unless it was not when it
\* was named, or was being deleted by a request that had counted before.
ExportedStylesStay == exported \ Styles \subseteq raced

\* A logo has its object unless an upload is between deletion and record or
\* failed there, no object is left behind by uploads one at a time, and style
\* templates that export jobs name stay.
LogosAreSound ==
    LogoTypeOK /\ LogoIsThere /\ NothingLeftBehind /\ ExportedStylesStay
=============================================================================
