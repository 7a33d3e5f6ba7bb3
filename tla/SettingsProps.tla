--------------------------- MODULE SettingsProps ----------------------------
(***************************************************************************)
(* What the settings promise.                                              *)
(***************************************************************************)
EXTENDS Settings

Idle == timer = FALSE /\ todo = << >> /\ loads = {} /\ writers = << >>

Saved == {k \in Keys : GroupOf[k] # Notification}

Loaded == Groups \ {Notification} \subseteq ready

\* The text c of the file holds what s shows in setting k: the same value, or
\* for the place the same directory, as far as c has the key.  That an update
\* is available is saved but not loaded, so that c may say so when the window
\* does not; and the latest version counts only where c does.
Holds(c, s, k) ==
    c[k] # Absent =>
        /\ k \notin {Place, Available, Latest} => c[k] = s[k]
        /\ k = Place => Slash[c[k]] = Slash[s[k]]
        /\ k = Available /\ s[k] = Yes => c[k] = Yes
        /\ k = Latest /\ c[Available] = Yes /\ "early" \notin mishaps => c[k] = s[k]

\* When nothing is left to do, what the window shows is in the file: the last
\* change of each setting has gone through the setter, a task of the pool, the
\* timer and another task (setX, onUpdateValue, flush), and so has the place
\* that is chosen when none is set and the version that an update has.  Tasks
\* that overtake others break it, and so does a flush that fails; the group
\* Notification, whose changes are never saved, is left out
\* (SettingsModel.cpp:649).
Kept ==
    running /\ Idle /\ mishaps \cap {"order", "overlap", "failed"} = {} =>
        file \in Configs /\ \A k \in Saved : Holds(file, shown, k)

\* While the program runs and does not write, the file can be read, also after
\* a crash in the middle of a flush (flush, repairSettingsFile): two flushes at
\* once or a write that fails are all that can damage it for the next start.
Healthy ==
    running /\ writers = << >> /\ mishaps \cap {"overlap", "failed"} = {} =>
        file \in Configs

\* A restart brings back what the window showed when the program ended, if it
\* had saved it by then and the file has the key (loadSettingsFromFile,
\* onConfigResult): the place as a directory; the latest version if the file
\* says that there is one; but not that there is an update, which the user has
\* to ask for again (SettingsModel.cpp:671).
Resumes ==
    running /\ Idle /\ exits > 0 /\ ~changed /\ Loaded
        /\ mishaps \cap {"cut", "unsaved", "order", "overlap", "failed"} = {}
    => \A k \in Saved : file[k] # Absent =>
           /\ k \notin {Place, Available, Latest} => shown[k] = last[k]
           /\ k = Place => Slash[shown[k]] = Slash[last[k]]
           /\ k = Available => shown[k] = No
           /\ k = Latest /\ "early" \notin mishaps =>
                  shown[k] = IF file[Available] = Yes THEN last[k] ELSE Blank

\* Refuted: the file list acts by the settings that the window shows, after a
\* load as after a change (onSettingsChanged).
Told == running /\ Idle /\ Loaded => \A k \in Listened : told[k] = shown[k]

\* Refuted: a restart brings back the place as it was shown.
PlaceResumes ==
    running /\ Idle /\ exits > 0 /\ ~changed /\ Loaded
        /\ mishaps = {} /\ file[Place] # Absent => shown[Place] = last[Place]
=============================================================================
