---------------------------- MODULE AlertsProofs ----------------------------
(***************************************************************************)
(* Proofs about the alert centre: for any accounts, keys, settings and     *)
(* goroutines, any silences, and any best-effort writes that fail.         *)
(*                                                                         *)
(* Sound is the inductive invariant: the centre is coherent, what the      *)
(* goroutines hold is of its type and its times are recent, and the window *)
(* tells the truth about the outcomes it was given.                        *)
(***************************************************************************)
EXTENDS Alerts, FiniteSetTheorems, SequenceTheorems, TLAPS

AlertEvents == {"none", "raised", "escalated", "resolved", "withheld", "lost"}
Severities == {"none", "warning", "critical"}
Notice == [event : AlertEvents, severity : Severities]
Center == [alerts : [Sources -> AlertType], rows : [Sources -> AlertType],
           missed : SUBSET MayFail, told : [Sources -> Notice]]

\* What the receiver was told last tells of an alert.
Heard(item, told) ==
  /\ told.event \in {"raised", "escalated"}
  /\ item.severity = "critical" => told.severity = "critical"

\* What holds of one alert, its row, whether a write of it was missed, and what was told
\* of it.  The receiver has heard of the row too: a crash makes it the alert.
SilentUntil(item) == item.until # 0 => item.status = "silenced"
RowOf(item, row) ==
  /\ row.status = item.status /\ row.until = item.until
  /\ item.severity = "critical" => row.severity = "critical"
Knows(item, told) ==
  Active(item) /\ told.event \notin {"withheld", "lost"} => Heard(item, told)
Agrees(item, row, missed, told) ==
  /\ SilentUntil(item) /\ SilentUntil(row)
  /\ ~missed => RowOf(item, row)
  /\ Knows(item, told)
  /\ ~missed => Knows(row, told)
AgreesAt(c, src) == Agrees(c.alerts[src], c.rows[src], src \in c.missed, c.told[src])
Coherent(c) == c \in Center /\ \A src \in Sources : AgreesAt(c, src)

-----------------------------------------------------------------------------
(* What the operations on the centre do, field by field.                   *)

\* A change of alerts is a change of nothing else.
LEMMA PutFields ==
  ASSUME NEW c \in Center, NEW f \in [Sources -> AlertType], NEW d,
         d = [c EXCEPT !.alerts = f]
  PROVE  /\ d \in Center /\ d.alerts = f
         /\ d.rows = c.rows /\ d.missed = c.missed /\ d.told = c.told
BY DEF Center

\* What is saved is in its row, unless the write failed.
LEMMA SavedFields ==
  ASSUME NEW c \in Center, NEW S, S \subseteq Sources, NEW fails, fails \subseteq MayFail,
         NEW d, d = Saved(c, S, fails)
  PROVE  /\ d \in Center /\ d.alerts = c.alerts /\ d.told = c.told
         /\ \A src \in Sources :
              /\ src \in S \ fails => d.rows[src] = c.alerts[src]
              /\ src \notin S \ fails => d.rows[src] = c.rows[src]
              /\ src \in S => (src \in d.missed <=> src \in fails)
              /\ src \notin S => (src \in d.missed <=> src \in c.missed)
<1> PICK f : f = [src \in Sources |-> IF src \in S \ fails THEN c.alerts[src]
                                      ELSE c.rows[src]]
  OBVIOUS
<1> PICK m : m = (c.missed \ S) \cup (S \cap fails)
  OBVIOUS
<1>1. f \in [Sources -> AlertType] /\ m \in SUBSET MayFail
  BY DEF Center
<1>2. d = [c EXCEPT !.rows = f, !.missed = m]
  BY DEF Saved
<1>3. /\ d \in Center /\ d.alerts = c.alerts /\ d.told = c.told
      /\ d.rows = f /\ d.missed = m
  BY <1>1, <1>2 DEF Center
<1>4. ASSUME NEW src \in Sources
      PROVE  /\ src \in S \ fails => d.rows[src] = c.alerts[src]
             /\ src \notin S \ fails => d.rows[src] = c.rows[src]
             /\ src \in S => (src \in d.missed <=> src \in fails)
             /\ src \notin S => (src \in d.missed <=> src \in c.missed)
  BY <1>3
<1> QED
  BY <1>3, <1>4

\* What saving leaves alone.
LEMMA SavedRest ==
  ASSUME NEW c \in Center, NEW S, S \subseteq Sources, NEW fails, fails \subseteq MayFail,
         NEW d, d = Saved(c, S, fails)
  PROVE  d \in Center /\ d.alerts = c.alerts /\ d.told = c.told
BY SavedFields

\* What is told is the event, with the severity, or that it was withheld.
LEMMA ToldFields ==
  ASSUME NEW c \in Center, NEW S, S \subseteq Sources, NEW event \in AlertEvents,
         NEW s, NEW d, d = Told(c, S, event, s)
  PROVE  /\ d \in Center /\ d.alerts = c.alerts /\ d.rows = c.rows
         /\ d.missed = c.missed
         /\ \A src \in Sources :
              /\ src \notin S => d.told[src] = c.told[src]
              /\ src \in S =>
                   \/ d.told[src].event = "withheld"
                   \/ /\ d.told[src].event = event
                      /\ d.told[src].severity = c.alerts[src].severity
<1> DEFINE N(src) == IF src \notin S THEN c.told[src]
                     ELSE IF Listens(s, c.alerts[src].severity)
                       THEN [event |-> event, severity |-> c.alerts[src].severity]
                       ELSE [event |-> "withheld", severity |-> "none"]
<1>1. ASSUME NEW src \in Sources
      PROVE  /\ N(src) \in Notice
             /\ src \in S => \/ N(src).event = "withheld"
                             \/ /\ N(src).event = event
                                /\ N(src).severity = c.alerts[src].severity
  <2>1. c.told[src] \in Notice /\ c.alerts[src].severity \in Severities
    BY DEF Center, AlertType, Severities
  <2>2. [event |-> event, severity |-> c.alerts[src].severity] \in Notice
    BY <2>1 DEF Notice
  <2>3. [event |-> "withheld", severity |-> "none"] \in Notice
    BY DEF Notice, AlertEvents, Severities
  <2> QED
    BY <2>1, <2>2, <2>3
<1> PICK f : f = [src \in Sources |-> N(src)]
  OBVIOUS
<1>2. f \in [Sources -> Notice]
  BY <1>1
<1>3. d = [c EXCEPT !.told = f]
  BY DEF Told
<1>4. /\ d \in Center /\ d.alerts = c.alerts /\ d.rows = c.rows
      /\ d.missed = c.missed /\ d.told = f
  BY <1>2, <1>3 DEF Center
<1>5. \A src \in Sources : src \notin S => N(src) = c.told[src]
  OBVIOUS
<1> QED
  BY <1>1, <1>4, <1>5

\* The same, of one alert.
LEMMA SavedOne ==
  ASSUME NEW c \in Center, NEW src \in Sources, NEW S, src \in S, \A x \in S : x = src,
         NEW fails, fails \subseteq MayFail, NEW d, d = Saved(c, S, fails)
  PROVE  /\ d \in Center /\ d.alerts = c.alerts /\ d.told = c.told
         /\ \A x \in Sources \ {src} : /\ d.rows[x] = c.rows[x]
                                       /\ x \in d.missed <=> x \in c.missed
         /\ src \in d.missed <=> src \in fails
         /\ src \in fails => d.rows[src] = c.rows[src]
         /\ src \notin fails => d.rows[src] = c.alerts[src]
<1>0. S \subseteq Sources
  OBVIOUS
<1>1. d \in Center /\ d.alerts = c.alerts /\ d.told = c.told
  BY <1>0, SavedFields
<1>2. ASSUME NEW x \in Sources
      PROVE  /\ x \in S \ fails => d.rows[x] = c.alerts[x]
             /\ x \notin S \ fails => d.rows[x] = c.rows[x]
             /\ x \in S => (x \in d.missed <=> x \in fails)
             /\ x \notin S => (x \in d.missed <=> x \in c.missed)
  BY <1>0, SavedFields
<1> QED
  BY <1>1, <1>2

\* The same, of one alert.
LEMMA ToldOne ==
  ASSUME NEW c \in Center, NEW src \in Sources, NEW S, src \in S, \A x \in S : x = src,
         NEW event \in AlertEvents, NEW s, NEW d, d = Told(c, S, event, s)
  PROVE  /\ d \in Center /\ d.alerts = c.alerts /\ d.rows = c.rows
         /\ d.missed = c.missed
         /\ \A x \in Sources \ {src} : d.told[x] = c.told[x]
         /\ \/ d.told[src].event = "withheld"
            \/ /\ d.told[src].event = event
               /\ d.told[src].severity = c.alerts[src].severity
<1>1. S \subseteq Sources
  OBVIOUS
<1>2. /\ d \in Center /\ d.alerts = c.alerts /\ d.rows = c.rows
      /\ d.missed = c.missed
      /\ \A x \in Sources :
           /\ x \notin S => d.told[x] = c.told[x]
           /\ x \in S =>
                \/ d.told[x].event = "withheld"
                \/ /\ d.told[x].event = event
                   /\ d.told[x].severity = c.alerts[x].severity
  BY <1>1, ToldFields
<1> QED
  BY <1>2


\* A status of its type is that of an alert that is active, or of one that reopens.
LEMMA ActiveOrNot ==
  ASSUME NEW item \in AlertType
  PROVE  Reopens(item) <=> ~Active(item)
BY DEF AlertType, Reopens, Active

-----------------------------------------------------------------------------
(* The operations on the centre, as a whole.                               *)

\* An alert that is raised: what of it is saved, and what is told of it.
LEMMA RaisedFields ==
  ASSUME NEW c \in Center, NEW src \in Sources, NEW severity \in {"warning", "critical"},
         NEW t \in Nat, NEW s, NEW fails \in SUBSET MayFail,
         NEW d, d = Raised(c, src, severity, t, s, fails),
         NEW item, item = c.alerts[src]
  PROVE  /\ d \in Center
         /\ \A x \in Sources \ {src} :
              /\ d.alerts[x] = c.alerts[x] /\ d.rows[x] = c.rows[x]
              /\ x \in d.missed <=> x \in c.missed
              /\ d.told[x] = c.told[x]
         /\ LET opens == Reopens(item) \/ Lapsed(item, t) \/ Escalates(item, severity) IN
              /\ d.alerts[src].severity = severity
              /\ d.alerts[src].status = IF opens THEN "open" ELSE item.status
              /\ d.alerts[src].until = IF opens THEN 0 ELSE item.until
         /\ IF Saves(item, severity, t)
              THEN /\ src \in d.missed <=> src \in fails
                   /\ d.rows[src] = IF src \in fails THEN c.rows[src]
                                    ELSE d.alerts[src]
              ELSE /\ src \in d.missed <=> src \in c.missed
                   /\ d.rows[src] = c.rows[src]
         /\ IF EventOf(item, severity) = "none" THEN d.told[src] = c.told[src]
            ELSE \/ d.told[src].event = "withheld"
                 \/ /\ d.told[src].event = EventOf(item, severity)
                    /\ d.told[src].severity = severity
<1> DEFINE opens == Reopens(item) \/ Lapsed(item, t) \/ Escalates(item, severity)
           again == [status |-> IF opens THEN "open" ELSE item.status,
                     severity |-> severity,
                     until |-> IF opens THEN 0 ELSE item.until,
                     seen |-> t]
<1>1. item \in AlertType
  BY DEF Center
<1>n. PICK new : new = again
  OBVIOUS
<1>2. /\ new \in AlertType /\ new.severity = severity
      /\ new.status = (IF opens THEN "open" ELSE item.status)
      /\ new.until = (IF opens THEN 0 ELSE item.until)
  BY <1>1, <1>n DEF AlertType
<1>S. PICK S : S = {src}
  OBVIOUS
<1>T. src \in S /\ \A x \in S : x = src
  BY <1>S
<1>f. PICK f : f = [x \in Sources |-> IF x = src THEN new ELSE c.alerts[x]]
  OBVIOUS
<1>3. f \in [Sources -> AlertType]
  BY <1>2, <1>f DEF Center
<1>p. PICK put : put = [c EXCEPT !.alerts = f]
  OBVIOUS
<1>4. /\ put \in Center /\ put.alerts = f /\ put.rows = c.rows
      /\ put.missed = c.missed /\ put.told = c.told
  BY <1>3, <1>p, PutFields
<1>s. PICK saved : saved = IF Saves(item, severity, t) THEN Saved(put, {src}, fails)
                         ELSE put
  OBVIOUS
<1>5. /\ saved \in Center /\ saved.alerts = f /\ saved.told = c.told
      /\ \A x \in Sources \ {src} : /\ saved.rows[x] = c.rows[x]
                                    /\ x \in saved.missed <=> x \in c.missed
      /\ IF Saves(item, severity, t)
           THEN /\ src \in saved.missed <=> src \in fails
                /\ saved.rows[src] = IF src \in fails THEN c.rows[src] ELSE new
           ELSE /\ src \in saved.missed <=> src \in c.missed
                /\ saved.rows[src] = c.rows[src]
  <2>1. CASE Saves(item, severity, t)
    <3>1. saved = Saved(put, S, fails)
      BY <1>S, <1>s, <2>1
    <3>2. /\ saved \in Center /\ saved.alerts = put.alerts /\ saved.told = put.told
          /\ \A x \in Sources \ {src} : /\ saved.rows[x] = put.rows[x]
                                        /\ x \in saved.missed <=> x \in put.missed
          /\ src \in saved.missed <=> src \in fails
          /\ src \in fails => saved.rows[src] = put.rows[src]
          /\ src \notin fails => saved.rows[src] = put.alerts[src]
      BY <1>4, <1>T, <3>1, SavedOne
    <3>3. f[src] = new
      BY <1>f
    <3> QED
      BY <1>4, <2>1, <3>2, <3>3
  <2>2. CASE ~Saves(item, severity, t)
    <3>1. saved = put
      BY <1>s, <2>2
    <3> QED
      BY <1>4, <2>2, <3>1
  <2> QED
    BY <2>1, <2>2
<1>6. d = IF EventOf(item, severity) = "none" THEN saved
          ELSE Told(saved, {src}, EventOf(item, severity), s)
  <2>1. f = [x \in Sources |-> IF x \in {src}
               THEN [status |-> IF opens THEN "open" ELSE c.alerts[x].status,
                     severity |-> severity,
                     until |-> IF opens THEN 0 ELSE c.alerts[x].until,
                     seen |-> t]
               ELSE c.alerts[x]]
    BY <1>f, <1>n
  <2> HIDE DEF opens
  <2> QED
    BY <1>p, <1>s, <2>1 DEF Raised, Put, opens
<1>7. EventOf(item, severity) \in AlertEvents
  BY DEF EventOf, AlertEvents
<1>8. CASE EventOf(item, severity) = "none"
  BY <1>f, <1>2, <1>5, <1>6, <1>8
<1>9. CASE EventOf(item, severity) # "none"
  <2>e. PICK event \in AlertEvents : event = EventOf(item, severity)
    BY <1>7
  <2>1. d = Told(saved, S, event, s)
    BY <1>6, <1>9, <1>S, <2>e
  <2>2. saved \in Center
    BY <1>5
  <2>3. /\ d \in Center /\ d.alerts = saved.alerts /\ d.rows = saved.rows
        /\ d.missed = saved.missed
        /\ \A x \in Sources \ {src} : d.told[x] = saved.told[x]
        /\ \/ d.told[src].event = "withheld"
           \/ /\ d.told[src].event = event
              /\ d.told[src].severity = saved.alerts[src].severity
    BY <1>T, <2>1, <2>2, ToldOne
  <2>4. f[src] = new /\ \A x \in Sources \ {src} : f[x] = c.alerts[x]
    BY <1>f
  <2>5. \/ d.told[src].event = "withheld"
        \/ /\ d.told[src].event = EventOf(item, severity)
           /\ d.told[src].severity = severity
    BY <1>2, <1>5, <2>e, <2>3, <2>4
  <2>6. /\ d.alerts[src] = new /\ d.rows = saved.rows /\ d.missed = saved.missed
        /\ \A x \in Sources \ {src} : d.alerts[x] = c.alerts[x] /\ d.told[x] = c.told[x]
    BY <1>5, <2>3, <2>4
  <2> QED
    BY <1>2, <1>5, <1>9, <2>3, <2>5, <2>6
<1> QED
  BY <1>8, <1>9

\* Raising an alert keeps the centre coherent.
LEMMA RaisedKeeps ==
  ASSUME NEW c, Coherent(c), NEW src \in Sources, NEW severity \in {"warning", "critical"},
         NEW t \in Nat, NEW s, NEW fails \in SUBSET MayFail
  PROVE  Coherent(Raised(c, src, severity, t, s, fails))
<1> PICK d : d = Raised(c, src, severity, t, s, fails)
  OBVIOUS
<1> PICK item : item = c.alerts[src]
  OBVIOUS
<1>0. c \in Center /\ item \in AlertType /\ AgreesAt(c, src)
  BY DEF Coherent, Center
<1>1. /\ d \in Center
      /\ \A x \in Sources \ {src} : AgreesAt(d, x)
  <2>1. \A x \in Sources \ {src} :
              /\ d.alerts[x] = c.alerts[x] /\ d.rows[x] = c.rows[x]
              /\ x \in d.missed <=> x \in c.missed
              /\ d.told[x] = c.told[x]
    BY <1>0, RaisedFields
  <2>2. d \in Center
    BY <1>0, RaisedFields
  <2> QED
    BY <2>1, <2>2 DEF Coherent, AgreesAt, Agrees
<1> DEFINE opens == Reopens(item) \/ Lapsed(item, t) \/ Escalates(item, severity)
           new == d.alerts[src]
<1>2. /\ new.severity = severity
      /\ new.status = (IF opens THEN "open" ELSE item.status)
      /\ new.until = (IF opens THEN 0 ELSE item.until)
  BY <1>0, RaisedFields
<1>3. IF Saves(item, severity, t)
        THEN /\ src \in d.missed <=> src \in fails
             /\ d.rows[src] = IF src \in fails THEN c.rows[src] ELSE new
        ELSE /\ src \in d.missed <=> src \in c.missed
             /\ d.rows[src] = c.rows[src]
  BY <1>0, RaisedFields
<1>4. IF EventOf(item, severity) = "none" THEN d.told[src] = c.told[src]
      ELSE \/ d.told[src].event = "withheld"
           \/ /\ d.told[src].event = EventOf(item, severity)
              /\ d.told[src].severity = severity
  BY <1>0, RaisedFields
<1>5. SilentUntil(new)
  BY <1>0, <1>2 DEF AgreesAt, Agrees, SilentUntil
<1>6. Knows(new, d.told[src])
  <2>1. CASE EventOf(item, severity) = "none"
    <3>1. ~Reopens(item) /\ ~Escalates(item, severity)
      BY <2>1 DEF EventOf
    <3>2. Active(item) /\ (severity = "critical" => item.severity = "critical")
      BY <1>0, <3>1, ActiveOrNot DEF Escalates
    <3> QED
      BY <1>0, <1>2, <1>4, <2>1, <3>2 DEF AgreesAt, Agrees, Knows, Heard
  <2>2. CASE EventOf(item, severity) # "none"
    <3>1. EventOf(item, severity) \in {"raised", "escalated"}
      BY <2>2 DEF EventOf
    <3> QED
      BY <1>2, <1>4, <2>2, <3>1 DEF Knows, Heard
  <2> QED
    BY <2>1, <2>2
<1>7. CASE Saves(item, severity, t)
  <2>1. SilentUntil(d.rows[src])
    <3>1. d.rows[src] = new \/ d.rows[src] = c.rows[src]
      BY <1>3, <1>7
    <3> QED
      BY <1>0, <1>5, <3>1 DEF AgreesAt, Agrees
  <2>2. src \notin d.missed => d.rows[src] = new
    BY <1>3, <1>7
  <2>3. RowOf(new, new)
    BY DEF RowOf
  <2> QED
    BY <1>1, <1>5, <1>6, <2>1, <2>2, <2>3 DEF Coherent, AgreesAt, Agrees
<1>8. CASE ~Saves(item, severity, t)
  <2>1. ~opens /\ (severity = "critical" => item.severity = "critical")
    BY <1>8 DEF Saves, Escalates
  <2>2. EventOf(item, severity) = "none"
    BY <1>8 DEF Saves, EventOf
  <2>3. d.rows[src] = c.rows[src] /\ d.told[src] = c.told[src]
        /\ (src \in d.missed <=> src \in c.missed)
    BY <1>3, <1>4, <1>8, <2>2
  <2>4. RowOf(item, c.rows[src]) => RowOf(new, d.rows[src])
    BY <1>2, <2>1, <2>3 DEF RowOf
  <2> QED
    BY <1>0, <1>1, <1>5, <1>6, <2>3, <2>4 DEF Coherent, AgreesAt, Agrees
<1> QED
  BY <1>7, <1>8

\* A change of alerts that are active, which leaves their severity alone and is saved,
\* keeps the centre coherent.
LEMMA ChangedKeeps ==
  ASSUME NEW c, Coherent(c), NEW S, S \subseteq Sources,
         NEW fails, fails \subseteq MayFail, NEW f, NEW put \in Center,
         /\ put.alerts = f /\ put.rows = c.rows
         /\ put.missed = c.missed /\ put.told = c.told,
         \A x \in Sources : x \notin S => f[x] = c.alerts[x],
         \A x \in S : /\ Active(c.alerts[x]) /\ SilentUntil(f[x])
                      /\ f[x].severity = c.alerts[x].severity,
         NEW d, d = Saved(put, S, fails)
  PROVE  Coherent(d) /\ d.alerts = f
<1>1. d \in Center /\ d.alerts = put.alerts /\ d.told = put.told
  BY SavedRest
<1>2. d \in Center /\ d.alerts = f /\ d.told = c.told
  BY <1>1
<1>3. ASSUME NEW x \in Sources
      PROVE  /\ x \in S \ fails => d.rows[x] = f[x]
             /\ x \notin S \ fails => d.rows[x] = c.rows[x]
             /\ x \in S => (x \in d.missed <=> x \in fails)
             /\ x \notin S => (x \in d.missed <=> x \in c.missed)
  BY SavedFields
<1>4. ASSUME NEW x \in Sources
      PROVE  AgreesAt(d, x)
  <2>0. AgreesAt(c, x) /\ c.told[x] = d.told[x] /\ d.alerts[x] = f[x]
    BY <1>2 DEF Coherent
  <2>1. CASE x \in S
    <3>1. Knows(f[x], d.told[x])
      BY <2>0, <2>1 DEF AgreesAt, Agrees, Knows, Heard
    <3>2. SilentUntil(f[x]) /\ SilentUntil(d.rows[x])
      BY <1>3, <2>0, <2>1 DEF AgreesAt, Agrees
    <3>3. x \notin d.missed => d.rows[x] = f[x]
      BY <1>3, <2>1
    <3>4. RowOf(f[x], f[x])
      BY DEF RowOf
    <3> QED
      BY <2>0, <3>1, <3>2, <3>3, <3>4 DEF AgreesAt, Agrees
  <2>2. CASE x \notin S
    <3>1. f[x] = c.alerts[x] /\ d.rows[x] = c.rows[x]
          /\ (x \in d.missed <=> x \in c.missed)
      BY <1>3, <2>2
    <3> QED
      BY <2>0, <3>1 DEF AgreesAt, Agrees
  <2> QED
    BY <2>1, <2>2
<1> QED
  BY <1>2, <1>4 DEF Coherent

\* Resolving alerts keeps the centre coherent.
LEMMA ResolvedKeeps ==
  ASSUME NEW c, Coherent(c), NEW S, S \subseteq Sources, NEW s,
         NEW fails, fails \subseteq MayFail
  PROVE  Coherent(Resolved(c, S, s, fails))
<1>R. PICK R : R = {src \in S : Resolvable(c.alerts[src])}
  OBVIOUS
<1>f. PICK f : f = [x \in Sources |-> IF x \in R THEN Closed(c.alerts[x])
                                      ELSE c.alerts[x]]
  OBVIOUS
<1>p. PICK put : put = [c EXCEPT !.alerts = f]
  OBVIOUS
<1>e. PICK e : e = Saved(put, R, fails)
  OBVIOUS
<1>d. PICK d : d = Told(e, R, "resolved", s)
  OBVIOUS
<1>1. d = Resolved(c, S, s, fails)
  BY <1>R, <1>f, <1>p, <1>e, <1>d DEF Resolved, Put
<1>2. R \subseteq Sources /\ \A x \in R : Active(c.alerts[x])
  BY <1>R DEF Resolvable
<1>3. ASSUME NEW x \in Sources
      PROVE  /\ Closed(c.alerts[x]) \in AlertType
             /\ Closed(c.alerts[x]).status = "resolved"
             /\ Closed(c.alerts[x]).until = 0
             /\ Closed(c.alerts[x]).severity = c.alerts[x].severity
  <2>1. c.alerts[x] \in AlertType
    BY DEF Coherent, Center
  <2> QED
    BY <2>1 DEF AlertType, Closed
<1>4. f \in [Sources -> AlertType]
  <2>1. \A x \in Sources : c.alerts[x] \in AlertType
    BY DEF Coherent, Center
  <2> QED
    BY <1>3, <1>f, <2>1
<1>q. /\ put \in Center /\ put.alerts = f /\ put.rows = c.rows
      /\ put.missed = c.missed /\ put.told = c.told
  <2>1. c \in Center
    BY DEF Coherent
  <2> QED
    BY <1>4, <1>p, <2>1, PutFields
<1>5. /\ \A x \in Sources : x \notin R => f[x] = c.alerts[x]
      /\ \A x \in R : /\ Active(c.alerts[x]) /\ SilentUntil(f[x])
                      /\ f[x].severity = c.alerts[x].severity
                      /\ f[x].status = "resolved"
  BY <1>2, <1>3, <1>f DEF SilentUntil
<1>6. Coherent(e) /\ e.alerts = f
  BY <1>2, <1>5, <1>q, <1>e, ChangedKeeps
<1>7. /\ d \in Center /\ d.alerts = f /\ d.rows = e.rows /\ d.missed = e.missed
  <2>1. e \in Center /\ "resolved" \in AlertEvents
    BY <1>6 DEF Coherent, AlertEvents
  <2> QED
    BY <1>2, <1>6, <1>d, <2>1, ToldFields
<1>8. ASSUME NEW x \in Sources, x \notin R
      PROVE  d.told[x] = e.told[x]
  <2>1. e \in Center /\ "resolved" \in AlertEvents
    BY <1>6 DEF Coherent, AlertEvents
  <2> QED
    BY <1>2, <1>8, <1>d, <2>1, ToldFields
<1>9. ASSUME NEW x \in Sources
      PROVE  AgreesAt(d, x)
  <2>0. AgreesAt(e, x)
    BY <1>6 DEF Coherent
  <2>1. CASE x \notin R
    BY <1>6, <1>7, <1>8, <2>0, <2>1 DEF AgreesAt, Agrees
  <2>2. CASE x \in R
    <3>1. ~Active(d.alerts[x])
      BY <1>5, <1>7, <2>2 DEF Active
    <3>2. x \notin d.missed => ~Active(d.rows[x])
      BY <1>5, <1>6, <1>7, <2>0, <2>2 DEF AgreesAt, Agrees, RowOf, Active
    <3> QED
      BY <1>6, <1>7, <2>0, <3>1, <3>2 DEF AgreesAt, Agrees, Knows
  <2> QED
    BY <2>1, <2>2
<1> QED
  BY <1>1, <1>7, <1>9 DEF Coherent

\* The end of silences keeps the centre coherent.
LEMMA SilencesExpiredKeeps ==
  ASSUME NEW c, Coherent(c), NEW t, NEW fails, fails \subseteq MayFail
  PROVE  Coherent(SilencesExpired(c, t, fails))
<1>E. PICK E : E = {src \in Sources : Lapsed(c.alerts[src], t)}
  OBVIOUS
<1>f. PICK f : f = [x \in Sources |-> IF x \in E THEN Reopened(c.alerts[x])
                                      ELSE c.alerts[x]]
  OBVIOUS
<1>p. PICK put : put = [c EXCEPT !.alerts = f]
  OBVIOUS
<1>d. PICK d : d = Saved(put, E, fails)
  OBVIOUS
<1>1. d = SilencesExpired(c, t, fails)
  BY <1>E, <1>f, <1>p, <1>d DEF SilencesExpired, Put
<1>2. E \subseteq Sources /\ \A x \in E : Active(c.alerts[x])
  BY <1>E DEF Lapsed, Active
<1>3. ASSUME NEW x \in Sources
      PROVE  /\ c.alerts[x] \in AlertType
             /\ Reopened(c.alerts[x]) \in AlertType
             /\ Reopened(c.alerts[x]).until = 0
             /\ Reopened(c.alerts[x]).severity = c.alerts[x].severity
  <2>1. c.alerts[x] \in AlertType
    BY DEF Coherent, Center
  <2> QED
    BY <2>1 DEF AlertType, Reopened
<1>4. f \in [Sources -> AlertType]
  BY <1>3, <1>f
<1>q. /\ put \in Center /\ put.alerts = f /\ put.rows = c.rows
      /\ put.missed = c.missed /\ put.told = c.told
  <2>1. c \in Center
    BY DEF Coherent
  <2> QED
    BY <1>4, <1>p, <2>1, PutFields
<1>5. /\ \A x \in Sources : x \notin E => f[x] = c.alerts[x]
      /\ \A x \in E : /\ Active(c.alerts[x]) /\ SilentUntil(f[x])
                      /\ f[x].severity = c.alerts[x].severity
  BY <1>2, <1>3, <1>f DEF SilentUntil
<1>6. Coherent(d)
  BY <1>2, <1>5, <1>q, <1>d, ChangedKeeps
<1> QED
  BY <1>1, <1>6

\* A decision of the operator keeps the centre coherent.
LEMMA DecidedKeeps ==
  ASSUME NEW c, Coherent(c), NEW src \in Sources, Active(c.alerts[src]),
         NEW item \in AlertType, SilentUntil(item),
         item.severity = c.alerts[src].severity
  PROVE  Coherent(Saved(Put(c, {src}, LAMBDA old : item), {src}, {}))
<1>S. PICK S : S = {src}
  OBVIOUS
<1>T. S \subseteq Sources /\ src \in S /\ \A x \in S : x = src
  BY <1>S
<1>f. PICK f : f = [x \in Sources |-> IF x \in S THEN item ELSE c.alerts[x]]
  OBVIOUS
<1>p. PICK put : put = [c EXCEPT !.alerts = f]
  OBVIOUS
<1>n. PICK fails : fails = {}
  OBVIOUS
<1>d. PICK d : d = Saved(put, S, fails)
  OBVIOUS
<1>1. d = Saved(Put(c, {src}, LAMBDA old : item), {src}, {})
  BY <1>S, <1>f, <1>p, <1>n, <1>d DEF Put
<1>2. f \in [Sources -> AlertType]
  <2>1. \A x \in Sources : c.alerts[x] \in AlertType
    BY DEF Coherent, Center
  <2> QED
    BY <1>f, <2>1
<1>q. /\ put \in Center /\ put.alerts = f /\ put.rows = c.rows
      /\ put.missed = c.missed /\ put.told = c.told
  <2>1. c \in Center
    BY DEF Coherent
  <2> QED
    BY <1>2, <1>p, <2>1, PutFields
<1>3. /\ \A x \in Sources : x \notin S => f[x] = c.alerts[x]
      /\ \A x \in S : /\ Active(c.alerts[x]) /\ SilentUntil(f[x])
                      /\ f[x].severity = c.alerts[x].severity
  BY <1>T, <1>f
<1>4. fails \subseteq MayFail
  BY <1>n
<1>5. Coherent(d)
  BY <1>3, <1>4, <1>T, <1>q, <1>d, ChangedKeeps
<1> QED
  BY <1>1, <1>5

\* A judgement keeps the centre coherent.
LEMMA JudgedKeeps ==
  ASSUME NEW c, Coherent(c), NEW src \in Sources,
         NEW grade \in {"keep", "clear", "warning", "critical"},
         NEW t \in Nat, NEW s, NEW fails \in SUBSET MayFail
  PROVE  Coherent(Judged(c, src, grade, t, s, fails))
<1>1. CASE grade = "keep"
  BY <1>1 DEF Judged
<1>2. CASE grade = "clear"
  <2>S. PICK S : S = {src}
    OBVIOUS
  <2>1. S \subseteq Sources
    BY <2>S
  <2>2. Coherent(Resolved(c, S, s, fails))
    BY <2>1, ResolvedKeeps
  <2>3. Judged(c, src, grade, t, s, fails) = Resolved(c, S, s, fails)
    BY <1>2, <2>S DEF Judged
  <2> QED
    BY <2>2, <2>3
<1>3. CASE grade \in {"warning", "critical"}
  <2>1. Judged(c, src, grade, t, s, fails) = Raised(c, src, grade, t, s, fails)
    BY <1>3 DEF Judged
  <2>2. Coherent(Raised(c, src, grade, t, s, fails))
    BY <1>3, RaisedKeeps
  <2> QED
    BY <2>1, <2>2
<1> QED
  BY <1>1, <1>2, <1>3

\* What an evaluation makes of a level is a severity, or that the alert is kept or ends.
LEMMA GradeType ==
  ASSUME NEW kind, NEW level, NEW s
  PROVE  Grade(kind, level, s) \in {"keep", "clear", "warning", "critical"}
BY DEF Grade

\* The same of the rate of errors.
LEMMA RateGradeType ==
  ASSUME NEW w, NEW s
  PROVE  RateGrade(w, s) \in {"keep", "clear", "warning", "critical"}
BY DEF RateGrade

\* A restart makes of the alerts what was saved, and keeps the centre coherent.
LEMMA RestartKeeps ==
  ASSUME NEW c, Coherent(c), NEW d,
         d = [c EXCEPT
                !.alerts = c.rows, !.missed = {},
                !.told = [src \in Sources |->
                            IF src \in c.missed
                              THEN [event |-> "lost", severity |-> "none"]
                              ELSE c.told[src]]]
  PROVE  Coherent(d)
<1>t. PICK told : told = [src \in Sources |-> IF src \in c.missed
                            THEN [event |-> "lost", severity |-> "none"]
                            ELSE c.told[src]]
  OBVIOUS
<1>0. c \in Center
  BY DEF Coherent
<1>1. told \in [Sources -> Notice]
  <2>1. [event |-> "lost", severity |-> "none"] \in Notice
    BY DEF Notice, AlertEvents, Severities
  <2>2. \A src \in Sources : c.told[src] \in Notice
    BY <1>0 DEF Center
  <2> QED
    BY <1>t, <2>1, <2>2
<1>2. d = [c EXCEPT !.alerts = c.rows, !.missed = {}, !.told = told]
  BY <1>t
<1>3. /\ d \in Center /\ d.alerts = c.rows /\ d.rows = c.rows /\ d.missed = {}
      /\ d.told = told
  BY <1>0, <1>1, <1>2 DEF Center
<1>4. ASSUME NEW x \in Sources
      PROVE  AgreesAt(d, x)
  <2>0. AgreesAt(c, x)
    BY DEF Coherent
  <2>1. Knows(c.rows[x], told[x])
    <3>1. CASE x \in c.missed
      <4>1. told[x].event = "lost"
        BY <1>t, <3>1
      <4> QED
        BY <4>1 DEF Knows
    <3>2. CASE x \notin c.missed
      <4>1. told[x] = c.told[x]
        BY <1>t, <3>2
      <4> QED
        BY <2>0, <3>2, <4>1 DEF AgreesAt, Agrees
    <3> QED
      BY <3>1, <3>2
  <2>2. RowOf(c.rows[x], c.rows[x])
    BY DEF RowOf
  <2> QED
    BY <1>3, <2>0, <2>1, <2>2 DEF AgreesAt, Agrees
<1> QED
  BY <1>3, <1>4 DEF Coherent

-----------------------------------------------------------------------------
(* What goroutines hold.                                                   *)

\* A goroutine's state is a record, with a time it read, the start of a request and
\* whether it failed; it is about a subject, and a source of it, while it works on one.
Aimed(r) ==
  /\ r.todo \subseteq Subjects /\ r.then \in {"idle", "list", "record"}
  /\ r.at \notin {"idle", "loop", "list", "record"} => r.on \in Subjects
  /\ r.at \in {"grade", "judge"} => r.next \in DOMAIN KindsOf(r.on)
Job(r) ==
  /\ r \in [at : {r.at}, loop : {r.loop}, then : {r.then}, todo : {r.todo}, on : {r.on},
            view : {r.view}, next : {r.next}, early : {r.early}, now : Nat,
            started : Nat, failed : BOOLEAN]
  /\ Aimed(r)
WorkOK ==
  /\ pool \subseteq made /\ made \subseteq Objects
  /\ work = [w \in Workers |-> work[w]]
  /\ \A w \in Workers : Job(work[w])

\* A subject has sources.
LEMMA KindsExist ==
  ASSUME NEW x \in Subjects
  PROVE  Len(KindsOf(x)) \in Nat /\ DOMAIN KindsOf(x) = 1 .. Len(KindsOf(x))
         /\ 1 \in DOMAIN KindsOf(x)
<1>1. CASE x \in Keys
  <2>1. QuotaKinds \in Seq(STRING) /\ QuotaKinds # <<>>
    BY <1>1, AlertsAssumption
  <2>2. Len(QuotaKinds) \in Nat /\ DOMAIN QuotaKinds = 1 .. Len(QuotaKinds)
        /\ Len(QuotaKinds) # 0
    BY <2>1
  <2> QED
    BY <1>1, <2>2 DEF KindsOf
<1>2. CASE x \notin Keys
  <2>1. Len(AccountKinds) = 2 /\ DOMAIN AccountKinds = 1 .. 2
    BY DEF AccountKinds
  <2>2. KindsOf(x) = AccountKinds
    BY <1>2 DEF KindsOf
  <2> QED
    BY <2>1, <2>2
<1> QED
  BY <1>1, <1>2

\* A goroutine that does nothing.
LEMMA NoWorkJob == Job(NoWork)
BY DEF Job, Aimed, NoWork

\* What a goroutine does next changes nothing else of what it holds.
LEMMA JobAt ==
  ASSUME NEW r, Job(r), NEW a, a \notin {"grade", "judge"},
         a \notin {"idle", "loop", "list", "record"} => r.on \in Subjects,
         NEW d, d = [r EXCEPT !.at = a]
  PROVE  Job(d)
BY DEF Job, Aimed

\* It goes on with the rest of its loop, with what follows, or with nothing.
LEMMA GoesOnJob ==
  ASSUME NEW r, Job(r)
  PROVE  Job(GoesOn(r))
<1>1. Job([r EXCEPT !.at = "loop"])
  BY JobAt
<1>2. Job([r EXCEPT !.at = r.then])
  <2>1. r.then \in {"idle", "list", "record"}
    BY DEF Job, Aimed
  <2> QED
    BY <2>1, JobAt
<1> QED
  BY <1>1, <1>2, NoWorkJob DEF GoesOn

\* It starts a loop.
LEMMA LoopJob ==
  ASSUME NEW loop, NEW then \in {"idle", "list"}, NEW todo, todo \subseteq Subjects,
         now \in Nat
  PROVE  Job(Loop(loop, then, todo))
<1>t. PICK t \in Nat : t = (IF loop = "view" THEN now ELSE 0)
  OBVIOUS
<1>d. PICK d : d = [NoWork EXCEPT !.loop = loop, !.then = then, !.todo = todo,
                                  !.now = IF loop = "view" THEN now ELSE 0]
  OBVIOUS
<1>1. Job(d)
  <2>1. d = [at |-> "idle", loop |-> loop, then |-> then, todo |-> todo, on |-> NoScope,
             view |-> <<>>, next |-> 0, early |-> FALSE, now |-> t,
             started |-> 0, failed |-> FALSE]
    BY <1>t, <1>d DEF NoWork
  <2> QED
    BY <1>t, <2>1 DEF Job, Aimed
<1> QED
  BY <1>1, <1>d, GoesOnJob DEF Loop

\* It turns to a source.
LEMMA AtSourceJob ==
  ASSUME NEW r, Job(r), r.on \in Subjects, NEW i \in DOMAIN KindsOf(r.on)
  PROVE  Job(AtSource(r, i))
<1>a. PICK a : a = IF KindsOf(r.on)[i] = "account_check" THEN "judge" ELSE "grade"
  OBVIOUS
<1>1. AtSource(r, i) = [r EXCEPT !.next = i, !.at = a]
  BY <1>a DEF AtSource
<1>2. Job([r EXCEPT !.next = i, !.at = a])
  BY DEF Job, Aimed
<1> QED
  BY <1>1, <1>2

\* The others hold what they held.
LEMMA DoesJob ==
  ASSUME WorkOK, NEW w \in Workers, NEW r, Job(r), Does(w, r),
         pool' \subseteq made' /\ made' \subseteq Objects
  PROVE  WorkOK' /\ work'[w] = r /\ \A v \in Workers \ {w} : work'[v] = work[v]
<1>1. /\ work' = [v \in Workers |-> work'[v]]
      /\ work'[w] = r /\ \A v \in Workers \ {w} : work'[v] = work[v]
  BY DEF WorkOK, Does
<1>2. \A v \in Workers : Job(work'[v])
  BY <1>1 DEF WorkOK
<1> QED
  BY <1>1, <1>2 DEF WorkOK, Job, Aimed

-----------------------------------------------------------------------------
(* The receiver and the rows.                                              *)

\* A step of a goroutine leaves what goroutines hold of its type.
LEMMA StepsWork ==
  ASSUME WorkOK, now \in Nat, NEW w \in Workers, Steps(w)
  PROVE  WorkOK' /\ now' \in Nat
<1>0. Job(work[w]) /\ Aimed(work[w])
  BY DEF WorkOK, Job
<1>u. UNCHANGED <<now, pool, made>>
  BY DEF Steps, NextSubject, Answered, TakeView, ReadSettings, Judge, ResolveScope, List,
         Book, RecordUsage, RecordRequest, system
<1>p. pool' \subseteq made' /\ made' \subseteq Objects
  BY <1>u DEF WorkOK
<1>1. CASE NextSubject(w)
  <2> PICK x \in work[w].todo :
       LET doing == [work[w] EXCEPT !.on = x, !.todo = @ \ {x}] IN
         CASE work[w].loop = "poll" -> Does(w, [doing EXCEPT !.at = "poll"])
           [] work[w].loop = "view" /\ x \in Objects ->
                Does(w, [doing EXCEPT !.at = "view"])
           [] work[w].loop = "view" /\ work[w].todo \subseteq Keys ->
                Does(w, AtSource([doing EXCEPT !.loop = "list", !.view =
                                    [k \in work[w].todo |-> reading[k]]], 1))
           [] work[w].loop = "list" -> Does(w, AtSource(doing, 1))
           [] OTHER -> FALSE
    BY <1>1 DEF NextSubject
  <2>d. PICK doing : doing = [work[w] EXCEPT !.on = x, !.todo = @ \ {x}]
    OBVIOUS
  <2>0. x \in Subjects /\ work[w].at = "loop"
    BY <1>0, <1>1 DEF Aimed, NextSubject
  <2>1. Job(doing) /\ doing.on = x
    BY <1>0, <2>0, <2>d DEF Job, Aimed
  <2>v. PICK viewing : viewing = [doing EXCEPT !.loop = "list", !.view =
                                    [k \in work[w].todo |-> reading[k]]]
    OBVIOUS
  <2>2. Job(viewing) /\ viewing.on = x
    BY <2>1, <2>v DEF Job, Aimed
  <2>3. \/ Does(w, [doing EXCEPT !.at = "poll"])
        \/ Does(w, [doing EXCEPT !.at = "view"])
        \/ Does(w, AtSource(viewing, 1))
        \/ Does(w, AtSource(doing, 1))
    BY <2>d, <2>v
  <2>4. /\ Job([doing EXCEPT !.at = "poll"]) /\ Job([doing EXCEPT !.at = "view"])
        /\ Job(AtSource(viewing, 1)) /\ Job(AtSource(doing, 1))
    BY <2>0, <2>1, <2>2, JobAt, AtSourceJob, KindsExist
  <2> QED
    BY <1>p, <1>u, <2>3, <2>4, DoesJob
<1>2. CASE Answered(w)
  <2>1. Job([work[w] EXCEPT !.at = "view"])
    BY <1>0, <1>2, JobAt DEF Answered, Aimed
  <2>2. Does(w, [work[w] EXCEPT !.at = "view"])
    BY <1>2 DEF Answered
  <2> QED
    BY <1>p, <1>u, <2>1, <2>2, DoesJob
<1>3. CASE TakeView(w)
  <2>t. PICK t \in Nat : t = IF work[w].loop = "poll" THEN now ELSE work[w].now
    BY <1>0 DEF Job
  <2>v. PICK v : v = [x \in {work[w].on} |-> reading[x]]
    OBVIOUS
  <2>d. PICK d : d = [work[w] EXCEPT !.view = v, !.now = t]
    OBVIOUS
  <2>1. Job(d) /\ d.on = work[w].on /\ work[w].on \in Subjects
    BY <1>0, <1>3, <2>d DEF Job, Aimed, TakeView
  <2>2. d = [work[w] EXCEPT
                         !.view = [x \in {work[w].on} |-> reading[x]],
                         !.now = IF work[w].loop = "poll" THEN now ELSE @]
    BY <1>0, <2>t, <2>v, <2>d DEF Job
  <2>3. Job(AtSource(d, 1))
    BY <2>1, AtSourceJob, KindsExist
  <2>4. Does(w, AtSource(d, 1))
    BY <1>3, <2>2 DEF TakeView
  <2> QED
    BY <1>p, <1>u, <2>3, <2>4, DoesJob
<1>4. CASE ReadSettings(w)
  <2>n. work[w].next \in DOMAIN KindsOf(work[w].on) /\ work[w].on \in Subjects
    BY <1>0, <1>4 DEF Aimed, ReadSettings
  <2>1. Job([work[w] EXCEPT !.early = settings.early, !.at = "judge"])
    BY <1>0, <2>n DEF Job, Aimed
  <2>2. Does(w, [work[w] EXCEPT !.early = settings.early, !.at = "judge"])
    BY <1>4 DEF ReadSettings
  <2> QED
    BY <1>p, <1>u, <2>1, <2>2, DoesJob
<1>5. CASE Judge(w)
  <2>n. work[w].next \in DOMAIN KindsOf(work[w].on) /\ work[w].on \in Subjects
    BY <1>0, <1>5 DEF Aimed, Judge
  <2>1. CASE work[w].next < Len(KindsOf(work[w].on))
    <3>1. work[w].next + 1 \in DOMAIN KindsOf(work[w].on)
      BY <2>1, <2>n, KindsExist
    <3>2. Job(AtSource(work[w], work[w].next + 1))
      BY <1>0, <2>n, <3>1, AtSourceJob
    <3>3. Does(w, AtSource(work[w], work[w].next + 1))
      BY <1>5, <2>1 DEF Judge
    <3> QED
      BY <1>p, <1>u, <3>2, <3>3, DoesJob
  <2>2. CASE ~(work[w].next < Len(KindsOf(work[w].on)))
    <3>1. Does(w, GoesOn(work[w]))
      BY <1>5, <2>2 DEF Judge
    <3> QED
      BY <1>0, <1>p, <1>u, <3>1, GoesOnJob, DoesJob
  <2> QED
    BY <2>1, <2>2
<1>6. CASE ResolveScope(w) \/ List(w) \/ RecordRequest(w)
  <2>1. Does(w, NoWork)
    BY <1>6 DEF ResolveScope, List, RecordRequest
  <2> QED
    BY <1>p, <1>u, <2>1, NoWorkJob, DoesJob
<1>8. CASE Book(w)
  <2> PICK failed \in BOOLEAN :
        Does(w, [work[w] EXCEPT !.at = "usage", !.now = now, !.failed = failed])
    BY <1>8 DEF Book
  <2>1. Job([work[w] EXCEPT !.at = "usage", !.now = now, !.failed = failed])
    BY <1>0, <1>8 DEF Job, Aimed, Book
  <2> QED
    BY <1>p, <1>u, <2>1, DoesJob
<1>9. CASE RecordUsage(w)
  <2>1. Job([work[w] EXCEPT !.at = "view", !.then = "record"])
    BY <1>0, <1>9 DEF Job, Aimed, RecordUsage
  <2>2. Does(w, [work[w] EXCEPT !.at = "view", !.then = "record"])
    BY <1>9 DEF RecordUsage
  <2> QED
    BY <1>p, <1>u, <2>1, <2>2, DoesJob
<1> QED
  BY <1>1, <1>2, <1>3, <1>4, <1>5, <1>6, <1>8, <1>9 DEF Steps

\* So does a call.
LEMMA CallsWork ==
  ASSUME WorkOK, now \in Nat, NEW h \in Handlers, Calls(h)
  PROVE  WorkOK' /\ now' \in Nat
<1>0. h \in Workers /\ UNCHANGED now
  BY DEF Workers, Calls, CheckAccount, Serve, GetAlerts, UpdateSettings,
         CreateManagedAccount, UpdateManagedAccount, RemoveManagedAccount, UpdateKey,
         RevokeKey, Made
<1>p. pool' \subseteq made' /\ made' \subseteq Objects
  BY DEF WorkOK, Calls, CheckAccount, Serve, GetAlerts, UpdateSettings,
         CreateManagedAccount, UpdateManagedAccount, RemoveManagedAccount, UpdateKey,
         RevokeKey, Made
<1>s. pool \cup Keys \subseteq Subjects /\ Objects \subseteq Subjects
      /\ Keys \subseteq Subjects /\ pool \subseteq Subjects
  BY DEF WorkOK, Subjects
<1>1. CASE CheckAccount(h)
  <2> PICK x \in pool : Does(h, Loop("poll", "idle", {x}))
    BY <1>1 DEF CheckAccount
  <2>1. Job(Loop("poll", "idle", {x}))
    BY <1>s, LoopJob
  <2> QED
    BY <1>0, <1>p, <2>1, DoesJob
<1>2. CASE Serve(h)
  <2> PICK k \in Keys : Does(h, [NoWork EXCEPT !.at = "answer", !.on = k, !.started = now])
    BY <1>2 DEF Serve
  <2>1. Job([NoWork EXCEPT !.at = "answer", !.on = k, !.started = now])
    BY <1>s DEF Job, Aimed, NoWork
  <2> QED
    BY <1>0, <1>p, <2>1, DoesJob
<1>3. CASE GetAlerts(h)
  <2>1. Job(Loop("view", "list", pool \cup Keys))
    BY <1>s, LoopJob
  <2>2. Does(h, Loop("view", "list", pool \cup Keys))
    BY <1>3 DEF GetAlerts
  <2> QED
    BY <1>0, <1>p, <2>1, <2>2, DoesJob
<1>4. CASE UpdateSettings(h)
  <2>1. Job(Loop("view", "idle", pool \cup Keys))
    BY <1>s, LoopJob
  <2>2. Does(h, Loop("view", "idle", pool \cup Keys))
    BY <1>4 DEF UpdateSettings
  <2> QED
    BY <1>0, <1>p, <2>1, <2>2, DoesJob
<1>5. CASE CreateManagedAccount(h)
  <2> PICK y \in Objects, on \in BOOLEAN :
       /\ Made(y, on)
       /\ Does(h, IF on THEN [NoWork EXCEPT !.at = "poll", !.loop = "poll", !.on = y]
                  ELSE NoWork)
    BY <1>5 DEF CreateManagedAccount
  <2>1. Job([NoWork EXCEPT !.at = "poll", !.loop = "poll", !.on = y])
    BY <1>s DEF Job, Aimed, NoWork
  <2> QED
    BY <1>0, <1>p, <2>1, NoWorkJob, DoesJob
<1>6. CASE UpdateManagedAccount(h)
  <2> PICK y \in Objects, on \in BOOLEAN :
       /\ Made(y, on)
       /\ Does(h, [NoWork EXCEPT !.at = IF on THEN "poll" ELSE "view",
                                 !.loop = "poll", !.on = y])
    BY <1>6 DEF UpdateManagedAccount
  <2>a. PICK a \in {"poll", "view"} : a = IF on THEN "poll" ELSE "view"
    OBVIOUS
  <2>1. Job([NoWork EXCEPT !.at = a, !.loop = "poll", !.on = y])
    BY <1>s DEF Job, Aimed, NoWork
  <2>2. Does(h, [NoWork EXCEPT !.at = a, !.loop = "poll", !.on = y])
    BY <2>a
  <2> QED
    BY <1>0, <1>p, <2>1, <2>2, DoesJob
<1>7. CASE RemoveManagedAccount(h)
  <2> PICK x \in pool : Does(h, [NoWork EXCEPT !.at = "scope", !.on = x])
    BY <1>7 DEF RemoveManagedAccount
  <2>1. Job([NoWork EXCEPT !.at = "scope", !.on = x])
    BY <1>s DEF Job, Aimed, NoWork
  <2> QED
    BY <1>0, <1>p, <2>1, DoesJob
<1>8. CASE UpdateKey(h)
  <2>k. PICK k \in Keys : \E usage :
          Does(h, AtSource([NoWork EXCEPT !.on = k, !.now = now,
                                          !.view = [x \in {k} |-> usage]], 1))
    BY <1>8 DEF UpdateKey
  <2>u. PICK usage :
          Does(h, AtSource([NoWork EXCEPT !.on = k, !.now = now,
                                          !.view = [x \in {k} |-> usage]], 1))
    BY <2>k
  <2>v. PICK v : v = [x \in {k} |-> usage]
    OBVIOUS
  <2>d. PICK d : d = [NoWork EXCEPT !.on = k, !.now = now, !.view = v]
    OBVIOUS
  <2>1. Job(d) /\ d.on = k /\ k \in Subjects
    BY <1>s, <2>d DEF Job, Aimed, NoWork
  <2>2. Job(AtSource(d, 1))
    BY <2>1, AtSourceJob, KindsExist
  <2>3. Does(h, AtSource(d, 1))
    BY <2>u, <2>v, <2>d
  <2> QED
    BY <1>0, <1>p, <2>2, <2>3, DoesJob
<1>9. CASE RevokeKey(h)
  <2> PICK k \in Keys : Does(h, [NoWork EXCEPT !.at = "scope", !.on = k])
    BY <1>9 DEF RevokeKey
  <2>1. Job([NoWork EXCEPT !.at = "scope", !.on = k])
    BY <1>s DEF Job, Aimed, NoWork
  <2> QED
    BY <1>0, <1>p, <2>1, DoesJob
<1> QED
  BY <1>1, <1>2, <1>3, <1>4, <1>5, <1>6, <1>7, <1>8, <1>9 DEF Calls

\* What goroutines hold is of its type after any step.
LEMMA NextWork ==
  ASSUME WorkOK, now \in Nat, [Next]_vars
  PROVE  WorkOK' /\ now' \in Nat
<1>1. CASE Tick
  BY <1>1 DEF Tick, WorkOK, Job, Aimed
<1>2. CASE Restart
  BY <1>2, NoWorkJob DEF Restart, WorkOK
<1>3. CASE PollBalancesOnce
  <2>1. Does(Poller, Loop("poll", "idle", {x \in pool : Enabled(x)}))
        /\ UNCHANGED <<now, pool, made>>
    BY <1>3 DEF PollBalancesOnce, system
  <2>2. Poller \in Workers /\ {x \in pool : Enabled(x)} \subseteq Subjects
    BY DEF Workers, WorkOK, Subjects
  <2>3. Job(Loop("poll", "idle", {x \in pool : Enabled(x)}))
    BY <2>2, LoopJob
  <2>4. pool' \subseteq made' /\ made' \subseteq Objects
    BY <2>1 DEF WorkOK
  <2> QED
    BY <2>1, <2>2, <2>3, <2>4, DoesJob
<1>4. CASE \E id \in AccountIds : BalanceChanges(id)
  BY <1>4 DEF BalanceChanges, WorkOK, Job, Aimed
<1>5. CASE \E w \in Workers : Steps(w)
  BY <1>5, StepsWork
<1>6. CASE \E h \in Handlers : Calls(h)
  BY <1>6, CallsWork
<1>7. CASE \E src \in Sources : Acknowledge(src) \/ Silence(src) \/ ResolveByID(src)
  BY <1>7 DEF Acknowledge, Silence, ResolveByID, Decide, WorkOK, Job, Aimed
<1>8. CASE UNCHANGED vars
  BY <1>8 DEF vars, WorkOK, Job, Aimed
<1> QED
  BY <1>1, <1>2, <1>3, <1>4, <1>5, <1>6, <1>7, <1>8 DEF Next

\* The centre is coherent, and what goroutines hold is of its type.
Known == now \in Nat /\ WorkOK /\ Coherent(center)

\* The error rate is evaluated.
LEMMA EvaluateKeeps ==
  ASSUME NEW c, Coherent(c), NEW w, NEW t \in Nat, NEW s, EvaluateErrorRate(c, w, t, s)
  PROVE  Coherent(center')
<1> PICK fails \in Fails :
      center' = Judged(c, ErrorRate, RateGrade(Pruned(w, t, s), s), t, s, fails)
  BY DEF EvaluateErrorRate
<1>1. ErrorRate \in Sources /\ fails \in SUBSET MayFail
  BY DEF Sources, Fails
<1>2. RateGrade(Pruned(w, t, s), s) \in {"keep", "clear", "warning", "critical"}
  BY RateGradeType
<1> QED
  BY <1>1, <1>2, JudgedKeeps

\* A decision of the operator.
LEMMA DecideKeeps ==
  ASSUME Coherent(center), NEW src \in Sources, NEW item \in AlertType,
         SilentUntil(item), item.severity = center.alerts[src].severity, Decide(src, item)
  PROVE  Coherent(center')
<1>1. center' = Saved(Put(center, {src}, LAMBDA old : item), {src}, {})
      /\ Active(center.alerts[src])
  BY DEF Decide
<1> QED
  BY <1>1, DecidedKeeps

\* The centre is coherent after any step.
LEMMA NextCenter ==
  ASSUME Known, [Next]_vars
  PROVE  Coherent(center')
<1>0. Coherent(center) /\ WorkOK /\ now \in Nat
  BY DEF Known
<1>j. \A w \in Workers : work[w].now \in Nat
  BY <1>0 DEF WorkOK, Job
<1>1. CASE UNCHANGED center
  BY <1>0, <1>1
<1>2. CASE Restart
  <2>1. center' = [center EXCEPT
                !.alerts = center.rows, !.missed = {},
                !.told = [src \in Sources |->
                            IF src \in center.missed
                              THEN [event |-> "lost", severity |-> "none"]
                              ELSE center.told[src]]]
    BY <1>2 DEF Restart
  <2> QED
    BY <1>0, <2>1, RestartKeeps
<1>3. ASSUME NEW w \in Workers, Judge(w)
      PROVE  Coherent(center')
  <2>1. work[w].on \in Subjects /\ work[w].next \in DOMAIN KindsOf(work[w].on)
    BY <1>0, <1>3 DEF WorkOK, Job, Aimed, Judge
  <2>s. PICK src : src = SourceOf(work[w].on, work[w].next)
    OBVIOUS
  <2>2. src \in Sources
    BY <2>1, <2>s DEF Sources, SourcesOf
  <2>g. PICK grade : grade = Grade(KindsOf(work[w].on)[work[w].next],
          work[w].view[work[w].on][KindsOf(work[w].on)[work[w].next]], work[w])
    OBVIOUS
  <2>3. grade \in {"keep", "clear", "warning", "critical"}
    BY <2>g, GradeType
  <2>4. PICK fails \in Fails :
          center' = Judged(center, src, grade, work[w].now, settings, fails)
    BY <1>3, <2>s, <2>g DEF Judge
  <2>5. fails \in SUBSET MayFail /\ work[w].now \in Nat
    BY <1>j DEF Fails
  <2> QED
    BY <1>0, <2>2, <2>3, <2>4, <2>5, JudgedKeeps
<1>4. ASSUME NEW w \in Workers, ResolveScope(w)
      PROVE  Coherent(center')
  <2>1. work[w].on \in Subjects
    BY <1>0, <1>4 DEF WorkOK, Job, Aimed, ResolveScope
  <2>s. PICK S : S = SourcesOf(work[w].on)
    OBVIOUS
  <2>2. S \subseteq Sources
    BY <2>1, <2>s DEF Sources
  <2>3. PICK fails \in Fails : center' = Resolved(center, S, settings, fails)
    BY <1>4, <2>s DEF ResolveScope
  <2>4. fails \subseteq MayFail
    BY DEF Fails
  <2> QED
    BY <1>0, <2>2, <2>3, <2>4, ResolvedKeeps
<1>5. ASSUME NEW w \in Workers, List(w)
      PROVE  Coherent(center')
  <2>1. PICK fails \in Fails :
          EvaluateErrorRate(SilencesExpired(center, work[w].now, fails), window,
                            work[w].now, settings)
    BY <1>5 DEF List
  <2>2. fails \subseteq MayFail
    BY DEF Fails
  <2>3. Coherent(SilencesExpired(center, work[w].now, fails))
    BY <1>0, <2>2, SilencesExpiredKeeps
  <2> QED
    BY <1>j, <2>1, <2>3, EvaluateKeeps
<1>6. ASSUME NEW w \in Workers, RecordRequest(w)
      PROVE  Coherent(center')
  <2>1. PICK given : EvaluateErrorRate(center, given, work[w].now, settings)
    BY <1>6 DEF RecordRequest
  <2> QED
    BY <1>0, <1>j, <2>1, EvaluateKeeps
<1>7. ASSUME NEW h \in Handlers, UpdateSettings(h)
      PROVE  Coherent(center')
  <2>1. PICK s \in Settings : EvaluateErrorRate(center, window, now, s)
    BY <1>7 DEF UpdateSettings
  <2> QED
    BY <1>0, <2>1, EvaluateKeeps
<1>8. ASSUME NEW src \in Sources, Acknowledge(src) \/ Silence(src) \/ ResolveByID(src)
      PROVE  Coherent(center')
  <2>t. center.alerts[src] \in AlertType
    BY <1>0 DEF Coherent, Center
  <2>1. CASE Acknowledge(src)
    <3>i. PICK item : item = [center.alerts[src] EXCEPT !.status = "acknowledged",
                                                       !.until = 0]
      OBVIOUS
    <3>1. /\ item \in AlertType /\ SilentUntil(item)
          /\ item.severity = center.alerts[src].severity
      BY <2>t, <3>i DEF AlertType, SilentUntil
    <3>2. Decide(src, item)
      BY <2>1, <3>i DEF Acknowledge
    <3> QED
      BY <1>0, <3>1, <3>2, DecideKeeps
  <2>2. CASE Silence(src)
    <3>d. PICK d \in Silences :
            Decide(src, [center.alerts[src] EXCEPT !.status = "silenced",
                                                   !.until = now + d])
      BY <2>2 DEF Silence
    <3>n. now + d \in Nat
      BY <1>0, AlertsAssumption
    <3>i. PICK item : item = [center.alerts[src] EXCEPT !.status = "silenced",
                                                       !.until = now + d]
      OBVIOUS
    <3>1. /\ item \in AlertType /\ SilentUntil(item)
          /\ item.severity = center.alerts[src].severity
      BY <2>t, <3>i, <3>n DEF AlertType, SilentUntil
    <3> QED
      BY <1>0, <3>1, <3>d, <3>i, DecideKeeps
  <2>3. CASE ResolveByID(src)
    <3>i. PICK item : item = Closed(center.alerts[src])
      OBVIOUS
    <3>1. /\ item \in AlertType /\ SilentUntil(item)
          /\ item.severity = center.alerts[src].severity
      BY <2>t, <3>i DEF AlertType, SilentUntil, Closed
    <3>2. Decide(src, item)
      BY <2>3, <3>i DEF ResolveByID
    <3> QED
      BY <1>0, <3>1, <3>2, DecideKeeps
  <2> QED
    BY <1>8, <2>1, <2>2, <2>3
<1>9. ASSUME NEW w \in Workers, Steps(w)
      PROVE  Coherent(center')
  <2>1. CASE Judge(w) \/ ResolveScope(w) \/ List(w) \/ RecordRequest(w)
    BY <1>3, <1>4, <1>5, <1>6, <2>1
  <2>2. CASE ~(Judge(w) \/ ResolveScope(w) \/ List(w) \/ RecordRequest(w))
    <3>1. UNCHANGED center
      BY <1>9, <2>2 DEF Steps, NextSubject, Answered, TakeView, ReadSettings, Book,
           RecordUsage
    <3> QED
      BY <1>1, <3>1
  <2> QED
    BY <2>1, <2>2
<1>10. ASSUME NEW h \in Handlers, Calls(h)
       PROVE  Coherent(center')
  <2>1. CASE UpdateSettings(h)
    BY <1>7, <2>1
  <2>2. CASE ~UpdateSettings(h)
    <3>1. UNCHANGED center
      BY <1>10, <2>2 DEF Calls, CheckAccount, Serve, GetAlerts, CreateManagedAccount,
           UpdateManagedAccount, RemoveManagedAccount, UpdateKey, RevokeKey, Made
    <3> QED
      BY <1>1, <3>1
  <2> QED
    BY <2>1, <2>2
<1>11. CASE Tick \/ PollBalancesOnce \/ (\E id \in AccountIds : BalanceChanges(id))
            \/ UNCHANGED vars
  <2>1. UNCHANGED center
    BY <1>11 DEF Tick, PollBalancesOnce, BalanceChanges, vars
  <2> QED
    BY <1>1, <2>1
<1> QED
  BY <1>2, <1>8, <1>9, <1>10, <1>11 DEF Next

\* At the start nothing is wrong, and no one does anything.
LEMMA InitKnown == Init => Known
<1> SUFFICES ASSUME Init PROVE Known
  OBVIOUS
<1>n. PICK none : none = NoAlert
  OBVIOUS
<1>s. PICK silence : silence = [event |-> "none", severity |-> "none"]
  OBVIOUS
<1>1. /\ none \in AlertType /\ ~Active(none) /\ SilentUntil(none) /\ RowOf(none, none)
      /\ none.status = "none"
  BY <1>n DEF NoAlert, AlertType, Active, SilentUntil, RowOf
<1>2. silence \in Notice
  BY <1>s DEF Notice, AlertEvents, Severities
<1>3. center = [alerts |-> [src \in Sources |-> none], rows |-> [src \in Sources |-> none],
                missed |-> {}, told |-> [src \in Sources |-> silence]]
  BY <1>n, <1>s DEF Init
<1>4. /\ center \in Center
      /\ \A x \in Sources : /\ center.alerts[x] = none /\ center.rows[x] = none
                            /\ x \notin center.missed
  BY <1>1, <1>2, <1>3 DEF Center
<1>5. \A x \in Sources : AgreesAt(center, x)
  BY <1>1, <1>4 DEF AgreesAt, Agrees, Knows
<1>6. WorkOK
  BY NoWorkJob, AlertsAssumption DEF Init, WorkOK
<1> QED
  BY <1>4, <1>5, <1>6 DEF Known, Coherent, Init

\* The centre is coherent throughout.
LEMMA KnownThroughout == Spec => []Known
<1>1. ASSUME Known, [Next]_vars
      PROVE  Known'
  <2>1. Coherent(center')
    BY <1>1, NextCenter
  <2>2. WorkOK' /\ now' \in Nat
    BY <1>1, NextWork DEF Known
  <2> QED
    BY <2>1, <2>2 DEF Known
<1> QED
  BY InitKnown, <1>1, PTL DEF Spec

\* Who reads what the webhook was told knows of every alert that is not resolved, and of
\* every critical one that it is critical, whatever goroutines were under way and
\* whatever writes failed (raiseLocked, resolveLocked, notifyLocked, load).
THEOREM ReceiverKnowsAlways == Spec => []ReceiverKnows
<1>1. Known => ReceiverKnows
  BY DEF Known, Coherent, AgreesAt, Agrees, Knows, Heard, ReceiverKnows
<1> QED
  BY <1>1, KnownThroughout, PTL

\* No crash undoes a decision, a recovery or an escalation whose write succeeded
\* (persistAlertBestEffortLocked, load).
THEOREM RowsFollowAlways == Spec => []RowsFollow
<1>1. Known => RowsFollow
  BY DEF Known, Coherent, AgreesAt, Agrees, RowOf, RowsFollow
<1> QED
  BY <1>1, KnownThroughout, PTL

-----------------------------------------------------------------------------
(* Counting outcomes.                                                      *)

Count(live, X) == Cardinality({i \in DOMAIN live : live[i] \in X})
Failed == {o \in Outcome : o.failed}
At(t, f) == {[at |-> t, failed |-> f]}

\* A set of numbers that is not empty has a least one.
LEMMA Least ==
  ASSUME NEW T, T \subseteq Nat, T # {}
  PROVE  \E m \in T : \A k \in T : m <= k
<1>1. PICK m \in T : \A k \in T : <<k, m>> \notin OpToRel(<, Nat)
  BY NatLessThanWellFounded, WFMin
<1>2. \A k \in T : ~(k < m)
  BY <1>1 DEF OpToRel
<1>3. \A k \in T : m <= k
  BY <1>2
<1> QED
  BY <1>3

\* What a part of a sequence of outcomes is.
LEMMA PartOf ==
  ASSUME NEW s \in Seq(Outcome), NEW a \in 0 .. Len(s), NEW b \in a .. Len(s),
         NEW part, part = SubSeq(s, a + 1, b)
  PROVE  /\ part \in Seq(Outcome) /\ Len(part) = b - a /\ DOMAIN part = 1 .. (b - a)
         /\ \A i \in 1 .. (b - a) : part[i] = s[a + i]
<1>1. /\ Len(s) \in Nat /\ a \in Nat /\ b \in Nat /\ a + 1 \in Int /\ a <= b /\ b <= Len(s)
      /\ \A i \in (a + 1) .. b : s[i] \in Outcome
  OBVIOUS
<1>2. /\ part \in Seq(Outcome)
      /\ Len(part) = IF a + 1 <= b THEN b - (a + 1) + 1 ELSE 0
      /\ \A i \in 1 .. (b - (a + 1) + 1) : part[i] = s[a + 1 + i - 1]
  BY <1>1, SubSeqProperties
<1>3. Len(part) = b - a
  BY <1>1, <1>2
<1>4. DOMAIN part = 1 .. (b - a)
  BY <1>2, <1>3
<1>5. ASSUME NEW i \in 1 .. (b - a)
      PROVE  part[i] = s[a + i]
  <2>1. b - (a + 1) + 1 = b - a /\ a + 1 + i - 1 = a + i
    BY <1>1
  <2> QED
    BY <1>2, <2>1
<1> QED
  BY <1>2, <1>3, <1>4, <1>5

\* A count is a number, of a finite set.
LEMMA CountType ==
  ASSUME NEW s \in Seq(Outcome), NEW X
  PROVE  /\ Count(s, X) \in Nat
         /\ IsFiniteSet({i \in DOMAIN s : s[i] \in X})
<1>1. DOMAIN s = 1 .. Len(s) /\ Len(s) \in Nat
  OBVIOUS
<1>2. IsFiniteSet(1 .. Len(s))
  BY <1>1, FS_Interval
<1>3. IsFiniteSet({i \in DOMAIN s : s[i] \in X})
  BY <1>1, <1>2, FS_Subset
<1> QED
  BY <1>3, FS_CardinalityType DEF Count

\* Nothing to count.
LEMMA CountNone ==
  ASSUME NEW s, NEW X, \A i \in DOMAIN s : s[i] \notin X
  PROVE  Count(s, X) = 0
<1>1. {i \in DOMAIN s : s[i] \in X} = {}
  OBVIOUS
<1> QED
  BY <1>1, FS_EmptySet DEF Count

\* A sequence holds what its two parts hold.
LEMMA CountParts ==
  ASSUME NEW s \in Seq(Outcome), NEW k \in 0 .. Len(s), NEW X
  PROVE  Count(s, X) = Count(SubSeq(s, 1, k), X) + Count(SubSeq(s, k + 1, Len(s)), X)
<1>p. PICK pre : pre = SubSeq(s, 1, k)
  OBVIOUS
<1>q. PICK post : post = SubSeq(s, k + 1, Len(s))
  OBVIOUS
<1>n. Len(s) \in Nat /\ DOMAIN s = 1 .. Len(s)
  OBVIOUS
<1>1. /\ pre \in Seq(Outcome) /\ DOMAIN pre = 1 .. k
      /\ \A i \in 1 .. k : pre[i] = s[i]
  BY <1>n, <1>p, PartOf
<1>2. /\ post \in Seq(Outcome) /\ DOMAIN post = 1 .. (Len(s) - k)
      /\ \A i \in 1 .. (Len(s) - k) : post[i] = s[k + i]
  BY <1>n, <1>q, PartOf
<1>a. PICK A : A = {i \in 1 .. k : s[i] \in X}
  OBVIOUS
<1>b. PICK B : B = {i \in (k + 1) .. Len(s) : s[i] \in X}
  OBVIOUS
<1>c. PICK C : C = {i \in DOMAIN post : post[i] \in X}
  OBVIOUS
<1>3. Count(pre, X) = Cardinality(A)
  <2>1. {i \in DOMAIN pre : pre[i] \in X} = A
    BY <1>1, <1>a
  <2> QED
    BY <2>1 DEF Count
<1>4. IsFiniteSet(C) /\ Cardinality(C) = Count(post, X)
  BY <1>2, <1>c, CountType DEF Count
<1>5. IsFiniteSet(B) /\ Cardinality(B) = Cardinality(C)
  <2>f. PICK f : f = [i \in C |-> i + k]
    OBVIOUS
  <2>1. f \in [C -> B]
    BY <1>n, <1>2, <1>b, <1>c, <2>f
  <2>2. \A i, j \in C : f[i] = f[j] => i = j
    BY <1>n, <1>2, <1>c, <2>f
  <2>3. ASSUME NEW j \in B
        PROVE  \E i \in C : f[i] = j
    <3>1. j - k \in C
      BY <1>n, <1>2, <1>b, <1>c, <2>3
    <3>2. f[j - k] = j
      BY <1>n, <1>b, <2>3, <2>f, <3>1
    <3> QED
      BY <3>1, <3>2
  <2>4. f \in Bijection(C, B)
    BY <2>1, <2>2, <2>3 DEF Bijection, Injection, Surjection, IsInjective
  <2> QED
    BY <1>4, <2>4, FS_Bijection DEF ExistsBijection
<1>6. IsFiniteSet(A)
  <2>1. A = {i \in DOMAIN pre : pre[i] \in X}
    BY <1>1, <1>a
  <2> QED
    BY <1>1, <2>1, CountType
<1>7. A \cap B = {} /\ A \cup B = {i \in DOMAIN s : s[i] \in X}
  BY <1>n, <1>a, <1>b
<1>8. Cardinality(A \cup B) = Cardinality(A) + Cardinality(B) - Cardinality(A \cap B)
  BY <1>5, <1>6, FS_Union
<1>9. Cardinality(A \cap B) = 0
  BY <1>7, FS_EmptySet
<1>10. Cardinality(A) \in Nat /\ Cardinality(B) \in Nat
  BY <1>5, <1>6, FS_CardinalityType
<1>11. Count(s, X) = Cardinality(A \cup B)
  BY <1>7 DEF Count
<1> QED
  BY <1>3, <1>4, <1>5, <1>8, <1>9, <1>10, <1>11, <1>p, <1>q

\* One outcome more.
LEMMA CountAppend ==
  ASSUME NEW s \in Seq(Outcome), NEW o \in Outcome, NEW X
  PROVE  /\ o \in X => Count(Append(s, o), X) = Count(s, X) + 1
         /\ o \notin X => Count(Append(s, o), X) = Count(s, X)
<1>m. PICK more : more = Append(s, o)
  OBVIOUS
<1>n. Len(s) \in Nat /\ DOMAIN s = 1 .. Len(s)
  OBVIOUS
<1>1. /\ DOMAIN more = 1 .. (Len(s) + 1) /\ more[Len(s) + 1] = o
      /\ \A i \in 1 .. Len(s) : more[i] = s[i]
  BY <1>m
<1>a. PICK A : A = {i \in DOMAIN s : s[i] \in X}
  OBVIOUS
<1>2. IsFiniteSet(A) /\ Cardinality(A) = Count(s, X) /\ Len(s) + 1 \notin A
  <2>1. IsFiniteSet(A)
    BY <1>a, CountType
  <2>2. Cardinality(A) = Count(s, X)
    BY <1>a DEF Count
  <2>3. Len(s) + 1 \notin A
    BY <1>n, <1>a
  <2> QED
    BY <2>1, <2>2, <2>3
<1>3. CASE o \in X
  <2>1. {i \in DOMAIN more : more[i] \in X} = A \cup {Len(s) + 1}
    BY <1>n, <1>1, <1>3, <1>a
  <2>2. Cardinality(A \cup {Len(s) + 1}) = Cardinality(A) + 1
    BY <1>2, FS_AddElement
  <2> QED
    BY <1>2, <1>3, <1>m, <2>1, <2>2 DEF Count
<1>4. CASE o \notin X
  <2>1. {i \in DOMAIN more : more[i] \in X} = A
    BY <1>n, <1>1, <1>4, <1>a
  <2> QED
    BY <1>2, <1>4, <1>m, <2>1 DEF Count
<1> QED
  BY <1>3, <1>4, <1>m

\* The errors of outcomes are those that failed.
LEMMA ErrorsCount ==
  ASSUME NEW s \in Seq(Outcome)
  PROVE  Errors(s) = Count(s, Failed)
<1>1. {i \in DOMAIN s : s[i].failed} = {i \in DOMAIN s : s[i] \in Failed}
  BY DEF Failed
<1> QED
  BY <1>1 DEF Errors, Count

-----------------------------------------------------------------------------
(* The window, and the outcomes that are live in it.                       *)

\* A window is of its type, and its counter of errors agrees with its outcomes.
Typed(w) ==
  /\ w \in [outcomes : Seq(Outcome), start : Nat, errors : Nat]
  /\ w.start <= Len(w.outcomes)
  /\ w.errors = Count(Live(w), Failed)

\* What is live.
LEMMA LiveIs ==
  ASSUME NEW w, Typed(w), NEW live, live = Live(w)
  PROVE  /\ live \in Seq(Outcome) /\ Len(live) = Len(w.outcomes) - w.start
         /\ Len(live) \in Nat /\ DOMAIN live = 1 .. Len(live)
         /\ \A i \in 1 .. Len(live) : live[i] = w.outcomes[w.start + i]
<1>1. /\ w.outcomes \in Seq(Outcome) /\ w.start \in 0 .. Len(w.outcomes)
      /\ Len(w.outcomes) \in w.start .. Len(w.outcomes) /\ Len(w.outcomes) \in Nat
  BY DEF Typed
<1>2. live = SubSeq(w.outcomes, w.start + 1, Len(w.outcomes))
  BY DEF Live
<1>s. PICK s \in Seq(Outcome) : s = w.outcomes
  BY <1>1
<1>a. PICK a \in 0 .. Len(s) : a = w.start
  BY <1>1, <1>s
<1>b. PICK b \in a .. Len(s) : b = Len(s)
  BY <1>1, <1>s, <1>a
<1>3. live = SubSeq(s, a + 1, b)
  BY <1>2, <1>s, <1>a, <1>b
<1>4. /\ live \in Seq(Outcome) /\ Len(live) = b - a /\ DOMAIN live = 1 .. (b - a)
      /\ \A i \in 1 .. (b - a) : live[i] = s[a + i]
  BY <1>3, PartOf
<1>5. b - a \in Nat
  OBVIOUS
<1> QED
  BY <1>4, <1>5, <1>s, <1>a, <1>b

\* A window keeps what was live, but for k outcomes, the ones before the first that is
\* recent enough.
KeepsAfter(d, live, k, t, s) ==
  /\ Typed(d) /\ Live(d) = SubSeq(live, k + 1, Len(live))
  /\ \A i \in 1 .. k : live[i].at + s.window < t
  /\ k < Len(live) => live[k + 1].at + s.window >= t

\* Outcomes that are too old are dropped, up to the first that is not.
LEMMA DroppedLive ==
  ASSUME NEW w, Typed(w), NEW t \in Nat, NEW s, s.window \in Nat,
         NEW d, d = Dropped(w, t, s), NEW live, live = Live(w)
  PROVE  \E k \in 0 .. Len(live) : KeepsAfter(d, live, k, t, s)
<1>1. /\ w.outcomes \in Seq(Outcome) /\ w.start \in Nat /\ Len(w.outcomes) \in Nat
      /\ w.start <= Len(w.outcomes) /\ w.errors \in Nat
      /\ w.errors = Count(live, Failed)
  BY DEF Typed
<1>2. /\ live \in Seq(Outcome) /\ Len(live) = Len(w.outcomes) - w.start
      /\ Len(live) \in Nat /\ DOMAIN live = 1 .. Len(live)
      /\ \A i \in 1 .. Len(live) : live[i] = w.outcomes[w.start + i]
  BY LiveIs
<1>n. /\ w.start \in Nat /\ Len(w.outcomes) \in Nat /\ Len(live) \in Nat
      /\ w.start <= Len(w.outcomes) /\ Len(live) = Len(w.outcomes) - w.start
  BY <1>1, <1>2
<1> DEFINE Start(i) == /\ i < Len(w.outcomes) => w.outcomes[i + 1].at + s.window >= t
                       /\ \A j \in w.start + 1 .. i : w.outcomes[j].at + s.window < t
<1>3. \E i \in w.start .. Len(w.outcomes) : Start(i)
  <2>T. PICK T : T = {i \in w.start .. Len(w.outcomes) :
                        i < Len(w.outcomes) => w.outcomes[i + 1].at + s.window >= t}
    OBVIOUS
  <2>1. T \subseteq Nat /\ Len(w.outcomes) \in T
    BY <1>1, <2>T
  <2>2. PICK m \in T : \A k \in T : m <= k
    BY <2>1, Least
  <2>3. ASSUME NEW j \in w.start + 1 .. m
        PROVE  w.outcomes[j].at + s.window < t
    <3>0. m \in Nat /\ w.start <= m /\ m <= Len(w.outcomes)
      BY <1>n, <2>T
    <3>1. /\ j \in Nat /\ j - 1 \in w.start .. Len(w.outcomes)
          /\ j - 1 < m /\ ~(m <= j - 1)
      BY <1>n, <2>3, <3>0
    <3>5. j - 1 \notin T
      BY <2>2, <3>1
    <3>2. ~(w.outcomes[j - 1 + 1].at + s.window >= t)
      BY <3>1, <3>5, <2>T
    <3>3. j - 1 + 1 = j /\ j \in 1 .. Len(w.outcomes)
      BY <1>n, <2>3, <3>0
    <3>4. w.outcomes[j] \in Outcome
      BY <1>1, <3>3
    <3>6. w.outcomes[j].at \in Nat
      BY <3>4 DEF Outcome
    <3> QED
      BY <3>2, <3>3, <3>6
  <2> QED
    BY <2>2, <2>3, <2>T
<1>c. PICK m : m = CHOOSE i \in w.start .. Len(w.outcomes) : Start(i)
  OBVIOUS
<1>4. m \in w.start .. Len(w.outcomes) /\ Start(m)
  <2> HIDE DEF Start
  <2> QED
    BY <1>3, <1>c
<1>e. PICK e : e = Errors(SubSeq(w.outcomes, w.start + 1, m))
  OBVIOUS
<1>5. d = [w EXCEPT !.start = m, !.errors = w.errors - e]
  BY <1>c, <1>e DEF Dropped, Typed
<1>k. PICK k : k = m - w.start
  OBVIOUS
<1>6. k \in 0 .. Len(live) /\ w.start + k = m /\ m \in Nat
  <2>1. m \in w.start .. Len(w.outcomes)
    BY <1>4
  <2> HIDE DEF Start
  <2> QED
    BY <1>n, <1>k, <2>1
<1>m. k \in Nat /\ k <= Len(live) /\ w.start <= m /\ m <= Len(w.outcomes)
  <2>1. m \in w.start .. Len(w.outcomes)
    BY <1>4
  <2> HIDE DEF Start
  <2> QED
    BY <1>n, <1>6, <2>1
<1>p. PICK pre : pre = SubSeq(live, 1, k)
  OBVIOUS
<1>q. PICK post : post = SubSeq(live, k + 1, Len(live))
  OBVIOUS
<1>7. e = Count(pre, Failed)
  <2>x. PICK x : x = SubSeq(w.outcomes, w.start + 1, m)
    OBVIOUS
  <2>1. w.start \in 0 .. Len(w.outcomes) /\ m \in w.start .. Len(w.outcomes)
    BY <1>1, <1>4
  <2>2. /\ x \in Seq(Outcome) /\ Len(x) = m - w.start
        /\ \A i \in 1 .. (m - w.start) : x[i] = w.outcomes[w.start + i]
    BY <1>1, <2>x, <2>1, PartOf
  <2>3. /\ pre \in Seq(Outcome) /\ Len(pre) = k /\ \A i \in 1 .. k : pre[i] = live[i]
    BY <1>2, <1>6, <1>p, PartOf
  <2>4. Len(x) = Len(pre) /\ \A i \in 1 .. Len(pre) : x[i] = pre[i]
    BY <1>2, <1>6, <1>k, <2>2, <2>3
  <2>5. x = pre
    BY <2>2, <2>3, <2>4, SeqEqual
  <2> QED
    BY <1>e, <2>x, <2>3, <2>5, ErrorsCount
<1>8. Count(live, Failed) = Count(pre, Failed) + Count(post, Failed)
  <2>1. live \in Seq(Outcome) /\ k \in 0 .. Len(live)
    BY <1>2, <1>6
  <2>X. PICK X : X = Failed
    OBVIOUS
  <2>2. Count(live, X) = Count(pre, X) + Count(post, X)
    BY <1>p, <1>q, <2>1, CountParts
  <2> QED
    BY <2>2, <2>X
<1>9. /\ post \in Seq(Outcome) /\ Len(post) = Len(live) - k
      /\ \A i \in 1 .. (Len(live) - k) : post[i] = live[k + i]
  BY <1>2, <1>6, <1>q, PartOf
<1>10. Count(pre, Failed) \in Nat /\ Count(post, Failed) \in Nat
  <2>1. pre \in Seq(Outcome)
    BY <1>2, <1>6, <1>p, PartOf
  <2> QED
    BY <1>9, <2>1, CountType
<1>11. /\ d \in [outcomes : Seq(Outcome), start : Nat, errors : Nat]
       /\ d.outcomes = w.outcomes /\ d.start = m /\ d.errors = Count(post, Failed)
  <2>1. w.errors - e = Count(post, Failed)
    BY <1>1, <1>7, <1>8, <1>10
  <2>2. w \in [outcomes : Seq(Outcome), start : Nat, errors : Nat]
    BY DEF Typed
  <2> QED
    BY <1>5, <1>6, <1>10, <2>1, <2>2
<1>12. Live(d) = post
  <2>y. PICK y : y = SubSeq(w.outcomes, m + 1, Len(w.outcomes))
    OBVIOUS
  <2>1. m \in 0 .. Len(w.outcomes) /\ Len(w.outcomes) \in m .. Len(w.outcomes)
    BY <1>1, <1>4
  <2>2. /\ y \in Seq(Outcome) /\ Len(y) = Len(w.outcomes) - m
        /\ \A i \in 1 .. (Len(w.outcomes) - m) : y[i] = w.outcomes[m + i]
    BY <1>1, <2>y, <2>1, PartOf
  <2>3. Len(y) = Len(post) /\ Len(y) \in Nat /\ Len(y) = Len(live) - k
        /\ Len(live) - k = Len(w.outcomes) - m
    <3>1. Len(y) = Len(w.outcomes) - m /\ Len(post) = Len(live) - k
      BY <1>9, <2>2
    <3>2. Len(live) - k = Len(w.outcomes) - m
      BY <1>n, <1>m, <1>6
    <3>3. Len(live) - k \in Nat
      BY <1>n, <1>m
    <3> QED
      BY <3>1, <3>2, <3>3
  <2>4. ASSUME NEW i \in 1 .. Len(post)
        PROVE  y[i] = post[i]
    <3>0. i \in 1 .. (Len(w.outcomes) - m) /\ i \in 1 .. (Len(live) - k)
      BY <2>3
    <3>1. k + i \in 1 .. Len(live) /\ w.start + (k + i) = m + i
      BY <1>n, <1>m, <1>6, <3>0
    <3> QED
      BY <1>2, <1>9, <2>2, <3>0, <3>1
  <2>5. y = post
    BY <1>9, <2>2, <2>3, <2>4, SeqEqual
  <2> QED
    BY <1>11, <2>5, <2>y DEF Live
<1>13. Typed(d)
  BY <1>1, <1>4, <1>11, <1>12 DEF Typed
<1>14. \A i \in 1 .. k : live[i].at + s.window < t
  <2> TAKE i \in 1 .. k
  <2>1. w.start + i \in w.start + 1 .. m /\ i \in 1 .. Len(live)
    BY <1>n, <1>m, <1>6
  <2> QED
    BY <1>2, <1>4, <2>1
<1>15. k < Len(live) => live[k + 1].at + s.window >= t
  <2> HAVE k < Len(live)
  <2>1. k + 1 \in 1 .. Len(live) /\ w.start + (k + 1) = m + 1 /\ m < Len(w.outcomes)
    BY <1>n, <1>m, <1>6
  <2> QED
    BY <1>2, <1>4, <2>1
<1> QED
  BY <1>6, <1>12, <1>13, <1>14, <1>15, <1>q DEF KeepsAfter

\* Compaction changes how the live outcomes are kept, and not which.
LEMMA CompactedLive ==
  ASSUME NEW w, Typed(w), NEW c, c = Compacted(w)
  PROVE  Typed(c) /\ Live(c) = Live(w)
<1>l. PICK live : live = Live(w)
  OBVIOUS
<1>1. live \in Seq(Outcome) /\ Len(live) \in Nat
  BY <1>l, LiveIs
<1>2. CASE c = w
  BY <1>2
<1>3. CASE c # w
  <2>1. c = [w EXCEPT !.outcomes = live, !.start = 0]
    BY <1>3, <1>l DEF Compacted
  <2>2. w \in [outcomes : {w.outcomes}, start : {w.start}, errors : Nat]
    BY DEF Typed
  <2>3. /\ c \in [outcomes : {live}, start : {0}, errors : Nat]
        /\ c.errors = w.errors
    BY <2>1, <2>2
  <2>6. /\ c \in [outcomes : Seq(Outcome), start : Nat, errors : Nat]
        /\ c.outcomes = live /\ c.start = 0
    BY <1>1, <2>3
  <2>4. SubSeq(live, 1, Len(live)) = live
    BY <1>1, SubSeqFull
  <2>5. Live(c) = live
    BY <2>4, <2>6 DEF Live
  <2> QED
    BY <1>1, <1>l, <2>3, <2>5, <2>6 DEF Typed
<1> QED
  BY <1>2, <1>3

-----------------------------------------------------------------------------
(* What the live outcomes tell.                                            *)

\* Those that have not left the window are all there; those there are, but for late
\* ones, have not left it; they came in order, but for late ones.
Held(live, given, cut) ==
  \A t \in 0 .. MaxTime, f \in BOOLEAN : t >= cut => Count(live, At(t, f)) = given[t][f]
NotPast(live, cut) == \A i \in DOMAIN live : live[i].at + MaxLag >= cut
InOrder(live, n) ==
  /\ \A i \in DOMAIN live : live[i].at <= n
  /\ \A i, j \in DOMAIN live : i < j => live[j].at + MaxLag >= live[i].at
TellsTrue(live, given, cut, n) ==
  Held(live, given, cut) /\ NotPast(live, cut) /\ InOrder(live, n)

CutAt(cut, t, length) == IF t > length /\ t - length > cut THEN t - length ELSE cut

\* The outcomes that are dropped have left the window, and those that are kept have not.
LEMMA DroppingTells ==
  ASSUME NEW live \in Seq(Outcome), NEW k \in 0 .. Len(live), NEW given,
         NEW cut \in Nat, NEW t \in Nat, NEW length \in Nat, NEW n \in Nat,
         TellsTrue(live, given, cut, n),
         \A i \in 1 .. k : live[i].at + length < t,
         k < Len(live) => live[k + 1].at + length >= t
  PROVE  TellsTrue(SubSeq(live, k + 1, Len(live)), given, CutAt(cut, t, length), n)
<1>p. PICK pre : pre = SubSeq(live, 1, k)
  OBVIOUS
<1>q. PICK post : post = SubSeq(live, k + 1, Len(live))
  OBVIOUS
<1>c. PICK past \in Nat : past = CutAt(cut, t, length)
  <2>1. CutAt(cut, t, length) \in Nat
    BY DEF CutAt
  <2> QED
    BY <2>1
<1>0. /\ past >= cut /\ (past = cut \/ past = t - length)
      /\ \A at \in Nat : at + length < t => at < past
  BY <1>c DEF CutAt
<1>l. /\ MaxLag \in Nat /\ Len(live) \in Nat /\ k \in Nat /\ k <= Len(live)
      /\ DOMAIN live = 1 .. Len(live)
  BY AlertsAssumption
<1>n. \A i \in 1 .. Len(live) : live[i] \in Outcome /\ live[i].at \in Nat
  <2>1. \A i \in 1 .. Len(live) : live[i] \in Outcome
    OBVIOUS
  <2>2. \A x \in Outcome : x.at \in Nat
    BY DEF Outcome
  <2> QED
    BY <2>1, <2>2
<1>1. /\ pre \in Seq(Outcome) /\ DOMAIN pre = 1 .. k /\ \A i \in 1 .. k : pre[i] = live[i]
  BY <1>l, <1>p, PartOf
<1>2. /\ post \in Seq(Outcome) /\ DOMAIN post = 1 .. (Len(live) - k)
      /\ \A i \in 1 .. (Len(live) - k) : post[i] = live[k + i]
  BY <1>l, <1>q, PartOf
<1>i. \A i \in DOMAIN post : k + i \in 1 .. Len(live) /\ i \in Nat /\ post[i] = live[k + i]
  BY <1>l, <1>2
<1>3. Held(post, given, past)
  <2> SUFFICES ASSUME NEW x \in 0 .. MaxTime, NEW f \in BOOLEAN, x >= past
               PROVE  Count(post, At(x, f)) = given[x][f]
    BY DEF Held
  <2>X. PICK X : X = At(x, f)
    OBVIOUS
  <2>1. Count(live, X) = given[x][f]
    <3>1. x >= cut
      BY <1>0, <1>l
    <3> QED
      BY <2>X, <3>1 DEF TellsTrue, Held
  <2>2. \A i \in DOMAIN pre : pre[i] \notin X
    <3> TAKE i \in DOMAIN pre
    <3>1. pre[i].at \in Nat /\ pre[i].at + length < t
      BY <1>l, <1>n, <1>1
    <3>2. pre[i].at < past
      BY <1>0, <3>1
    <3>3. pre[i].at # x
      BY <1>l, <3>1, <3>2
    <3> QED
      BY <2>X, <3>3 DEF At
  <2>3. Count(pre, X) = 0
    BY <2>2, CountNone
  <2>4. Count(live, X) = Count(pre, X) + Count(post, X)
    BY <1>p, <1>q, CountParts
  <2>5. Count(post, X) \in Nat
    BY <1>2, CountType
  <2> QED
    BY <2>1, <2>3, <2>4, <2>5, <2>X
<1>4. NotPast(post, past)
  <2> SUFFICES ASSUME NEW i \in DOMAIN post
               PROVE  post[i].at + MaxLag >= past
    BY DEF NotPast
  <2>1. k + i \in 1 .. Len(live) /\ i \in Nat /\ i >= 1 /\ post[i] = live[k + i]
    BY <1>i, <1>2, <1>l
  <2>2. live[k + i].at \in Nat
    BY <1>n, <2>1
  <2>3. CASE past = cut
    BY <1>l, <2>1, <2>3 DEF TellsTrue, NotPast
  <2>4. CASE past = t - length
    <3>1. k < Len(live) /\ k + 1 \in 1 .. Len(live)
      BY <1>l, <2>1
    <3>2. live[k + 1].at \in Nat /\ live[k + 1].at + length >= t
      BY <1>n, <3>1
    <3>3. i = 1 \/ k + 1 < k + i
      BY <1>l, <2>1
    <3>4. live[k + i].at + MaxLag >= live[k + 1].at
      <4>1. CASE i = 1
        BY <1>l, <3>2, <4>1
      <4>2. CASE k + 1 < k + i
        BY <1>l, <2>1, <3>1, <4>2 DEF TellsTrue, InOrder
      <4> QED
        BY <3>3, <4>1, <4>2
    <3> QED
      BY <1>l, <2>1, <2>2, <2>4, <3>2, <3>4
  <2> QED
    BY <1>0, <2>3, <2>4
<1>5. InOrder(post, n)
  <2>1. \A i \in DOMAIN post : post[i].at <= n
    BY <1>i, <1>l DEF TellsTrue, InOrder
  <2>2. ASSUME NEW i \in DOMAIN post, NEW j \in DOMAIN post, i < j
        PROVE  post[j].at + MaxLag >= post[i].at
    <3>1. /\ k + i \in DOMAIN live /\ k + j \in DOMAIN live /\ i \in Nat /\ j \in Nat
          /\ post[i] = live[k + i] /\ post[j] = live[k + j]
      BY <1>i, <1>l
    <3>2. k + i < k + j
      BY <1>l, <2>2, <3>1
    <3> QED
      BY <3>1, <3>2 DEF TellsTrue, InOrder
  <2> QED
    BY <2>1, <2>2 DEF InOrder
<1> QED
  BY <1>3, <1>4, <1>5, <1>c, <1>q DEF TellsTrue

\* An outcome that is recorded soon enough is told like the others.
LEMMA AppendingTells ==
  ASSUME NEW live \in Seq(Outcome), NEW given \in [0 .. MaxTime -> [BOOLEAN -> Nat]],
         NEW cut \in Nat, NEW n \in Nat, TellsTrue(live, given, cut, n), cut <= n,
         NEW t \in 0 .. MaxTime, NEW failed \in BOOLEAN, t <= n, n <= t + MaxLag,
         NEW o, o = [at |-> t, failed |-> failed],
         NEW again, again = [given EXCEPT ![t] = [given[t] EXCEPT ![failed] = @ + 1]]
  PROVE  TellsTrue(Append(live, o), again, cut, n)
<1>m. PICK more : more = Append(live, o)
  OBVIOUS
<1>l. /\ MaxLag \in Nat /\ MaxTime \in Nat /\ Len(live) \in Nat /\ t \in Nat
      /\ DOMAIN live = 1 .. Len(live)
  BY AlertsAssumption
<1>o. o \in Outcome /\ o.at = t /\ o.failed = failed
  BY <1>l DEF Outcome
<1>1. /\ DOMAIN more = 1 .. (Len(live) + 1) /\ more[Len(live) + 1] = o
      /\ \A i \in 1 .. Len(live) : more[i] = live[i]
  BY <1>m, <1>o
<1>n. \A i \in 1 .. Len(live) : live[i] \in Outcome /\ live[i].at \in Nat
  <2>1. \A i \in 1 .. Len(live) : live[i] \in Outcome
    OBVIOUS
  <2>2. \A x \in Outcome : x.at \in Nat
    BY DEF Outcome
  <2> QED
    BY <2>1, <2>2
<1>2. ASSUME NEW i \in DOMAIN more
      PROVE  \/ i = Len(live) + 1 /\ more[i] = o
             \/ i \in DOMAIN live /\ more[i] = live[i]
  BY <1>l, <1>1
<1>3. Held(more, again, cut)
  <2> SUFFICES ASSUME NEW x \in 0 .. MaxTime, NEW f \in BOOLEAN, x >= cut
               PROVE  Count(more, At(x, f)) = again[x][f]
    BY DEF Held
  <2>X. PICK X : X = At(x, f)
    OBVIOUS
  <2>1. Count(live, X) = given[x][f]
    BY <2>X DEF TellsTrue, Held
  <2>2. o \in X <=> (x = t /\ f = failed)
    BY <2>X DEF At
  <2>3. /\ o \in X => Count(more, X) = Count(live, X) + 1
        /\ o \notin X => Count(more, X) = Count(live, X)
    BY <1>m, <1>o, CountAppend
  <2>4. CASE o \in X
    <3>1. again[x][f] = given[x][f] + 1
      BY <2>2, <2>4
    <3> QED
      BY <2>1, <2>3, <2>4, <2>X, <3>1
  <2>5. CASE o \notin X
    <3>1. again[x][f] = given[x][f]
      BY <2>2, <2>5
    <3> QED
      BY <2>1, <2>3, <2>5, <2>X, <3>1
  <2> QED
    BY <2>4, <2>5
<1>4. NotPast(more, cut)
  <2> SUFFICES ASSUME NEW i \in DOMAIN more
               PROVE  more[i].at + MaxLag >= cut
    BY DEF NotPast
  <2>1. CASE i \in DOMAIN live /\ more[i] = live[i]
    BY <2>1 DEF TellsTrue, NotPast
  <2>2. CASE more[i] = o
    BY <1>l, <1>o, <2>2
  <2> QED
    BY <1>2, <2>1, <2>2
<1>5. InOrder(more, n)
  <2>1. ASSUME NEW i \in DOMAIN more
        PROVE  more[i].at <= n
    <3>1. CASE i \in DOMAIN live /\ more[i] = live[i]
      BY <3>1 DEF TellsTrue, InOrder
    <3>2. CASE more[i] = o
      BY <1>l, <1>o, <3>2
    <3> QED
      BY <1>2, <3>1, <3>2
  <2>2. ASSUME NEW i \in DOMAIN more, NEW j \in DOMAIN more, i < j
        PROVE  more[j].at + MaxLag >= more[i].at
    <3>0. i \in DOMAIN live /\ more[i] = live[i]
      BY <1>l, <1>1, <1>2, <2>2
    <3>1. CASE j \in DOMAIN live /\ more[j] = live[j]
      BY <2>2, <3>0, <3>1 DEF TellsTrue, InOrder
    <3>2. CASE more[j] = o
      <4>1. live[i].at <= n /\ live[i].at \in Nat
        BY <1>l, <1>n, <3>0 DEF TellsTrue, InOrder
      <4> QED
        BY <1>l, <1>o, <3>0, <3>2, <4>1
    <3> QED
      BY <1>2, <3>1, <3>2
  <2> QED
    BY <2>1, <2>2 DEF InOrder
<1> QED
  BY <1>3, <1>4, <1>5, <1>m DEF TellsTrue

-----------------------------------------------------------------------------
(* The window is evaluated, given an outcome, loaded.                      *)

\* Pruning drops what has left the window, and nothing else.
LEMMA PrunedTells ==
  ASSUME NEW w, Typed(w), NEW given, NEW cut \in Nat, NEW t \in Nat, NEW s,
         s.window \in Nat, NEW n \in Nat, TellsTrue(Live(w), given, cut, n),
         NEW p, p = Pruned(w, t, s)
  PROVE  Typed(p) /\ TellsTrue(Live(p), given, CutAt(cut, t, s.window), n)
<1>l. PICK live : live = Live(w)
  OBVIOUS
<1>d. PICK d : d = Dropped(w, t, s)
  OBVIOUS
<1>j. PICK k \in 0 .. Len(live) : KeepsAfter(d, live, k, t, s)
  BY <1>l, <1>d, DroppedLive
<1>k. /\ Typed(d) /\ Live(d) = SubSeq(live, k + 1, Len(live))
      /\ \A i \in 1 .. k : live[i].at + s.window < t
      /\ k < Len(live) => live[k + 1].at + s.window >= t
  BY <1>j DEF KeepsAfter
<1>1. live \in Seq(Outcome)
  BY <1>l, LiveIs
<1>2. TellsTrue(live, given, cut, n)
  BY <1>l
<1>3. TellsTrue(SubSeq(live, k + 1, Len(live)), given, CutAt(cut, t, s.window), n)
  BY <1>1, <1>2, <1>k, DroppingTells
<1>4. p = Compacted(d)
  BY <1>d DEF Pruned
<1>5. Typed(p) /\ Live(p) = Live(d)
  BY <1>4, <1>k, CompactedLive
<1> QED
  BY <1>3, <1>5, <1>k

\* An outcome is recorded at the end.
LEMMA GrownLive ==
  ASSUME NEW w, Typed(w), NEW o \in Outcome,
         NEW g, g = [w EXCEPT !.outcomes = Append(@, o),
                              !.errors = IF o.failed THEN @ + 1 ELSE @]
  PROVE  Typed(g) /\ Live(g) = Append(Live(w), o)
<1>l. PICK live : live = Live(w)
  OBVIOUS
<1>x. PICK x : x = w.outcomes
  OBVIOUS
<1>m. PICK more : more = Append(x, o)
  OBVIOUS
<1>1. /\ x \in Seq(Outcome) /\ w.start \in 0 .. Len(x) /\ w.start \in Nat
      /\ Len(x) \in Nat /\ w.start <= Len(x) /\ w.errors \in Nat
      /\ w.errors = Count(live, Failed)
  BY <1>l, <1>x DEF Typed
<1>2. /\ live \in Seq(Outcome) /\ Len(live) = Len(x) - w.start /\ Len(live) \in Nat
      /\ \A i \in 1 .. Len(live) : live[i] = x[w.start + i]
  BY <1>l, <1>x, LiveIs
<1>3. /\ more \in Seq(Outcome) /\ Len(more) = Len(x) + 1 /\ more[Len(x) + 1] = o
      /\ \A i \in 1 .. Len(x) : more[i] = x[i]
  BY <1>1, <1>m
<1>e. PICK errors \in Nat : errors = IF o.failed THEN w.errors + 1 ELSE w.errors
  BY <1>1
<1>4. /\ g \in [outcomes : Seq(Outcome), start : Nat, errors : Nat]
      /\ g.outcomes = more /\ g.start = w.start /\ g.errors = errors
  <2>1. w \in [outcomes : Seq(Outcome), start : Nat, errors : Nat]
    BY DEF Typed
  <2>2. g = [w EXCEPT !.outcomes = more, !.errors = errors]
    BY <1>x, <1>m, <1>e, <2>1
  <2> QED
    BY <1>3, <2>1, <2>2
<1>a. PICK a \in 0 .. Len(more) : a = w.start
  BY <1>1, <1>3
<1>b. PICK b \in a .. Len(more) : b = Len(more)
  BY <1>1, <1>3, <1>a
<1>q. PICK part : part = SubSeq(more, a + 1, b)
  OBVIOUS
<1>5. /\ part \in Seq(Outcome) /\ Len(part) = b - a
      /\ \A i \in 1 .. (b - a) : part[i] = more[a + i]
  BY <1>3, <1>q, PartOf
<1>r. PICK rest : rest = Append(live, o)
  OBVIOUS
<1>6. /\ rest \in Seq(Outcome) /\ Len(rest) = Len(live) + 1 /\ rest[Len(live) + 1] = o
      /\ \A i \in 1 .. Len(live) : rest[i] = live[i]
  BY <1>2, <1>r
<1>n. /\ Len(x) \in Nat /\ Len(live) \in Nat /\ a \in Nat /\ b \in Nat
      /\ a + Len(live) = Len(x) /\ b = Len(x) + 1
  <2>1. Len(x) \in Nat /\ w.start \in Nat /\ Len(live) = Len(x) - w.start
    BY <1>1, <1>2
  <2>2. a = w.start /\ b = Len(x) + 1 /\ Len(live) \in Nat
    BY <1>2, <1>3, <1>a, <1>b
  <2> QED
    BY <2>1, <2>2
<1>7. Len(part) = Len(rest) /\ b - a = Len(live) + 1 /\ a + Len(live) = Len(x)
  <2>1. /\ Len(more) = Len(x) + 1 /\ Len(live) = Len(x) - w.start
        /\ Len(rest) = Len(live) + 1 /\ Len(part) = b - a
    BY <1>2, <1>3, <1>5, <1>6
  <2>2. /\ Len(x) \in Nat /\ w.start \in Nat /\ w.start <= Len(x)
    BY <1>1
  <2> QED
    BY <1>a, <1>b, <2>1, <2>2
<1>8. ASSUME NEW i \in 1 .. Len(rest)
      PROVE  part[i] = rest[i]
  <2>1. i \in 1 .. Len(live) \/ i = Len(live) + 1
    BY <1>2, <1>6
  <2>2. CASE i \in 1 .. Len(live)
    <3>1. a + i \in 1 .. Len(x) /\ i \in 1 .. (b - a)
      BY <1>n, <2>2
    <3> QED
      BY <1>2, <1>3, <1>5, <1>6, <1>a, <2>2, <3>1
  <2>3. CASE i = Len(live) + 1
    <3>1. a + i = Len(x) + 1 /\ i \in 1 .. (b - a)
      BY <1>n, <2>3
    <3> QED
      BY <1>3, <1>5, <1>6, <2>3, <3>1
  <2> QED
    BY <2>1, <2>2, <2>3
<1>9. part = rest
  BY <1>5, <1>6, <1>7, <1>8, SeqEqual
<1>10. Live(g) = rest
  BY <1>4, <1>9, <1>a, <1>b, <1>q DEF Live
<1>11. errors = Count(rest, Failed)
  <2>F. PICK F : F = Failed
    OBVIOUS
  <2>1. o \in F <=> o.failed
    BY <2>F DEF Failed
  <2>2. /\ o \in F => Count(rest, F) = Count(live, F) + 1
        /\ o \notin F => Count(rest, F) = Count(live, F)
    BY <1>2, <1>r, CountAppend
  <2> QED
    BY <1>1, <1>e, <2>1, <2>2, <2>F
<1>12. g.start <= Len(g.outcomes)
  BY <1>1, <1>3, <1>4
<1> QED
  BY <1>4, <1>10, <1>11, <1>12, <1>l, <1>r DEF Typed

\* The clock goes on.
LEMMA LaterTells ==
  ASSUME NEW live \in Seq(Outcome), NEW given, NEW cut, NEW n \in Nat, NEW m \in Nat,
         n <= m, TellsTrue(live, given, cut, n)
  PROVE  TellsTrue(live, given, cut, m)
<1>1. \A i \in DOMAIN live : live[i].at \in Nat
  <2>1. \A x \in Outcome : x.at \in Nat
    BY DEF Outcome
  <2>2. \A i \in DOMAIN live : live[i] \in Outcome
    OBVIOUS
  <2> QED
    BY <2>1, <2>2
<1>2. \A i \in DOMAIN live : live[i].at <= n
  BY DEF TellsTrue, InOrder
<1>3. \A i \in DOMAIN live : live[i].at <= m
  BY <1>1, <1>2
<1> QED
  BY <1>3 DEF TellsTrue, InOrder

\* The events, of requests that have started.
EventsOK ==
  /\ events \in Seq([started : Nat, failed : BOOLEAN])
  /\ \A i \in DOMAIN events : events[i].started <= now

GivenByEvents ==
  [t \in 0 .. MaxTime |-> [f \in BOOLEAN |->
     Cardinality({i \in DOMAIN events : events[i] = [started |-> t, failed |-> f]})]]

\* What the window has to tell of: what this process gave it, and what was there when it
\* started.
Expected ==
  [t \in 0 .. MaxTime |-> [f \in BOOLEAN |-> recorded.given[t][f] + StartedAt(t, f)]]

RecordedOK ==
  /\ recorded \in [given : [0 .. MaxTime -> [BOOLEAN -> Nat]], loaded : Nat, cut : Nat]
  /\ recorded.cut <= now /\ recorded.loaded <= Len(events)

\* Events are counted by numbers.
LEMMA EventsCount ==
  ASSUME EventsOK, NEW n \in Nat, NEW t, NEW f
  PROVE  Cardinality({i \in 1 .. n : events[i] = [started |-> t, failed |-> f]}) \in Nat
<1>1. IsFiniteSet(1 .. n)
  BY FS_Interval
<1>2. IsFiniteSet({i \in 1 .. n : events[i] = [started |-> t, failed |-> f]})
  BY <1>1, FS_Subset
<1> QED
  BY <1>2, FS_CardinalityType

\* What is expected is a number, for each tick and each outcome.
LEMMA ExpectedCounts ==
  ASSUME EventsOK, RecordedOK
  PROVE  /\ \A t \in 0 .. MaxTime, f \in BOOLEAN : StartedAt(t, f) \in Nat
         /\ Expected \in [0 .. MaxTime -> [BOOLEAN -> Nat]]
<1>1. \A t \in 0 .. MaxTime, f \in BOOLEAN : StartedAt(t, f) \in Nat
  BY EventsCount DEF StartedAt, RecordedOK
<1>2. \A t \in 0 .. MaxTime, f \in BOOLEAN : recorded.given[t][f] \in Nat
  <2>1. PICK given \in [0 .. MaxTime -> [BOOLEAN -> Nat]] : given = recorded.given
    BY DEF RecordedOK
  <2> QED
    BY <2>1
<1>3. \A t \in 0 .. MaxTime, f \in BOOLEAN : recorded.given[t][f] + StartedAt(t, f) \in Nat
  BY <1>1, <1>2
<1> QED
  BY <1>1, <1>3 DEF Expected

\* What is expected while this process gives the window nothing.
LEMMA ExpectedFrame ==
  ASSUME UNCHANGED events, recorded'.given = recorded.given,
         recorded'.loaded = recorded.loaded
  PROVE  Expected' = Expected
BY DEF Expected, StartedAt

\* What is loaded are the outcomes of the recent events, in their order.
LEMMA LoadedTells ==
  ASSUME EventsOK, now \in Nat, NEW s, s.window \in Nat,
         NEW order \in Orders(Recent(now, s)), NEW w, w = Loaded(order),
         NEW cut, cut = IF now > s.window THEN now - s.window ELSE 0
  PROVE  Typed(w) /\ TellsTrue(Live(w), GivenByEvents, cut, now)
<1>R. PICK R : R = Recent(now, s)
  OBVIOUS
<1>c. PICK card : card = Cardinality(R)
  OBVIOUS
<1>0. /\ cut \in Nat /\ MaxLag \in Nat /\ MaxTime \in Nat
      /\ \A x \in Nat : x >= cut <=> x + s.window >= now
  BY AlertsAssumption
<1>1. /\ DOMAIN events = 1 .. Len(events) /\ Len(events) \in Nat
      /\ \A i \in DOMAIN events : events[i] \in [started : Nat, failed : BOOLEAN]
  <2>E. PICK E : E = [started : Nat, failed : BOOLEAN]
    OBVIOUS
  <2>1. events \in Seq(E)
    BY <2>E DEF EventsOK
  <2>2. /\ DOMAIN events = 1 .. Len(events) /\ Len(events) \in Nat
        /\ \A i \in DOMAIN events : events[i] \in E
    BY <2>1
  <2> QED
    BY <2>2, <2>E
<1>2. /\ R \subseteq DOMAIN events
      /\ \A i \in DOMAIN events : i \in R <=> events[i].started + s.window >= now
  BY <1>R DEF Recent
<1>3. IsFiniteSet(R) /\ card \in Nat
  <2>1. IsFiniteSet(1 .. Len(events))
    BY <1>1, FS_Interval
  <2> QED
    BY <1>1, <1>2, <1>c, <2>1, FS_Subset, FS_CardinalityType
<1>4. /\ order \in [1 .. card -> R] /\ \A y \in R : \E j \in 1 .. card : order[j] = y
      /\ \A j, k \in 1 .. card : order[j] = order[k] => j = k
      /\ \A j, k \in 1 .. card :
           j < k => events[order[j]].started <= events[order[k]].started
  <2>1. order \in Bijection(1 .. card, R)
    BY <1>R, <1>c DEF Orders
  <2>2. /\ order \in [1 .. card -> R] /\ \A y \in R : \E j \in 1 .. card : order[j] = y
        /\ \A j, k \in 1 .. card : order[j] = order[k] => j = k
    BY <2>1 DEF Bijection, Injection, Surjection, IsInjective
  <2>3. DOMAIN order = 1 .. card
    BY <2>2
  <2> QED
    BY <1>R, <2>2, <2>3 DEF Orders
<1>o. PICK out : out = Outcomes(order)
  OBVIOUS
<1>5. /\ DOMAIN out = 1 .. card
      /\ \A k \in 1 .. card : out[k] = [at |-> events[order[k]].started,
                                        failed |-> events[order[k]].failed]
      /\ out = [k \in 1 .. card |-> out[k]]
  BY <1>4, <1>o DEF Outcomes
<1>6. ASSUME NEW k \in 1 .. card
      PROVE  /\ order[k] \in R /\ order[k] \in DOMAIN events /\ out[k] \in Outcome
             /\ out[k].at = events[order[k]].started /\ out[k].at \in Nat
             /\ out[k].failed = events[order[k]].failed
  <2>1. order[k] \in R /\ order[k] \in DOMAIN events
    BY <1>2, <1>4
  <2>2. events[order[k]] \in [started : Nat, failed : BOOLEAN]
    BY <1>1, <2>1
  <2> QED
    BY <1>5, <2>1, <2>2 DEF Outcome
<1>7. out \in Seq(Outcome) /\ Len(out) = card
  <2>1. out \in [1 .. card -> Outcome]
    BY <1>5, <1>6
  <2>2. out \in Seq(Outcome)
    BY <1>3, <2>1, SeqDef
  <2>3. Len(out) = card
    BY <1>3, <1>5, <2>2, LenProperties
  <2> QED
    BY <2>2, <2>3
<1>8. Typed(w) /\ Live(w) = out
  <2>e. PICK errors : errors = Errors(out)
    OBVIOUS
  <2>1. w = [outcomes |-> out, start |-> 0, errors |-> errors]
    BY <1>o, <2>e DEF Loaded
  <2>2. errors = Count(out, Failed) /\ errors \in Nat
    BY <1>7, <2>e, ErrorsCount, CountType
  <2>3. SubSeq(out, 1, Len(out)) = out
    BY <1>7, SubSeqFull
  <2>4. Live(w) = out
    BY <2>1, <2>3 DEF Live
  <2> QED
    BY <1>3, <1>7, <2>1, <2>2, <2>4 DEF Typed
<1>9. ASSUME NEW x \in 0 .. MaxTime, NEW f \in BOOLEAN, x >= cut
      PROVE  Count(out, At(x, f)) = GivenByEvents[x][f]
  <2>A. PICK A : A = {k \in DOMAIN out : out[k] \in At(x, f)}
    OBVIOUS
  <2>B. PICK B : B = {i \in DOMAIN events : events[i] = [started |-> x, failed |-> f]}
    OBVIOUS
  <2>1. Count(out, At(x, f)) = Cardinality(A) /\ IsFiniteSet(A)
    BY <1>7, <2>A, CountType DEF Count
  <2>2. GivenByEvents[x][f] = Cardinality(B)
    BY <2>B DEF GivenByEvents
  <2>3. \A k \in A : k \in 1 .. card /\ out[k].at = x /\ out[k].failed = f
    BY <1>5, <2>A DEF At
  <2>4. \A k \in 1 .. card : out[k].at = x /\ out[k].failed = f => k \in A
    <3> TAKE k \in 1 .. card
    <3> HAVE out[k].at = x /\ out[k].failed = f
    <3>1. out[k] = [at |-> x, failed |-> f]
      BY <1>6 DEF Outcome
    <3> QED
      BY <1>5, <2>A, <3>1 DEF At
  <2>g. PICK g : g = [k \in A |-> order[k]]
    OBVIOUS
  <2>5. ASSUME NEW k \in A
        PROVE  g[k] \in B
    <3>1. k \in 1 .. card /\ out[k].at = x /\ out[k].failed = f
      BY <2>3
    <3>2. order[k] \in DOMAIN events /\ events[order[k]].started = x
          /\ events[order[k]].failed = f
      BY <1>6, <3>1
    <3>3. events[order[k]] = [started |-> x, failed |-> f]
      BY <1>1, <3>2
    <3> QED
      BY <2>B, <2>g, <3>2, <3>3
  <2>6. ASSUME NEW i \in B
        PROVE  \E k \in A : g[k] = i
    <3>1. i \in DOMAIN events /\ events[i].started = x /\ events[i].failed = f
      BY <2>B
    <3>2. i \in R
      <4>1. x \in Nat /\ x + s.window >= now
        BY <1>0, <1>9
      <4>2. events[i].started + s.window >= now
        BY <3>1, <4>1
      <4> QED
        BY <1>2, <3>1, <4>2
    <3>3. PICK k \in 1 .. card : order[k] = i
      BY <1>4, <3>2
    <3>4. k \in A
      BY <1>6, <2>4, <3>1, <3>3
    <3> QED
      BY <2>g, <3>3, <3>4
  <2>7. \A j, k \in A : g[j] = g[k] => j = k
    BY <1>4, <2>3, <2>g
  <2>8. g \in Bijection(A, B)
    BY <2>5, <2>6, <2>7, <2>g DEF Bijection, Injection, Surjection, IsInjective
  <2> QED
    BY <2>1, <2>2, <2>8, FS_Bijection DEF ExistsBijection
<1>10. NotPast(out, cut)
  <2> SUFFICES ASSUME NEW k \in DOMAIN out
               PROVE  out[k].at + MaxLag >= cut
    BY DEF NotPast
  <2>1. k \in 1 .. card
    BY <1>5
  <2>2. out[k].at \in Nat /\ out[k].at + s.window >= now
    BY <1>2, <1>6, <2>1
  <2>3. out[k].at >= cut
    BY <1>0, <2>2
  <2> QED
    BY <1>0, <2>2, <2>3
<1>11. InOrder(out, now)
  <2>1. \A k \in DOMAIN out : out[k].at <= now
    BY <1>5, <1>6 DEF EventsOK
  <2>2. ASSUME NEW j \in DOMAIN out, NEW k \in DOMAIN out, j < k
        PROVE  out[k].at + MaxLag >= out[j].at
    <3>1. j \in 1 .. card /\ k \in 1 .. card
      BY <1>5
    <3>2. out[j].at <= out[k].at /\ out[j].at \in Nat /\ out[k].at \in Nat
      BY <1>4, <1>6, <2>2, <3>1
    <3> QED
      BY <1>0, <3>2
  <2> QED
    BY <2>1, <2>2 DEF InOrder
<1> QED
  BY <1>8, <1>9, <1>10, <1>11 DEF TellsTrue, Held

-----------------------------------------------------------------------------
(* Goroutines and the clock.                                               *)

\* A goroutine that has read the clock has read it lately; one that polls does not go on
\* with a time it has not read.
StampedAs(r) ==
  \/ r.at \in {"grade", "judge", "usage", "list", "record"}
  \/ r.at \in {"loop", "view"} /\ r.loop # "poll"
Lately(t, n) == t <= n /\ n <= t + MaxLag
OnTime(r, n) ==
  /\ r.started <= n
  /\ r.at = "poll" => r.loop = "poll"
  /\ StampedAs(r) => Lately(r.now, n)
Timed == \A w \in Workers : OnTime(work[w], now)

\* What is read now is read lately.
LEMMA JustNow ==
  ASSUME now \in Nat
  PROVE  Lately(now, now)
<1>1. MaxLag \in Nat
  BY AlertsAssumption
<1> QED
  BY <1>1 DEF Lately

\* A goroutine that does nothing.
LEMMA NoWorkOnTime ==
  ASSUME NEW n \in Nat
  PROVE  OnTime(NoWork, n)
BY DEF OnTime, NoWork, StampedAs

\* It goes on with the time it has read.
LEMMA GoesOnOnTime ==
  ASSUME NEW n \in Nat, NEW r, Job(r), OnTime(r, n), StampedAs(r)
  PROVE  OnTime(GoesOn(r), n)
<1>1. r.started <= n /\ Lately(r.now, n)
  BY DEF OnTime
<1>2. OnTime([r EXCEPT !.at = "loop"], n)
  BY <1>1 DEF OnTime, StampedAs, Job
<1>3. OnTime([r EXCEPT !.at = r.then], n)
  <2>1. r.then # "poll"
    BY DEF Job, Aimed
  <2> QED
    BY <1>1, <2>1 DEF OnTime, StampedAs, Job
<1> QED
  BY <1>2, <1>3, NoWorkOnTime DEF GoesOn

\* It starts a loop: of views, with the time; of polls, before it reads the time.
LEMMA LoopOnTime ==
  ASSUME now \in Nat, NEW todo, NEW loop, NEW then,
         \/ loop = "poll" /\ then = "idle"
         \/ loop = "view" /\ then \in {"idle", "list"}
  PROVE  OnTime(Loop(loop, then, todo), now)
<1>l. Lately(now, now)
  BY JustNow
<1>t. PICK t \in Nat : t = (IF loop = "view" THEN now ELSE 0)
  OBVIOUS
<1>d. PICK d : d = [NoWork EXCEPT !.loop = loop, !.then = then, !.todo = todo,
                                  !.now = IF loop = "view" THEN now ELSE 0]
  OBVIOUS
<1>1. d = [at |-> "idle", loop |-> loop, then |-> then, todo |-> todo, on |-> NoScope,
           view |-> <<>>, next |-> 0, early |-> FALSE, now |-> t,
           started |-> 0, failed |-> FALSE]
  BY <1>t, <1>d DEF NoWork
<1>2. OnTime([d EXCEPT !.at = "loop"], now)
  BY <1>1, <1>l, <1>t DEF OnTime, StampedAs
<1>3. then # "idle" => OnTime([d EXCEPT !.at = d.then], now)
  BY <1>1, <1>l, <1>t DEF OnTime, StampedAs
<1>4. GoesOn(d) = IF todo # {} THEN [d EXCEPT !.at = "loop"]
                  ELSE IF then = "idle" THEN NoWork ELSE [d EXCEPT !.at = d.then]
  BY <1>1 DEF GoesOn
<1>5. OnTime(GoesOn(d), now)
  BY <1>2, <1>3, <1>4, NoWorkOnTime
<1> QED
  BY <1>5, <1>d DEF Loop

\* It turns to a source.
LEMMA AtSourceOnTime ==
  ASSUME NEW n \in Nat, NEW r, Job(r), r.started <= n, Lately(r.now, n), NEW i
  PROVE  OnTime(AtSource(r, i), n)
<1>a. PICK a \in {"judge", "grade"} :
        a = IF KindsOf(r.on)[i] = "account_check" THEN "judge" ELSE "grade"
  OBVIOUS
<1>1. AtSource(r, i) = [r EXCEPT !.next = i, !.at = a]
  BY <1>a DEF AtSource
<1>2. OnTime([r EXCEPT !.next = i, !.at = a], n)
  BY DEF OnTime, StampedAs, Job
<1> QED
  BY <1>1, <1>2

\* The others hold what they held.
LEMMA DoesTimed ==
  ASSUME WorkOK, Timed, NEW w \in Workers, NEW r, OnTime(r, now), Does(w, r),
         UNCHANGED now
  PROVE  Timed'
<1>1. work'[w] = r /\ \A v \in Workers \ {w} : work'[v] = work[v]
  BY DEF WorkOK, Does
<1> QED
  BY <1>1 DEF Timed

\* A step of a goroutine.
LEMMA StepsTimed ==
  ASSUME WorkOK, now \in Nat, Timed, NEW w \in Workers, Steps(w)
  PROVE  Timed'
<1>r. PICK r : r = work[w]
  OBVIOUS
<1>0. /\ Job(r) /\ Aimed(r) /\ OnTime(r, now) /\ r.now \in Nat /\ r.started \in Nat
      /\ r.started <= now
  BY <1>r DEF WorkOK, Job, Timed, OnTime
<1>l. Lately(now, now)
  BY JustNow
<1>u. UNCHANGED now
  BY DEF Steps, NextSubject, Answered, TakeView, ReadSettings, Judge, ResolveScope, List,
         Book, RecordUsage, RecordRequest, system
<1>1. CASE NextSubject(w)
  <2> PICK x \in r.todo :
       LET doing == [r EXCEPT !.on = x, !.todo = @ \ {x}] IN
         CASE r.loop = "poll" -> Does(w, [doing EXCEPT !.at = "poll"])
           [] r.loop = "view" /\ x \in Objects ->
                Does(w, [doing EXCEPT !.at = "view"])
           [] r.loop = "view" /\ r.todo \subseteq Keys ->
                Does(w, AtSource([doing EXCEPT !.loop = "list", !.view =
                                    [k \in r.todo |-> reading[k]]], 1))
           [] r.loop = "list" -> Does(w, AtSource(doing, 1))
           [] OTHER -> FALSE
    BY <1>1, <1>r DEF NextSubject
  <2>d. PICK doing : doing = [r EXCEPT !.on = x, !.todo = @ \ {x}]
    OBVIOUS
  <2>0. x \in Subjects /\ r.at = "loop"
    BY <1>0, <1>1, <1>r DEF Aimed, NextSubject
  <2>1. Job(doing) /\ doing.on = x /\ doing.now = r.now /\ doing.started = r.started
        /\ doing.loop = r.loop
    BY <1>0, <2>0, <2>d DEF Job, Aimed
  <2>v. PICK viewing : viewing = [doing EXCEPT !.loop = "list", !.view =
                                    [k \in r.todo |-> reading[k]]]
    OBVIOUS
  <2>2. Job(viewing) /\ viewing.on = x /\ viewing.now = r.now
        /\ viewing.started = r.started
    BY <2>1, <2>v DEF Job, Aimed
  <2>3. \/ r.loop = "poll" /\ Does(w, [doing EXCEPT !.at = "poll"])
        \/ r.loop = "view" /\ Does(w, [doing EXCEPT !.at = "view"])
        \/ r.loop # "poll" /\ Does(w, AtSource(viewing, 1))
        \/ r.loop # "poll" /\ Does(w, AtSource(doing, 1))
    BY <2>d, <2>v
  <2>4. r.loop # "poll" => Lately(r.now, now)
    BY <1>0, <2>0 DEF OnTime, StampedAs
  <2>5. r.loop = "poll" => OnTime([doing EXCEPT !.at = "poll"], now)
    BY <1>0, <2>1 DEF OnTime, StampedAs, Job
  <2>6. r.loop # "poll" => OnTime([doing EXCEPT !.at = "view"], now)
    BY <1>0, <2>1, <2>4 DEF OnTime, StampedAs, Job
  <2>7. r.loop # "poll" => OnTime(AtSource(viewing, 1), now)
    BY <1>0, <2>2, <2>4, AtSourceOnTime
  <2>8. r.loop # "poll" => OnTime(AtSource(doing, 1), now)
    BY <1>0, <2>1, <2>4, AtSourceOnTime
  <2> QED
    BY <1>u, <2>3, <2>5, <2>6, <2>7, <2>8, DoesTimed
<1>2. CASE Answered(w)
  <2>1. OnTime([r EXCEPT !.at = "view"], now)
    BY <1>0, <1>2, <1>r DEF OnTime, StampedAs, Job, Answered
  <2>2. Does(w, [r EXCEPT !.at = "view"])
    BY <1>2, <1>r DEF Answered
  <2> QED
    BY <1>u, <2>1, <2>2, DoesTimed
<1>3. CASE TakeView(w)
  <2>t. PICK t \in Nat : t = IF r.loop = "poll" THEN now ELSE r.now
    BY <1>0
  <2>v. PICK v : v = [x \in {r.on} |-> reading[x]]
    OBVIOUS
  <2>d. PICK d : d = [r EXCEPT !.view = v, !.now = t]
    OBVIOUS
  <2>1. Job(d) /\ d.now = t /\ d.started = r.started
    BY <1>0, <1>3, <1>r, <2>d DEF Job, Aimed, TakeView
  <2>2. d = [r EXCEPT !.view = [x \in {r.on} |-> reading[x]],
                      !.now = IF r.loop = "poll" THEN now ELSE @]
    BY <1>0, <2>t, <2>v, <2>d DEF Job
  <2>3. Lately(t, now)
    <3>1. r.at = "view"
      BY <1>3, <1>r DEF TakeView
    <3> QED
      BY <1>0, <1>l, <2>t, <3>1 DEF OnTime, StampedAs
  <2>4. OnTime(AtSource(d, 1), now)
    BY <1>0, <2>1, <2>3, AtSourceOnTime
  <2>5. Does(w, AtSource(d, 1))
    BY <1>3, <1>r, <2>2 DEF TakeView
  <2> QED
    BY <1>u, <2>4, <2>5, DoesTimed
<1>4. CASE ReadSettings(w)
  <2>1. OnTime([r EXCEPT !.early = settings.early, !.at = "judge"], now)
    <3>1. Lately(r.now, now)
      BY <1>0, <1>4, <1>r DEF ReadSettings, OnTime, StampedAs
    <3> QED
      BY <1>0, <3>1 DEF OnTime, StampedAs, Job
  <2>2. Does(w, [r EXCEPT !.early = settings.early, !.at = "judge"])
    BY <1>4, <1>r DEF ReadSettings
  <2> QED
    BY <1>u, <2>1, <2>2, DoesTimed
<1>5. CASE Judge(w)
  <2>1. r.at = "judge"
    BY <1>5, <1>r DEF Judge
  <2>2. StampedAs(r) /\ Lately(r.now, now)
    BY <1>0, <2>1 DEF OnTime, StampedAs
  <2>3. CASE r.next < Len(KindsOf(r.on))
    <3>1. Does(w, AtSource(r, r.next + 1))
      BY <1>5, <1>r, <2>3 DEF Judge
    <3>2. OnTime(AtSource(r, r.next + 1), now)
      BY <1>0, <2>2, AtSourceOnTime
    <3> QED
      BY <1>u, <3>1, <3>2, DoesTimed
  <2>4. CASE ~(r.next < Len(KindsOf(r.on)))
    <3>1. Does(w, GoesOn(r))
      BY <1>5, <1>r, <2>4 DEF Judge
    <3>2. OnTime(GoesOn(r), now)
      BY <1>0, <2>2, GoesOnOnTime
    <3> QED
      BY <1>u, <3>1, <3>2, DoesTimed
  <2> QED
    BY <2>3, <2>4
<1>6. CASE ResolveScope(w) \/ List(w) \/ RecordRequest(w)
  <2>1. Does(w, NoWork)
    BY <1>6 DEF ResolveScope, List, RecordRequest
  <2> QED
    BY <1>u, <2>1, NoWorkOnTime, DoesTimed
<1>8. CASE Book(w)
  <2> PICK failed \in BOOLEAN :
        Does(w, [r EXCEPT !.at = "usage", !.now = now, !.failed = failed])
    BY <1>8, <1>r DEF Book
  <2>1. OnTime([r EXCEPT !.at = "usage", !.now = now, !.failed = failed], now)
    BY <1>0, <1>l DEF OnTime, StampedAs, Job
  <2> QED
    BY <1>u, <2>1, DoesTimed
<1>9. CASE RecordUsage(w)
  <2>1. OnTime([r EXCEPT !.at = "view", !.then = "record"], now)
    <3>1. Lately(r.now, now)
      BY <1>0, <1>9, <1>r DEF RecordUsage, OnTime, StampedAs
    <3> QED
      BY <1>0, <3>1 DEF OnTime, StampedAs, Job
  <2>2. Does(w, [r EXCEPT !.at = "view", !.then = "record"])
    BY <1>9, <1>r DEF RecordUsage
  <2> QED
    BY <1>u, <2>1, <2>2, DoesTimed
<1> QED
  BY <1>1, <1>2, <1>3, <1>4, <1>5, <1>6, <1>8, <1>9 DEF Steps

\* A call.
LEMMA CallsTimed ==
  ASSUME WorkOK, now \in Nat, Timed, NEW h \in Handlers, Calls(h)
  PROVE  Timed'
<1>0. h \in Workers /\ UNCHANGED now
  BY DEF Workers, Calls, CheckAccount, Serve, GetAlerts, UpdateSettings,
         CreateManagedAccount, UpdateManagedAccount, RemoveManagedAccount, UpdateKey,
         RevokeKey, Made
<1>l. Lately(now, now)
  BY JustNow
<1>1. CASE CheckAccount(h)
  <2> PICK x \in pool : Does(h, Loop("poll", "idle", {x}))
    BY <1>1 DEF CheckAccount
  <2>1. OnTime(Loop("poll", "idle", {x}), now)
    BY LoopOnTime
  <2> QED
    BY <1>0, <2>1, DoesTimed
<1>2. CASE Serve(h)
  <2> PICK k \in Keys : Does(h, [NoWork EXCEPT !.at = "answer", !.on = k, !.started = now])
    BY <1>2 DEF Serve
  <2>1. OnTime([NoWork EXCEPT !.at = "answer", !.on = k, !.started = now], now)
    BY DEF OnTime, StampedAs, NoWork
  <2> QED
    BY <1>0, <2>1, DoesTimed
<1>3. CASE GetAlerts(h)
  <2>1. OnTime(Loop("view", "list", pool \cup Keys), now)
    BY LoopOnTime
  <2>2. Does(h, Loop("view", "list", pool \cup Keys))
    BY <1>3 DEF GetAlerts
  <2> QED
    BY <1>0, <2>1, <2>2, DoesTimed
<1>4. CASE UpdateSettings(h)
  <2>1. OnTime(Loop("view", "idle", pool \cup Keys), now)
    BY LoopOnTime
  <2>2. Does(h, Loop("view", "idle", pool \cup Keys))
    BY <1>4 DEF UpdateSettings
  <2> QED
    BY <1>0, <2>1, <2>2, DoesTimed
<1>5. CASE CreateManagedAccount(h)
  <2> PICK y \in Objects, on \in BOOLEAN :
       /\ Made(y, on)
       /\ Does(h, IF on THEN [NoWork EXCEPT !.at = "poll", !.loop = "poll", !.on = y]
                  ELSE NoWork)
    BY <1>5 DEF CreateManagedAccount
  <2>1. OnTime([NoWork EXCEPT !.at = "poll", !.loop = "poll", !.on = y], now)
    BY DEF OnTime, StampedAs, NoWork
  <2> QED
    BY <1>0, <2>1, NoWorkOnTime, DoesTimed
<1>6. CASE UpdateManagedAccount(h)
  <2> PICK y \in Objects, on \in BOOLEAN :
       /\ Made(y, on)
       /\ Does(h, [NoWork EXCEPT !.at = IF on THEN "poll" ELSE "view",
                                 !.loop = "poll", !.on = y])
    BY <1>6 DEF UpdateManagedAccount
  <2>a. PICK a \in {"poll", "view"} : a = IF on THEN "poll" ELSE "view"
    OBVIOUS
  <2>1. OnTime([NoWork EXCEPT !.at = a, !.loop = "poll", !.on = y], now)
    BY DEF OnTime, StampedAs, NoWork
  <2>2. Does(h, [NoWork EXCEPT !.at = a, !.loop = "poll", !.on = y])
    BY <2>a
  <2> QED
    BY <1>0, <2>1, <2>2, DoesTimed
<1>7. CASE RemoveManagedAccount(h)
  <2> PICK x \in pool : Does(h, [NoWork EXCEPT !.at = "scope", !.on = x])
    BY <1>7 DEF RemoveManagedAccount
  <2>1. OnTime([NoWork EXCEPT !.at = "scope", !.on = x], now)
    BY DEF OnTime, StampedAs, NoWork
  <2> QED
    BY <1>0, <2>1, DoesTimed
<1>8. CASE UpdateKey(h)
  <2>k. PICK k \in Keys : \E usage :
          Does(h, AtSource([NoWork EXCEPT !.on = k, !.now = now,
                                          !.view = [x \in {k} |-> usage]], 1))
    BY <1>8 DEF UpdateKey
  <2>u. PICK usage :
          Does(h, AtSource([NoWork EXCEPT !.on = k, !.now = now,
                                          !.view = [x \in {k} |-> usage]], 1))
    BY <2>k
  <2>v. PICK v : v = [x \in {k} |-> usage]
    OBVIOUS
  <2>d. PICK d : d = [NoWork EXCEPT !.on = k, !.now = now, !.view = v]
    OBVIOUS
  <2>1. Job(d) /\ d.now = now /\ d.started = 0
    BY <2>d DEF Job, Aimed, NoWork
  <2>2. OnTime(AtSource(d, 1), now)
    BY <1>l, <2>1, AtSourceOnTime
  <2>3. Does(h, AtSource(d, 1))
    BY <2>u, <2>v, <2>d
  <2> QED
    BY <1>0, <2>2, <2>3, DoesTimed
<1>9. CASE RevokeKey(h)
  <2> PICK k \in Keys : Does(h, [NoWork EXCEPT !.at = "scope", !.on = k])
    BY <1>9 DEF RevokeKey
  <2>1. OnTime([NoWork EXCEPT !.at = "scope", !.on = k], now)
    BY DEF OnTime, StampedAs, NoWork
  <2> QED
    BY <1>0, <2>1, DoesTimed
<1> QED
  BY <1>1, <1>2, <1>3, <1>4, <1>5, <1>6, <1>7, <1>8, <1>9 DEF Calls

\* Any step.
LEMMA NextTimed ==
  ASSUME WorkOK, now \in Nat, Timed, [Next]_vars
  PROVE  Timed'
<1>1. CASE Tick
  <2>1. /\ now' = now + 1 /\ UNCHANGED work
        /\ \A w \in Workers : Stamped(w) => now < work[w].now + MaxLag
    BY <1>1 DEF Tick
  <2> SUFFICES ASSUME NEW w \in Workers
               PROVE  OnTime(work[w], now + 1)
    BY <2>1 DEF Timed
  <2>2. OnTime(work[w], now) /\ work[w].now \in Nat /\ work[w].started \in Nat
    BY DEF Timed, WorkOK, Job
  <2>3. StampedAs(work[w]) => now < work[w].now + MaxLag
    BY <2>1 DEF Stamped, StampedAs
  <2>4. MaxLag \in Nat
    BY AlertsAssumption
  <2>5. StampedAs(work[w]) => Lately(work[w].now, now + 1)
    BY <2>2, <2>3, <2>4 DEF OnTime, Lately
  <2> QED
    BY <2>2, <2>5 DEF OnTime
<1>2. CASE Restart
  <2>1. work' = [w \in Workers |-> NoWork] /\ UNCHANGED now
    BY <1>2 DEF Restart
  <2> QED
    BY <2>1, NoWorkOnTime DEF Timed
<1>3. CASE PollBalancesOnce
  <2>1. Does(Poller, Loop("poll", "idle", {x \in pool : Enabled(x)})) /\ UNCHANGED now
        /\ Poller \in Workers
    BY <1>3 DEF PollBalancesOnce, system, Workers
  <2>2. OnTime(Loop("poll", "idle", {x \in pool : Enabled(x)}), now)
    BY LoopOnTime
  <2> QED
    BY <2>1, <2>2, DoesTimed
<1>4. CASE \E w \in Workers : Steps(w)
  BY <1>4, StepsTimed
<1>5. CASE \E h \in Handlers : Calls(h)
  BY <1>5, CallsTimed
<1>6. CASE UNCHANGED <<now, work>>
  BY <1>6 DEF Timed, OnTime, StampedAs
<1>7. CASE (\E id \in AccountIds : BalanceChanges(id)) \/ UNCHANGED vars
           \/ \E src \in Sources : Acknowledge(src) \/ Silence(src) \/ ResolveByID(src)
  <2>1. UNCHANGED <<now, work>>
    BY <1>7 DEF BalanceChanges, Acknowledge, Silence, ResolveByID, Decide, vars
  <2> QED
    BY <1>6, <2>1
<1> QED
  BY <1>1, <1>2, <1>3, <1>4, <1>5, <1>7 DEF Next

-----------------------------------------------------------------------------
(* The window.                                                             *)

\* The window is of its type and tells the truth; the clock, the settings and what is
\* known of the outcomes are of their type.
WindowOK ==
  /\ now \in 0 .. MaxTime /\ settings \in Settings /\ left \in Nat
  /\ EventsOK /\ Typed(window) /\ RecordedOK
  /\ TellsTrue(Live(window), Expected, recorded.cut, now)

\* Settings have a length of the window.
LEMMA WindowLength ==
  ASSUME NEW s \in Settings
  PROVE  s.window \in Nat
BY AlertsAssumption

\* The error rate is evaluated, at a time that has come.
LEMMA EvaluatedTells ==
  ASSUME now \in Nat, NEW c, NEW w, Typed(w), NEW t \in Nat, t <= now,
         NEW s \in Settings, NEW given, recorded.cut \in Nat, recorded.cut <= now,
         TellsTrue(Live(w), given, recorded.cut, now), EvaluateErrorRate(c, w, t, s)
  PROVE  /\ Typed(window') /\ TellsTrue(Live(window'), given, Cut(t, s), now)
         /\ Cut(t, s) \in Nat /\ Cut(t, s) <= now
<1>1. s.window \in Nat
  BY WindowLength
<1>2. window' = Pruned(w, t, s)
  BY DEF EvaluateErrorRate
<1>3. Cut(t, s) = CutAt(recorded.cut, t, s.window)
  BY DEF Cut, CutAt
<1>4. Typed(window') /\ TellsTrue(Live(window'), given, CutAt(recorded.cut, t, s.window), now)
  BY <1>1, <1>2, PrunedTells
<1>5. Cut(t, s) \in Nat /\ Cut(t, s) <= now
  BY <1>1 DEF Cut
<1> QED
  BY <1>3, <1>4, <1>5

\* Nothing of the window has changed.
LEMMA SameWindow ==
  ASSUME WindowOK, left' \in Nat, UNCHANGED <<now, settings, window, events, recorded>>
  PROVE  WindowOK'
<1>1. Expected' = Expected
  BY ExpectedFrame
<1> QED
  BY <1>1 DEF WindowOK, EventsOK, RecordedOK, Typed, Live, TellsTrue, Held, NotPast, InOrder

\* Something may still happen, or has happened.
LEMMA LeftOver ==
  ASSUME left \in Nat, Happens \/ UNCHANGED left
  PROVE  left' \in Nat
BY DEF Happens

\* Steps that evaluate the error rate.
LEMMA WindowSteps ==
  ASSUME WindowOK, WorkOK, Timed, NEW w \in Workers, List(w) \/ RecordRequest(w)
  PROVE  WindowOK'
<1>u. UNCHANGED <<now, settings, left, events>>
  BY DEF List, RecordRequest, system
<1>t. PICK t : t = work[w].now
  OBVIOUS
<1>f. PICK failed : failed = work[w].failed
  OBVIOUS
<1>1. /\ t \in Nat /\ failed \in BOOLEAN /\ OnTime(work[w], now)
      /\ work[w].at \in {"list", "record"}
  BY <1>t, <1>f DEF WorkOK, Job, Timed, List, RecordRequest
<1>2. /\ now \in Nat /\ now \in 0 .. MaxTime /\ settings \in Settings /\ left \in Nat
      /\ EventsOK /\ Typed(window) /\ recorded.cut \in Nat /\ recorded.cut <= now
      /\ TellsTrue(Live(window), Expected, recorded.cut, now) /\ RecordedOK
  <2>1. MaxTime \in Nat
    BY AlertsAssumption
  <2> QED
    BY <2>1 DEF WindowOK, RecordedOK
<1>3. t <= now /\ now <= t + MaxLag
  BY <1>1, <1>t DEF OnTime, StampedAs, Lately
<1>e. EventsOK'
  BY <1>2, <1>u DEF EventsOK
<1>c. PICK cut : cut = Cut(t, settings)
  OBVIOUS
<1>4. CASE List(w)
  <2>1. PICK c : EvaluateErrorRate(c, window, t, settings)
    BY <1>4, <1>t DEF List
  <2>2. /\ Typed(window') /\ TellsTrue(Live(window'), Expected, cut, now)
        /\ cut \in Nat /\ cut <= now
    BY <1>1, <1>2, <1>3, <1>c, <2>1, EvaluatedTells
  <2>3. recorded' = [recorded EXCEPT !.cut = cut]
    BY <1>4, <1>c, <1>t DEF List
  <2>4. /\ RecordedOK' /\ recorded'.given = recorded.given
        /\ recorded'.loaded = recorded.loaded /\ recorded'.cut = cut
    BY <1>2, <1>u, <2>2, <2>3 DEF RecordedOK
  <2>5. Expected' = Expected
    BY <1>u, <2>4, ExpectedFrame
  <2> QED
    BY <1>2, <1>e, <1>u, <2>2, <2>4, <2>5 DEF WindowOK
<1>5. CASE RecordRequest(w)
  <2>o. PICK o : o = [at |-> t, failed |-> failed]
    OBVIOUS
  <2>g. PICK grown : grown = [window EXCEPT !.outcomes = Append(@, o),
                                            !.errors = IF o.failed THEN @ + 1 ELSE @]
    OBVIOUS
  <2>v. PICK given \in [0 .. MaxTime -> [BOOLEAN -> Nat]] : given = Expected
    BY <1>2, ExpectedCounts
  <2>a. PICK again : again = [given EXCEPT ![t] = [given[t] EXCEPT ![failed] = @ + 1]]
    OBVIOUS
  <2>1. o \in Outcome
    BY <1>1, <2>o DEF Outcome
  <2>2. Typed(grown) /\ Live(grown) = Append(Live(window), o)
    BY <1>2, <2>1, <2>g, GrownLive
  <2>3. EvaluateErrorRate(center, grown, t, settings)
    BY <1>5, <1>f, <1>t, <2>g, <2>o DEF RecordRequest
  <2>4. t \in 0 .. MaxTime
    <3>1. MaxTime \in Nat
      BY AlertsAssumption
    <3> QED
      BY <1>1, <1>2, <1>3, <3>1
  <2>5. Live(window) \in Seq(Outcome)
    BY <1>2, LiveIs
  <2>l. PICK live \in Seq(Outcome) : live = Live(window)
    BY <2>5
  <2>6. TellsTrue(live, given, recorded.cut, now)
    BY <1>2, <2>l, <2>v
  <2>7. TellsTrue(Append(live, o), again, recorded.cut, now)
    BY <1>1, <1>2, <1>3, <2>4, <2>6, <2>a, <2>o, AppendingTells
  <2>8. /\ Typed(window') /\ TellsTrue(Live(window'), again, cut, now)
        /\ cut \in Nat /\ cut <= now
    BY <1>1, <1>2, <1>3, <1>c, <2>2, <2>3, <2>7, <2>l, EvaluatedTells
  <2>9. recorded' = [recorded EXCEPT !.given[t][failed] = @ + 1, !.cut = cut]
    BY <1>5, <1>c, <1>f, <1>t DEF RecordRequest
  <2>r. PICK old \in [0 .. MaxTime -> [BOOLEAN -> Nat]] : old = recorded.given
    BY <1>2 DEF RecordedOK
  <2>n. PICK new : new = [old EXCEPT ![t] = [old[t] EXCEPT ![failed] = @ + 1]]
    OBVIOUS
  <2>10. new \in [0 .. MaxTime -> [BOOLEAN -> Nat]]
    <3>g. PICK g \in [BOOLEAN -> Nat] : g = old[t]
      BY <2>4
    <3>1. [g EXCEPT ![failed] = @ + 1] \in [BOOLEAN -> Nat]
      BY <1>1
    <3> QED
      BY <2>4, <2>n, <3>g, <3>1
  <2>11. /\ recorded'.given = new /\ recorded'.loaded = recorded.loaded
         /\ recorded'.cut = cut
         /\ recorded' \in [given : [0 .. MaxTime -> [BOOLEAN -> Nat]], loaded : Nat,
                           cut : Nat]
    BY <1>2, <2>8, <2>9, <2>10, <2>n, <2>r DEF RecordedOK
  <2>12. RecordedOK'
    BY <1>2, <1>u, <2>8, <2>11 DEF RecordedOK
  <2>13. Expected' = again
    <3>1. \A x \in 0 .. MaxTime, f \in BOOLEAN :
            /\ StartedAt(x, f)' = StartedAt(x, f) /\ StartedAt(x, f) \in Nat
            /\ old[x][f] \in Nat
      BY <1>2, <1>u, <2>11, ExpectedCounts DEF StartedAt
    <3>2. \A x \in 0 .. MaxTime, f \in BOOLEAN :
            given[x][f] = old[x][f] + StartedAt(x, f)
      BY <2>r, <2>v DEF Expected
    <3>3. Expected' = [x \in 0 .. MaxTime |-> [f \in BOOLEAN |->
                         new[x][f] + StartedAt(x, f)]]
      BY <2>11, <3>1 DEF Expected
    <3>4. ASSUME NEW x \in 0 .. MaxTime, NEW f \in BOOLEAN
          PROVE  new[x][f] + StartedAt(x, f) = again[x][f]
      <4>1. new[x][f] = IF x = t /\ f = failed THEN old[x][f] + 1 ELSE old[x][f]
        <5>g. PICK g \in [BOOLEAN -> Nat] : g = old[x]
          OBVIOUS
        <5>1. new[x] = IF x = t THEN [g EXCEPT ![failed] = @ + 1] ELSE g
          BY <2>4, <2>n, <5>g
        <5> QED
          BY <1>1, <5>g, <5>1
      <4>2. again[x][f] = IF x = t /\ f = failed THEN given[x][f] + 1 ELSE given[x][f]
        <5>g. PICK g \in [BOOLEAN -> Nat] : g = given[x]
          OBVIOUS
        <5>1. again[x] = IF x = t THEN [g EXCEPT ![failed] = @ + 1] ELSE g
          BY <2>4, <2>a, <5>g
        <5> QED
          BY <1>1, <5>g, <5>1
      <4> QED
        BY <3>1, <3>2, <4>1, <4>2
    <3>5. again \in [0 .. MaxTime -> [BOOLEAN -> Nat]]
      <4>g. PICK g \in [BOOLEAN -> Nat] : g = given[t]
        BY <2>4
      <4>1. [g EXCEPT ![failed] = @ + 1] \in [BOOLEAN -> Nat]
        BY <1>1
      <4> QED
        BY <2>4, <2>a, <4>g, <4>1
    <3>6. again = [x \in 0 .. MaxTime |-> [f \in BOOLEAN |-> again[x][f]]]
      BY <3>5
    <3> QED
      BY <3>3, <3>4, <3>6
  <2> QED
    BY <1>2, <1>e, <1>u, <2>8, <2>11, <2>12, <2>13 DEF WindowOK
<1> QED
  BY <1>4, <1>5

\* The settings change: the error rate is evaluated under the new ones.
LEMMA WindowUpdate ==
  ASSUME WindowOK, NEW h \in Handlers, UpdateSettings(h)
  PROVE  WindowOK'
<1>u. UNCHANGED <<now, events>>
  BY DEF UpdateSettings
<1>2. /\ now \in Nat /\ now \in 0 .. MaxTime /\ settings \in Settings /\ left \in Nat
      /\ EventsOK /\ Typed(window) /\ recorded.cut \in Nat /\ recorded.cut <= now
      /\ TellsTrue(Live(window), Expected, recorded.cut, now) /\ RecordedOK
  <2>1. MaxTime \in Nat
    BY AlertsAssumption
  <2> QED
    BY <2>1 DEF WindowOK, RecordedOK
<1>e. EventsOK'
  BY <1>2, <1>u DEF EventsOK
<1>s. PICK s \in Settings : /\ settings' = s /\ EvaluateErrorRate(center, window, now, s)
                            /\ recorded' = [recorded EXCEPT !.cut = Cut(now, s)]
  BY DEF UpdateSettings
<1>c. PICK cut : cut = Cut(now, s)
  OBVIOUS
<1>3. /\ Typed(window') /\ TellsTrue(Live(window'), Expected, cut, now)
      /\ cut \in Nat /\ cut <= now
  <2>1. now <= now
    BY <1>2
  <2> QED
    BY <1>2, <1>c, <1>s, <2>1, EvaluatedTells
<1>4. /\ RecordedOK' /\ recorded'.given = recorded.given
      /\ recorded'.loaded = recorded.loaded /\ recorded'.cut = cut
  BY <1>2, <1>3, <1>c, <1>s, <1>u DEF RecordedOK
<1>5. left' \in Nat
  BY <1>2, LeftOver DEF UpdateSettings
<1>6. Expected' = Expected
  BY <1>4, <1>u, ExpectedFrame
<1> QED
  BY <1>2, <1>3, <1>4, <1>5, <1>6, <1>e, <1>s, <1>u DEF WindowOK

\* The window is loaded.
LEMMA WindowRestart ==
  ASSUME WindowOK, Restart
  PROVE  WindowOK'
<1>u. UNCHANGED <<now, settings, events>>
  BY DEF Restart
<1>2. /\ now \in Nat /\ now \in 0 .. MaxTime /\ settings \in Settings /\ left \in Nat
      /\ EventsOK
  <2>1. MaxTime \in Nat
    BY AlertsAssumption
  <2> QED
    BY <2>1 DEF WindowOK
<1>e. EventsOK'
  BY <1>2, <1>u DEF EventsOK
<1>o. PICK order \in Orders(Recent(now, settings)) : window' = Loaded(order)
  BY DEF Restart
<1>c. PICK cut : cut = IF now > settings.window THEN now - settings.window ELSE 0
  OBVIOUS
<1>3. settings.window \in Nat
  BY <1>2, WindowLength
<1>4. Typed(window') /\ TellsTrue(Live(window'), GivenByEvents, cut, now)
  BY <1>2, <1>3, <1>c, <1>o, LoadedTells
<1>5. recorded' = [given |-> NothingGiven, loaded |-> Len(events), cut |-> cut]
  BY <1>c DEF Restart
<1>6. cut \in Nat /\ cut <= now
  BY <1>2, <1>3, <1>c
<1>7. Len(events) \in Nat /\ DOMAIN events = 1 .. Len(events)
  <2>E. PICK E : E = [started : Nat, failed : BOOLEAN]
    OBVIOUS
  <2>1. events \in Seq(E)
    BY <1>2, <2>E DEF EventsOK
  <2> QED
    BY <2>1
<1>8. RecordedOK' /\ recorded'.cut = cut
  <2>1. NothingGiven \in [0 .. MaxTime -> [BOOLEAN -> Nat]]
    BY DEF NothingGiven
  <2> QED
    BY <1>5, <1>6, <1>7, <1>u, <2>1 DEF RecordedOK
<1>9. left' \in Nat
  BY <1>2, LeftOver DEF Restart
<1>10. Expected' = GivenByEvents
  <2>1. \A t, f : StartedAt(t, f)' =
          Cardinality({i \in DOMAIN events : events[i] = [started |-> t, failed |-> f]})
    BY <1>5, <1>7, <1>u DEF StartedAt
  <2>2. \A t \in 0 .. MaxTime, f \in BOOLEAN :
          Cardinality({i \in DOMAIN events : events[i] = [started |-> t, failed |-> f]})
            \in Nat
    BY <1>2, <1>7, EventsCount
  <2>3. \A t \in 0 .. MaxTime, f \in BOOLEAN : recorded'.given[t][f] = 0
    BY <1>5 DEF NothingGiven
  <2>4. \A t \in 0 .. MaxTime, f \in BOOLEAN :
          recorded'.given[t][f] + StartedAt(t, f)' = GivenByEvents[t][f]
    BY <2>1, <2>2, <2>3 DEF GivenByEvents
  <2>5. GivenByEvents =
          [t \in 0 .. MaxTime |-> [f \in BOOLEAN |-> GivenByEvents[t][f]]]
    BY DEF GivenByEvents
  <2> QED
    BY <2>4, <2>5 DEF Expected
<1> QED
  BY <1>2, <1>4, <1>6, <1>8, <1>9, <1>10, <1>e, <1>u DEF WindowOK

\* The window after any step.
LEMMA NextWindow ==
  ASSUME WindowOK, WorkOK, Timed, [Next]_vars
  PROVE  WindowOK'
<1>0. /\ now \in Nat /\ left \in Nat /\ MaxTime \in Nat
      /\ now \in 0 .. MaxTime
  <2>1. MaxTime \in Nat
    BY AlertsAssumption
  <2> QED
    BY <2>1 DEF WindowOK
<1>1. CASE Tick
  <2>1. now' = now + 1 /\ now < MaxTime
        /\ UNCHANGED <<settings, left, window, events, recorded>>
    BY <1>1 DEF Tick
  <2>2. now' \in Nat /\ now' \in 0 .. MaxTime /\ now <= now'
    BY <1>0, <2>1
  <2>3. EventsOK'
    <3>E. PICK E : E = [started : Nat, failed : BOOLEAN]
      OBVIOUS
    <3>1. events \in Seq(E) /\ \A i \in DOMAIN events : events[i].started <= now
      BY <3>E DEF EventsOK, WindowOK
    <3>2. \A i \in DOMAIN events : events[i] \in E
      BY <3>1
    <3>3. \A i \in DOMAIN events : events[i].started \in Nat
      BY <3>2, <3>E
    <3>4. \A i \in DOMAIN events : events[i].started <= now'
      BY <1>0, <2>1, <3>1, <3>3
    <3> QED
      BY <2>1, <3>1, <3>4, <3>E DEF EventsOK
  <2>4. Live(window) \in Seq(Outcome)
    BY LiveIs DEF WindowOK
  <2>5. TellsTrue(Live(window), Expected, recorded.cut, now')
    BY <1>0, <2>2, <2>4, LaterTells DEF WindowOK, RecordedOK
  <2>6. RecordedOK'
    BY <1>0, <2>1, <2>2 DEF RecordedOK, WindowOK
  <2>7. Typed(window) /\ settings \in Settings
    BY DEF WindowOK
  <2>8. Expected' = Expected
    BY <2>1, ExpectedFrame
  <2> QED
    BY <1>0, <2>1, <2>2, <2>3, <2>5, <2>6, <2>7, <2>8 DEF WindowOK
<1>2. CASE Restart
  BY <1>2, WindowRestart
<1>3. ASSUME NEW w \in Workers, Book(w)
      PROVE  WindowOK'
  <2>1. /\ UNCHANGED <<now, settings, left, window, recorded>>
        /\ \E failed \in BOOLEAN :
             events' = Append(events, [started |-> work[w].started, failed |-> failed])
    BY <1>3 DEF Book, system
  <2>2. PICK failed \in BOOLEAN :
          events' = Append(events, [started |-> work[w].started, failed |-> failed])
    BY <2>1
  <2>E. PICK E : E = [started : Nat, failed : BOOLEAN]
    OBVIOUS
  <2>o. PICK o : o = [started |-> work[w].started, failed |-> failed]
    OBVIOUS
  <2>3. work[w].started \in Nat /\ work[w].started <= now
    BY DEF WorkOK, Job, Timed, OnTime
  <2>4. o \in E /\ o.started <= now
    BY <2>3, <2>o, <2>E
  <2>5. events \in Seq(E) /\ \A i \in DOMAIN events : events[i].started <= now
    BY <2>E DEF EventsOK, WindowOK
  <2>6. Append(events, o) \in Seq(E)
        /\ \A i \in DOMAIN Append(events, o) : Append(events, o)[i].started <= now
    BY <2>4, <2>5
  <2>7. EventsOK'
    BY <2>1, <2>2, <2>6, <2>E, <2>o DEF EventsOK
  <2>8. /\ now \in 0 .. MaxTime /\ settings \in Settings /\ left \in Nat
        /\ Typed(window)
        /\ TellsTrue(Live(window), Expected, recorded.cut, now)
    BY DEF WindowOK
  <2>9. /\ Len(events') = Len(events) + 1 /\ Len(events) \in Nat
        /\ \A i \in 1 .. Len(events) : events'[i] = events[i]
    BY <2>2, <2>4, <2>5, <2>o
  <2>10. RecordedOK'
    BY <2>1, <2>9 DEF RecordedOK, WindowOK
  <2>11. Expected' = Expected
    <3>1. recorded.loaded \in Nat /\ recorded.loaded <= Len(events)
      BY DEF WindowOK, RecordedOK
    <3>2. \A i \in 1 .. recorded.loaded : events'[i] = events[i]
      BY <2>9, <3>1
    <3> QED
      BY <2>1, <3>2 DEF Expected, StartedAt
  <2> QED
    BY <2>1, <2>7, <2>8, <2>10, <2>11 DEF WindowOK
<1>4. ASSUME NEW w \in Workers, Steps(w)
      PROVE  WindowOK'
  <2>1. CASE Book(w)
    BY <1>3, <2>1
  <2>2. CASE List(w) \/ RecordRequest(w)
    BY <2>2, WindowSteps
  <2>3. CASE ~(Book(w) \/ List(w) \/ RecordRequest(w))
    <3>1. UNCHANGED <<now, settings, left, window, events, recorded>>
      BY <1>4, <2>3 DEF Steps, NextSubject, Answered, TakeView, ReadSettings, Judge,
         ResolveScope, RecordUsage, system
    <3> QED
      BY <1>0, <3>1, SameWindow
  <2> QED
    BY <2>1, <2>2, <2>3
<1>5. ASSUME NEW h \in Handlers, Calls(h)
      PROVE  WindowOK'
  <2>1. CASE UpdateSettings(h)
    BY <2>1, WindowUpdate
  <2>2. CASE ~UpdateSettings(h)
    <3>1. UNCHANGED <<now, settings, window, events, recorded>> /\ Happens
      BY <1>5, <2>2 DEF Calls, CheckAccount, Serve, GetAlerts, CreateManagedAccount,
         UpdateManagedAccount, RemoveManagedAccount, UpdateKey, RevokeKey, Made
    <3> QED
      BY <1>0, <3>1, LeftOver, SameWindow
  <2> QED
    BY <2>1, <2>2
<1>6. CASE \E id \in AccountIds : BalanceChanges(id)
  <2>1. UNCHANGED <<now, settings, window, events, recorded>> /\ Happens
    BY <1>6 DEF BalanceChanges
  <2> QED
    BY <1>0, <2>1, LeftOver, SameWindow
<1>7. CASE \E src \in Sources : Acknowledge(src) \/ Silence(src) \/ ResolveByID(src)
  <2>1. UNCHANGED <<now, settings, window, events, recorded>> /\ Happens
    BY <1>7 DEF Acknowledge, Silence, ResolveByID, Decide
  <2> QED
    BY <1>0, <2>1, LeftOver, SameWindow
<1>8. CASE PollBalancesOnce \/ UNCHANGED vars
  <2>1. UNCHANGED <<now, settings, left, window, events, recorded>>
    BY <1>8 DEF PollBalancesOnce, system, vars
  <2> QED
    BY <1>0, <2>1, SameWindow
<1> QED
  BY <1>1, <1>2, <1>4, <1>5, <1>6, <1>7, <1>8 DEF Next

\* Nothing has happened.
LEMMA InitWindow == Init => WindowOK /\ Timed
<1> SUFFICES ASSUME Init PROVE WindowOK /\ Timed
  OBVIOUS
<1>0. MaxTime \in Nat /\ MaxEvents \in Nat /\ MaxLag \in Nat
  BY AlertsAssumption
<1>n. PICK nothing \in Seq(Outcome) : nothing = <<>>
  BY EmptySeq
<1>1. Len(nothing) = 0 /\ SubSeq(nothing, 1, 0) = nothing /\ DOMAIN nothing = {}
  BY <1>n
<1>2. window = [outcomes |-> nothing, start |-> 0, errors |-> 0]
  BY <1>n DEF Init
<1>3. Live(window) = nothing
  BY <1>1, <1>2 DEF Live
<1>4. \A X : Count(nothing, X) = 0
  <2> TAKE X
  <2>1. \A i \in DOMAIN nothing : nothing[i] \notin X
    BY <1>1
  <2> QED
    BY <2>1, CountNone
<1>5. Typed(window)
  BY <1>1, <1>2, <1>3, <1>4 DEF Typed
<1>6. /\ recorded = [given |-> NothingGiven, loaded |-> 0, cut |-> 0]
      /\ NothingGiven \in [0 .. MaxTime -> [BOOLEAN -> Nat]]
      /\ \A t \in 0 .. MaxTime, f \in BOOLEAN : NothingGiven[t][f] = 0
  BY DEF Init, NothingGiven
<1>7. TellsTrue(nothing, NothingGiven, 0, 0)
  BY <1>1, <1>4, <1>6 DEF TellsTrue, Held, NotPast, InOrder
<1>8. EventsOK
  BY DEF EventsOK, Init
<1>9. /\ now = 0 /\ settings \in Settings /\ left = MaxEvents
      /\ RecordedOK /\ recorded.cut = 0
  BY <1>6 DEF Init, RecordedOK
<1>12. Expected = NothingGiven
  <2>1. \A t, f : StartedAt(t, f) = 0
    <3>1. \A t, f : {i \in 1 .. 0 : events[i] = [started |-> t, failed |-> f]} = {}
      OBVIOUS
    <3> QED
      BY <1>6, <3>1, FS_EmptySet DEF StartedAt
  <2> QED
    BY <1>6, <2>1 DEF Expected, NothingGiven
<1>10. WindowOK
  BY <1>0, <1>3, <1>5, <1>7, <1>8, <1>9, <1>12 DEF WindowOK
<1>11. Timed
  BY <1>9, NoWorkOnTime DEF Timed, Init
<1> QED
  BY <1>10, <1>11

\* The centre, the goroutines, the clock and the window, throughout.
Sound == Known /\ Timed /\ WindowOK

\* They are sound throughout.
LEMMA SoundThroughout == Spec => []Sound
<1>1. Init => Sound
  BY InitKnown, InitWindow DEF Sound
<1>2. ASSUME Sound, [Next]_vars
      PROVE  Sound'
  <2>0. WorkOK /\ now \in Nat /\ Timed /\ WindowOK /\ Known
    BY <1>2 DEF Sound, Known
  <2>1. WorkOK' /\ now' \in Nat
    BY <1>2, <2>0, NextWork
  <2>2. Coherent(center')
    BY <1>2, <2>0, NextCenter
  <2>3. Timed'
    BY <1>2, <2>0, NextTimed
  <2>4. WindowOK'
    BY <1>2, <2>0, NextWindow
  <2> QED
    BY <2>1, <2>2, <2>3, <2>4 DEF Sound, Known
<1> QED
  BY <1>1, <1>2, PTL DEF Spec

\* Every variable keeps its type (AlertStore).
THEOREM TypeCorrect == Spec => []TypeOK
<1>1. Sound => TypeOK
  <2> SUFFICES ASSUME Sound PROVE TypeOK
    OBVIOUS
  <2>1. /\ now \in Nat /\ left \in Nat /\ settings \in Settings
        /\ pool \subseteq made /\ made \subseteq Objects
    BY DEF Sound, Known, WorkOK, WindowOK
  <2>2. /\ center.alerts \in [Sources -> AlertType] /\ center.rows \in [Sources -> AlertType]
        /\ center.missed \subseteq MayFail
    BY DEF Sound, Known, Coherent, Center
  <2>3. \A src \in Sources : center.alerts[src].until # 0 =>
                               center.alerts[src].status = "silenced"
    BY DEF Sound, Known, Coherent, AgreesAt, Agrees, SilentUntil
  <2>4. /\ window.outcomes \in Seq(Outcome) /\ window.errors \in Nat
        /\ window.start \in Nat /\ window.start <= Len(window.outcomes)
    BY DEF Sound, WindowOK, Typed
  <2>5. window.start \in 0 .. Len(window.outcomes)
    BY <2>4
  <2> QED
    BY <2>1, <2>2, <2>3, <2>4, <2>5 DEF TypeOK
<1> QED
  BY <1>1, SoundThroughout, PTL

\* The error rate is computed from the outcomes of the window: those of requests this
\* process answered, by their end, and of requests answered before it, by their start.
\* None is forgotten, none that has left the window, but for late ones, counts, and the
\* counter of errors agrees with them, over pruning, compaction, any change of the
\* settings and restarts (RecordRequest, evaluateErrorRateLocked, load).
THEOREM WindowIsHonest == Spec => []WindowHonest
<1>1. WindowOK => WindowHonest
  <2> SUFFICES ASSUME WindowOK PROVE WindowHonest
    OBVIOUS
  <2>l. PICK live : live = Live(window)
    OBVIOUS
  <2>1. live \in Seq(Outcome)
    BY <2>l, LiveIs DEF WindowOK
  <2>2. window.errors = Errors(live)
    BY <2>1, <2>l, ErrorsCount DEF WindowOK, Typed
  <2>3. \A t, f : Count(live, At(t, f)) =
          Cardinality({i \in DOMAIN live : live[i] = [at |-> t, failed |-> f]})
    <3> TAKE t, f
    <3>1. {i \in DOMAIN live : live[i] \in At(t, f)} =
            {i \in DOMAIN live : live[i] = [at |-> t, failed |-> f]}
      BY DEF At
    <3> QED
      BY <3>1 DEF Count
  <2>4. ASSUME NEW t \in 0 .. MaxTime, NEW f \in BOOLEAN, t >= recorded.cut
        PROVE  Count(live, At(t, f)) = recorded.given[t][f] + StartedAt(t, f)
    BY <2>4, <2>l DEF WindowOK, TellsTrue, Held, Expected
  <2>5. ASSUME NEW t \in 0 .. MaxTime, NEW f \in BOOLEAN, t + MaxLag < recorded.cut
        PROVE  Count(live, At(t, f)) = 0
    <3>1. \A i \in DOMAIN live : live[i].at + MaxLag >= recorded.cut
      BY <2>l DEF WindowOK, TellsTrue, NotPast
    <3>2. recorded.cut \in Nat /\ MaxLag \in Nat
      BY AlertsAssumption DEF WindowOK, RecordedOK
    <3>3. \A i \in DOMAIN live : live[i].at # t
      BY <2>5, <3>1, <3>2
    <3>4. \A i \in DOMAIN live : live[i] \notin At(t, f)
      BY <3>3 DEF At
    <3> QED
      BY <3>4, CountNone
  <2> QED
    BY <2>2, <2>3, <2>4, <2>5, <2>l DEF WindowHonest
<1> QED
  BY <1>1, SoundThroughout, PTL DEF Sound
=============================================================================
