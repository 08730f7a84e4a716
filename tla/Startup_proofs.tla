------------------------------- MODULE Startup_proofs -------------------------------
(***************************************************************************)
(* Theorems about Startup for every number of processes, databases and     *)
(* migrations and every configuration that is typed.  What a process       *)
(* remembers of its database while others write to it stays so: the schema *)
(* only gains migrations, the address is stored once, and an administrator *)
(* is created once and never removed.                                      *)
(***************************************************************************)
EXTENDS Startup, TLAPS

Launches == Typed \cup {Supervised}

Word == Password \cup {Weak, None} \cup {l.bootstrap : l \in Launches}

Address == {None} \cup {Selected(l.config, "public_url") : l \in Launches}

Listener == {None} \cup {Selected(l.config, "listen") : l \in Launches}

Terminal == {FALSE} \cup {l.tty : l \in Launches}

Column == [applied: 0..Migrations, url: Address, admin: Word,
           by: {None, "bootstrap", "set-password"}]

Setting == [database: Database \cup {None}, listen: Listener, public_url: Address]

State == [pc: Pc, command: {"serve", "admin init", "admin set-password"},
          tty: Terminal, password: Word,
          set: Setting,
          asked: BOOLEAN, listed: 0..Migrations, copy: Address, created: BOOLEAN]

\* What a process with its state r knows of the row c of its database.
Knows(r, c) ==
    /\ r.pc = "migrate" => r.listed <= c.applied
    /\ r.pc \in {"address", "read", "cleanup", "exists", "prompt", "count", "insert",
                 "change", "bind", "serving"} => c.applied = Migrations
    /\ r.copy # None => r.copy = c.url /\ c.applied = Migrations
    /\ r.pc \in {"bind", "serving"} => c.admin # None
    /\ r.created => c.admin # None /\ (c.by = "bootstrap" => c.admin = r.password)

Fine(r) ==
    /\ r \in State
    /\ r.set.database \notin Database => r.pc \in {"down", "done"} /\ r.copy = None /\ ~r.created
    /\ r.set.database \in Database => Knows(r, db[r.set.database])
    /\ r.pc \in {"count", "insert", "change"} => r.password # None
    /\ r.created => r.pc \in {"bind", "serving", "done", "down"}

OneCreator ==
    \A p, q \in Proc :
      proc[p].created /\ proc[q].created /\ proc[p].set.database = proc[q].set.database => p = q

IInv ==
    /\ db \in [Database -> Column]
    /\ proc \in [Proc -> State]
    /\ \A p \in Proc : Fine(proc[p])
    /\ OneCreator

-------------------------------------------------------------------------------------
LEMMA Numbers == Migrations \in Nat \ {0} /\ 0 \in 0..Migrations /\ Migrations \in 0..Migrations
<1>1. Migrations \in Nat \ {0}
  BY StartupAssumption
<1>2. QED
  BY <1>1

(* A process that starts.                                                     *)
LEMMA OffFine == Fine(Off) /\ Off.pc = "down" /\ ~Off.created
<1>1. Off \in State
  BY Numbers DEF Off, State, Setting, Pc, Word, Address, Listener, Terminal
<1>2. QED
  BY <1>1 DEF Off, Fine, Knows

LEMMA StartedFine ==
  ASSUME NEW l \in Launches
  PROVE  Fine(Started(l)) /\ ~Started(l).created
<1>1. l.command \in {"serve", "admin init", "admin set-password"}
  BY StartupAssumption DEF Launches
<1>2. ~Refused(l.config) => Location(l.config) \in Database
  BY StartupAssumption DEF Launches
<1> DEFINE s == IF Refused(l.config) THEN Off.set ELSE Settings(l.config)
           w == IF l.command = "serve" THEN l.bootstrap ELSE None
           x == IF \/ Refused(l.config)
                   \/ l.command \in {"admin init", "admin set-password"} /\ ~l.tty
                THEN "done" ELSE "open"
<1>3. s \in Setting
  BY <1>2 DEF Setting, Settings, Off, Listener, Address
<1>4. s.database \notin Database => x = "done"
  BY <1>2 DEF Settings
<1>5. w \in Word /\ x \in {"done", "open"} /\ l.tty \in Terminal
  BY DEF Word, Terminal
<1>6. Started(l) = [pc |-> x, command |-> l.command, tty |-> l.tty, password |-> w, set |-> s,
                    asked |-> FALSE, listed |-> 0, copy |-> None, created |-> FALSE]
  <2>1. Started(l) = [Off EXCEPT !.pc = x, !.command = l.command, !.tty = l.tty,
                                 !.password = w, !.set = s]
    BY DEF Started
  <2> HIDE DEF s, w, x
  <2>2. QED
    BY <2>1 DEF Off
<1> HIDE DEF s, w, x
<1>7. Started(l) \in State
  <2>1. x \in Pc /\ None \in Address /\ s \in Setting
    BY <1>3, <1>5 DEF Pc, Address
  <2>2. \A y \in Terminal, k \in {"serve", "admin init", "admin set-password"} :
          [pc |-> x, command |-> k, tty |-> y, password |-> w, set |-> s,
           asked |-> FALSE, listed |-> 0, copy |-> None, created |-> FALSE] \in State
    BY <1>5, <2>1, Numbers DEF State
  <2>3. QED
    BY <1>1, <1>5, <1>6, <2>2
<1>8. QED
  BY <1>4, <1>5, <1>6, <1>7 DEF Fine, Knows

LEMMA InitIInv == Init => IInv
<1> SUFFICES ASSUME Init
             PROVE  IInv
  OBVIOUS
<1>1. db \in [Database -> Column]
  BY Numbers DEF Init, Column, Address, Word
<1>2. proc \in [Proc -> State] /\ \A p \in Proc : proc[p] = Off
  BY OffFine DEF Init, Fine
<1>3. QED
  BY <1>1, <1>2, OffFine DEF IInv, OneCreator

(* What processes do to a database, each to its own.                          *)
Grows ==
    \A d \in Database :
      /\ db[d].applied <= db'[d].applied
      /\ db[d].url # None => db'[d].url = db[d].url
      /\ db[d].admin # None => db'[d].admin # None
      /\ db[d].admin # None /\ db'[d].by = "bootstrap" =>
           db[d].by = "bootstrap" /\ db'[d].admin = db[d].admin

LEMMA FineKept ==
  ASSUME db \in [Database -> Column], db' \in [Database -> Column], Grows, NEW r, Fine(r)
  PROVE  Fine(r)'
<1>1. ASSUME r.set.database \in Database
      PROVE  Knows(r, db'[r.set.database])
  <2> DEFINE c == db[r.set.database]
             e == db'[r.set.database]
  <2>1. c \in Column /\ e \in Column /\ Knows(r, c)
    BY <1>1 DEF Fine
  <2>2. /\ c.applied <= e.applied
        /\ c.url # None => e.url = c.url
        /\ c.admin # None => e.admin # None
        /\ c.admin # None /\ e.by = "bootstrap" => c.by = "bootstrap" /\ e.admin = c.admin
    BY <1>1 DEF Grows
  <2>3. r.listed \in 0..Migrations /\ Migrations \in Nat
    BY Numbers DEF Fine, State
  <2> HIDE DEF c, e
  <2>4. c.applied \in 0..Migrations /\ e.applied \in 0..Migrations
    BY <2>1 DEF Column
  <2>5. Knows(r, e)
    BY <2>1, <2>2, <2>3, <2>4 DEF Knows
  <2>6. QED
    BY <2>5 DEF e
<1>2. QED
  BY <1>1 DEF Fine

(* A step of the process p alone, which creates no administrator.             *)
LEMMA OneProcess ==
  ASSUME IInv, db' \in [Database -> Column], Grows, NEW p \in Proc, NEW r,
         proc' = [proc EXCEPT ![p] = r], r \in State, Fine(proc[p])',
         r.created => proc[p].created /\ r.set = proc[p].set
  PROVE  IInv'
<1>1. /\ proc' \in [Proc -> State] /\ proc'[p] = r
      /\ \A q \in Proc \ {p} : proc'[q] = proc[q]
  BY DEF IInv
<1>2. ASSUME NEW q \in Proc \ {p}
      PROVE  Fine(proc[q])'
  <2>1. PICK s : s = proc[q]
    OBVIOUS
  <2>2. Fine(s)' /\ proc'[q] = s
    BY <1>1, <2>1, FineKept DEF IInv
  <2>3. QED
    BY <2>2 DEF Fine
<1>3. OneCreator'
  BY <1>1 DEF IInv, OneCreator
<1>4. QED
  BY <1>1, <1>2, <1>3 DEF IInv

LEMMA Quietly ==
  ASSUME IInv, db' = db, NEW p \in Proc, NEW r, proc' = [proc EXCEPT ![p] = r], Fine(r),
         r.created => proc[p].created /\ r.set = proc[p].set
  PROVE  IInv'
<1>1. db' \in [Database -> Column] /\ Grows
  <2>1. \A d \in Database : db[d].applied \in 0..Migrations
    BY DEF IInv, Column
  <2>2. QED
    BY <2>1, Numbers DEF IInv, Grows
<1>2. r \in State
  BY DEF Fine
<1>3. proc'[p] = r
  BY DEF IInv
<1>4. Fine(proc[p])'
  BY <1>3 DEF Fine
<1>5. QED
  BY <1>1, <1>2, <1>4, OneProcess

-------------------------------------------------------------------------------------
(* A process that goes on without writing.                                    *)
LEMMA MovedTyped ==
  ASSUME NEW r \in State, NEW pc \in Pc
  PROVE  LET n == [r EXCEPT !.pc = pc] IN
         /\ n \in State /\ n.pc = pc
         /\ n.command = r.command /\ n.tty = r.tty /\ n.password = r.password /\ n.set = r.set
         /\ n.asked = r.asked /\ n.listed = r.listed /\ n.copy = r.copy /\ n.created = r.created
  BY DEF State

LEMMA Goes ==
  ASSUME IInv, db' = db, NEW p \in Proc, NEW pc \in Pc, Goto(p, pc),
         proc[p].created \/ proc[p].set.database \notin Database =>
           pc \in {"down", "done"} \/ (pc = "serving" /\ proc[p].pc = "bind"),
         pc \in {"count", "insert", "change"} => proc[p].password # None,
         proc[p].set.database \in Database => Knows([proc[p] EXCEPT !.pc = pc], Its(p))
  PROVE  IInv'
<1> DEFINE r == proc[p]
           n == [r EXCEPT !.pc = pc]
<1>1. r \in State /\ Fine(r)
  BY DEF IInv
<1>2. /\ n \in State /\ n.pc = pc /\ n.set = r.set /\ n.created = r.created
      /\ n.copy = r.copy /\ n.password = r.password
  BY <1>1, MovedTyped
<1>3. proc' = [proc EXCEPT ![p] = n]
  BY DEF Goto, IInv
<1>4. r.set.database \in Database => Knows(n, db[r.set.database])
  BY DEF Its
<1>5. r.set.database \notin Database => r.pc \in {"down", "done"} /\ r.copy = None /\ ~r.created
  BY <1>1 DEF Fine
<1> HIDE DEF n
<1>6. Fine(n)
  BY <1>1, <1>2, <1>4, <1>5 DEF Fine
<1>7. n.created => proc[p].created /\ n.set = proc[p].set
  BY <1>2
<1>8. QED
  BY <1>3, <1>6, <1>7, Quietly

LEMMA Stops ==
  ASSUME IInv, db' = db, NEW p \in Proc, NEW pc \in {"down", "done"}, Goto(p, pc)
  PROVE  IInv'
<1>1. proc[p] \in State /\ Fine(proc[p]) /\ pc \in Pc
  BY DEF IInv, Pc
<1>2. LET n == [proc[p] EXCEPT !.pc = pc] IN
      /\ n.pc = pc /\ n.set = proc[p].set /\ n.created = proc[p].created
      /\ n.copy = proc[p].copy /\ n.password = proc[p].password
  BY <1>1, MovedTyped
<1>3. proc[p].set.database \in Database => Knows([proc[p] EXCEPT !.pc = pc], Its(p))
  BY <1>1, <1>2 DEF Fine, Knows, Its
<1>4. QED
  BY <1>1, <1>3, Goes

\* What holds of a process on its way, which has not created an administrator.
LEMMA Active ==
  ASSUME IInv, NEW p \in Proc, proc[p].pc \notin {"down", "done"}
  PROVE  /\ proc[p] \in State /\ Fine(proc[p])
         /\ proc[p].set.database \in Database
         /\ Knows(proc[p], Its(p)) /\ Its(p) \in Column
         /\ proc[p].pc \notin {"bind", "serving"} => ~proc[p].created
  BY DEF IInv, Fine, Its

(* The steps between two others that change nothing but how far the process   *)
(* has come, or what it knows of its own.                                     *)
LEMMA QuietSteps ==
  ASSUME IInv, NEW p \in Proc,
         \/ Open(p) \/ Migrated(p) \/ Cleanup(p) \/ Exists(p) \/ Count(p) \/ Bind(p)
         \/ Mismatch(p) \/ Shutdown(p) \/ Fault(p)
  PROVE  IInv'
<1> DEFINE r == proc[p]
           n(pc) == [r EXCEPT !.pc = pc]
<1>1. db' = db
  BY DEF Open, Migrated, Cleanup, Exists, Count, Bind, Mismatch, Shutdown, Fault, Quiet
<1>2. r.pc \notin {"down", "done"}
  BY DEF Open, Migrated, Cleanup, Exists, Count, Bind, Mismatch, Shutdown, Fault, At, Up, Serving
<1>3. r \in State /\ Fine(r) /\ Knows(r, Its(p)) /\ r.set.database \in Database /\ Its(p) \in Column
      /\ (r.pc \notin {"bind", "serving"} => ~r.created)
  BY <1>2, Active
<1>4. ASSUME NEW pc \in Pc
      PROVE  /\ n(pc).pc = pc /\ n(pc).listed = r.listed /\ n(pc).copy = r.copy
             /\ n(pc).created = r.created /\ n(pc).password = r.password
  BY <1>3, MovedTyped
<1>5. ASSUME NEW pc \in {"down", "done"}, Goto(p, pc)
      PROVE  IInv'
  BY <1>1, <1>5, Stops
<1>6. ASSUME NEW pc \in Pc, Goto(p, pc), r.pc # "serving",
             r.pc = "bind" => pc = "serving",
             pc \in {"count", "insert", "change"} => r.password # None,
             Knows(n(pc), Its(p))
      PROVE  IInv'
  BY <1>1, <1>3, <1>6, Goes
<1>7. CASE Open(p)
  <2>1. Goto(p, "list") /\ r.pc = "open" /\ "list" \in Pc
    BY <1>7 DEF Open, At, Pc
  <2>2. Knows(n("list"), Its(p))
    BY <1>3, <1>4, <2>1 DEF Knows
  <2>3. QED
    BY <1>6, <2>1, <2>2
<1>8. CASE Migrated(p)
  <2>1. Goto(p, "address") /\ r.pc = "migrate" /\ r.listed = Migrations /\ "address" \in Pc
    BY <1>8 DEF Migrated, At, Pc
  <2>2. Its(p).applied = Migrations
    BY <1>3, <2>1, Numbers DEF Knows, Column
  <2>3. Knows(n("address"), Its(p))
    BY <1>3, <1>4, <2>1, <2>2 DEF Knows
  <2>4. QED
    BY <1>6, <2>1, <2>3
<1>9. CASE Cleanup(p)
  <2>1. r.pc = "cleanup" /\ ~r.created /\ {"count", "exists"} \subseteq Pc
    BY <1>3, <1>9 DEF Cleanup, At, Pc
  <2>2. (Goto(p, "count") /\ r.password # None) \/ Goto(p, "exists")
    BY <1>9 DEF Cleanup
  <2>3. Knows(n("count"), Its(p)) /\ Knows(n("exists"), Its(p))
    BY <1>3, <1>4, <2>1 DEF Knows
  <2>4. QED
    BY <1>6, <2>1, <2>2, <2>3
<1>10. CASE Exists(p)
  <2>1. r.pc = "exists" /\ ~r.created /\ {"bind", "prompt"} \subseteq Pc
    BY <1>3, <1>10 DEF Exists, At, Pc
  <2>2. r.command \in {"serve", "admin init", "admin set-password"}
    BY <1>3 DEF State
  <2>3. \/ Goto(p, "bind") /\ Its(p).admin # None
        \/ Goto(p, "prompt")
        \/ Goto(p, "done")
    BY <1>10, <2>2 DEF Exists
  <2>4. Its(p).admin # None => Knows(n("bind"), Its(p))
    BY <1>3, <1>4, <2>1 DEF Knows
  <2>5. Knows(n("prompt"), Its(p))
    BY <1>3, <1>4, <2>1 DEF Knows
  <2>6. QED
    BY <1>5, <1>6, <2>1, <2>3, <2>4, <2>5
<1>11. CASE Count(p)
  <2>1. /\ r.pc = "count" /\ r.password # None /\ ~r.created
        /\ {"bind", "insert"} \subseteq Pc
    BY <1>3, <1>11 DEF Count, At, Fine, Pc
  <2>2. \/ Goto(p, "bind") /\ Its(p).admin # None
        \/ Goto(p, "insert")
        \/ Goto(p, "done")
    BY <1>11 DEF Count, After
  <2>3. Its(p).admin # None => Knows(n("bind"), Its(p))
    BY <1>3, <1>4, <2>1 DEF Knows
  <2>4. Knows(n("insert"), Its(p))
    BY <1>3, <1>4, <2>1 DEF Knows
  <2>5. QED
    BY <1>5, <1>6, <2>1, <2>2, <2>3, <2>4
<1>12. CASE Bind(p)
  <2>1. r.pc = "bind" /\ (Goto(p, "serving") \/ Goto(p, "done")) /\ "serving" \in Pc
    BY <1>12 DEF Bind, At, Pc
  <2>2. Knows(n("serving"), Its(p))
    BY <1>3, <1>4, <2>1 DEF Knows
  <2>3. QED
    BY <1>5, <1>6, <2>1, <2>2
<1>13. CASE Mismatch(p) \/ Shutdown(p) \/ Fault(p)
  BY <1>5, <1>13 DEF Mismatch, Shutdown, Fault, Exit
<1>14. QED
  BY <1>7, <1>8, <1>9, <1>10, <1>11, <1>12, <1>13

LEMMA ListStep ==
  ASSUME IInv, NEW p \in Proc, List(p)
  PROVE  IInv'
<1> DEFINE r == proc[p]
           n == [[r EXCEPT !.pc = "migrate"] EXCEPT !.listed = Its(p).applied]
<1>1. r.pc = "list" /\ db' = db
  BY DEF List, At, Quiet
<1>2. /\ r \in State /\ Fine(r) /\ r.set.database \in Database /\ ~r.created
      /\ Knows(r, Its(p)) /\ Its(p) \in Column
  BY <1>1, Active
<1>3. Its(p).applied \in 0..Migrations /\ Its(p).applied <= Its(p).applied
  BY <1>2, Numbers DEF Column
<1>4. /\ n \in State /\ n.pc = "migrate" /\ n.listed = Its(p).applied /\ n.set = r.set
      /\ n.copy = r.copy /\ n.created = r.created /\ n.password = r.password
  BY <1>2, <1>3 DEF State, Pc
<1>5. proc' = [proc EXCEPT ![p] = n]
  BY DEF List, IInv
<1> HIDE DEF n
<1>6. Knows(n, Its(p))
  BY <1>1, <1>2, <1>3, <1>4 DEF Knows
<1>7. Fine(n)
  BY <1>2, <1>4, <1>6 DEF Fine, Its
<1>8. QED
  BY <1>1, <1>2, <1>4, <1>5, <1>7, Quietly

LEMMA ReadAddressStep ==
  ASSUME IInv, NEW p \in Proc, ReadAddress(p)
  PROVE  IInv'
<1> DEFINE r == proc[p]
           n == [[r EXCEPT !.pc = "cleanup"] EXCEPT !.copy = Its(p).url]
<1>1. r.pc = "read" /\ db' = db
  BY DEF ReadAddress, At, Quiet
<1>2. /\ r \in State /\ Fine(r) /\ r.set.database \in Database /\ ~r.created
      /\ Knows(r, Its(p)) /\ Its(p) \in Column
  BY <1>1, Active
<1>3. /\ n \in State /\ n.pc = "cleanup" /\ n.listed = r.listed /\ n.set = r.set
      /\ n.copy = Its(p).url /\ n.created = r.created /\ n.password = r.password
  BY <1>2 DEF State, Pc, Column
<1>4. proc' = [proc EXCEPT ![p] = n]
  BY DEF ReadAddress, IInv
<1> HIDE DEF n
<1>5. Knows(n, Its(p))
  BY <1>1, <1>2, <1>3 DEF Knows
<1>6. Fine(n)
  BY <1>2, <1>3, <1>5 DEF Fine, Its
<1>7. QED
  BY <1>1, <1>2, <1>3, <1>4, <1>6, Quietly

LEMMA PromptStep ==
  ASSUME IInv, NEW p \in Proc, NEW word \in Password \cup {Weak}, Prompt(p, word)
  PROVE  IInv'
<1> DEFINE r == proc[p]
           typed == [[r EXCEPT !.pc = "change"] EXCEPT !.password = word]
           asked == [[[r EXCEPT !.pc = "count"] EXCEPT !.password = word] EXCEPT !.asked = TRUE]
<1>1. r.pc = "prompt" /\ db' = db
  BY DEF Prompt, At, Quiet
<1>2. /\ r \in State /\ Fine(r) /\ r.set.database \in Database /\ ~r.created
      /\ Knows(r, Its(p)) /\ Its(p) \in Column
  BY <1>1, Active
<1>3. word # None /\ word \in Word
  <2>1. None \notin Password /\ Weak # None
    BY StartupAssumption
  <2>2. QED
    BY <2>1 DEF Word
<1>4. ASSUME NEW n, n \in {typed, asked}
      PROVE  /\ n \in State /\ n.pc \in {"change", "count"} /\ n.listed = r.listed /\ n.set = r.set
             /\ n.copy = r.copy /\ n.created = r.created /\ n.password = word
  BY <1>2, <1>3, <1>4 DEF State, Pc
<1>5. \/ proc' = [proc EXCEPT ![p] = typed]
      \/ proc' = [proc EXCEPT ![p] = asked]
      \/ Goto(p, "done")
  BY DEF Prompt, IInv, Exit
<1>6. ASSUME NEW n, n \in {typed, asked}
      PROVE  Fine(n) /\ ~n.created
  <2> HIDE DEF typed, asked
  <2>1. /\ n \in State /\ n.pc \in {"change", "count"} /\ n.listed = r.listed /\ n.set = r.set
        /\ n.copy = r.copy /\ n.created = r.created /\ n.password = word
    BY <1>4, <1>6
  <2>2. Knows(n, Its(p))
    BY <1>1, <1>2, <2>1 DEF Knows
  <2>3. QED
    BY <1>2, <1>3, <2>1, <2>2 DEF Fine, Its
<1>7. ASSUME NEW n, n \in {typed, asked}, proc' = [proc EXCEPT ![p] = n]
      PROVE  IInv'
  BY <1>1, <1>6, <1>7, Quietly
<1>8. Goto(p, "done") => IInv'
  BY <1>1, Stops
<1> HIDE DEF typed, asked
<1>9. QED
  BY <1>5, <1>7, <1>8

LEMMA StartStep ==
  ASSUME IInv, NEW p \in Proc, NEW l \in Launches, db' = db,
         proc' = [proc EXCEPT ![p] = Started(l)]
  PROVE  IInv'
  BY StartedFine, Quietly

-------------------------------------------------------------------------------------
(* A process that writes the row c to its database.                           *)
LEMMA Written ==
  ASSUME IInv, NEW p \in Proc, proc[p].pc \notin {"down", "done"}, NEW c \in Column, Store(p, c),
         Its(p).applied <= c.applied,
         Its(p).url # None => c.url = Its(p).url,
         Its(p).admin # None => c.admin # None,
         Its(p).admin # None /\ c.by = "bootstrap" => Its(p).by = "bootstrap" /\ c.admin = Its(p).admin
  PROVE  db' \in [Database -> Column] /\ Grows /\ db'[proc[p].set.database] = c
<1>1. proc[p].set.database \in Database /\ db \in [Database -> Column]
  BY Active DEF IInv
<1>2. /\ db' \in [Database -> Column] /\ db'[proc[p].set.database] = c
      /\ \A d \in Database : d # proc[p].set.database => db'[d] = db[d]
  BY <1>1 DEF Store
<1>3. ASSUME NEW d \in Database
      PROVE  /\ db[d].applied <= db'[d].applied
             /\ db[d].url # None => db'[d].url = db[d].url
             /\ db[d].admin # None => db'[d].admin # None
             /\ db[d].admin # None /\ db'[d].by = "bootstrap" =>
                  db[d].by = "bootstrap" /\ db'[d].admin = db[d].admin
  <2>1. CASE d = proc[p].set.database
    BY <1>2, <2>1 DEF Its
  <2>2. CASE d # proc[p].set.database
    <3>1. db'[d] = db[d] /\ db[d].applied \in 0..Migrations
      BY <1>1, <1>2, <2>2 DEF Column
    <3>2. QED
      BY <3>1, Numbers
  <2>3. QED
    BY <2>1, <2>2
<1>4. QED
  BY <1>2, <1>3 DEF Grows

(* The process that writes knows the new row.                                 *)
LEMMA WriterStep ==
  ASSUME IInv, NEW p \in Proc, proc[p].pc \notin {"down", "done"}, NEW c \in Column, Store(p, c),
         Its(p).applied <= c.applied,
         Its(p).url # None => c.url = Its(p).url,
         Its(p).admin # None => c.admin # None,
         Its(p).admin # None /\ c.by = "bootstrap" => Its(p).by = "bootstrap" /\ c.admin = Its(p).admin,
         NEW r \in State, proc' = [proc EXCEPT ![p] = r], r.set = proc[p].set, ~r.created,
         Knows(r, c), r.pc \in {"count", "insert", "change"} => r.password # None
  PROVE  IInv'
<1>1. db' \in [Database -> Column] /\ Grows /\ db'[r.set.database] = c
  BY Written
<1>2. proc'[p] = r /\ r.set.database \in Database
  BY Active DEF IInv
<1>3. Fine(proc[p])'
  BY <1>1, <1>2 DEF Fine
<1>4. QED
  BY <1>1, <1>3, OneProcess

LEMMA MigrateStep ==
  ASSUME IInv, NEW p \in Proc, Migrate(p)
  PROVE  IInv'
<1> DEFINE r == proc[p]
           n == [r EXCEPT !.listed = r.listed + 1]
           c == [Its(p) EXCEPT !.applied = Its(p).applied + 1]
<1>1. r.pc = "migrate" /\ r.listed < Migrations
  BY DEF Migrate, At
<1>2. /\ r \in State /\ Fine(r) /\ ~r.created /\ Knows(r, Its(p)) /\ Its(p) \in Column
  BY <1>1, Active
<1>3. CASE Its(p).applied = r.listed
  <2>1. Store(p, c) /\ proc' = [proc EXCEPT ![p] = n]
    BY <1>3 DEF Migrate, IInv
  <2>2. /\ Its(p).applied \in Nat /\ Its(p).applied + 1 \in 0..Migrations
        /\ r.listed + 1 = Its(p).applied + 1
    BY <1>1, <1>2, <1>3, Numbers DEF Column
  <2>3. /\ c \in Column /\ c.applied = Its(p).applied + 1 /\ c.url = Its(p).url
        /\ c.admin = Its(p).admin /\ c.by = Its(p).by
    BY <1>2, <2>2 DEF Column
  <2>4. /\ n \in State /\ n.listed = r.listed + 1 /\ n.pc = "migrate" /\ n.copy = r.copy
        /\ n.set = r.set /\ n.created = r.created
    BY <1>1, <1>2, <2>2 DEF State
  <2>5. r.copy # None => Its(p).applied = Migrations
    BY <1>2 DEF Knows
  <2>6. r.copy = None
    BY <1>1, <1>2, <1>3, <2>5, Numbers DEF Column
  <2> HIDE DEF c, n
  <2>7. Knows(n, c)
    BY <1>2, <2>2, <2>3, <2>4, <2>6 DEF Knows
  <2>8. Its(p).applied <= c.applied
    BY <2>2, <2>3
  <2>9. n.pc \in {"count", "insert", "change"} => n.password # None
    BY <2>4
  <2>10. QED
    BY <1>1, <1>2, <2>1, <2>3, <2>4, <2>7, <2>8, <2>9, WriterStep
<1>4. CASE Its(p).applied # r.listed
  BY <1>4, Stops DEF Migrate, Exit
<1>5. QED
  BY <1>3, <1>4

LEMMA EnsureAddressStep ==
  ASSUME IInv, NEW p \in Proc, EnsureAddress(p)
  PROVE  IInv'
<1> DEFINE r == proc[p]
           n == [r EXCEPT !.pc = "read"]
           u == IF Its(p).url = None THEN r.set.public_url ELSE Its(p).url
           c == [Its(p) EXCEPT !.url = u]
<1>1. r.pc = "address"
  BY DEF EnsureAddress, At
<1>2. /\ r \in State /\ Fine(r) /\ ~r.created /\ Knows(r, Its(p)) /\ Its(p) \in Column
  BY <1>1, Active
<1>3. Store(p, c) /\ proc' = [proc EXCEPT ![p] = n]
  BY DEF EnsureAddress, IInv, Goto
<1>4. u \in Address /\ (Its(p).url # None => u = Its(p).url)
  BY <1>2 DEF State, Setting, Column
<1> HIDE DEF u
<1>5. /\ c \in Column /\ c.applied = Its(p).applied /\ c.url = u
      /\ c.admin = Its(p).admin /\ c.by = Its(p).by
  BY <1>2, <1>4 DEF Column
<1>6. /\ n \in State /\ n.pc = "read" /\ n.copy = r.copy /\ n.set = r.set
      /\ n.created = r.created
  BY <1>2 DEF State, Pc
<1> HIDE DEF c, n
<1>7. Knows(n, c)
  BY <1>1, <1>2, <1>4, <1>5, <1>6 DEF Knows
<1>8. Its(p).applied <= c.applied
  BY <1>2, <1>5, Numbers DEF Column
<1>9. n.pc \in {"count", "insert", "change"} => n.password # None
  BY <1>6
<1>10. QED
  BY <1>1, <1>2, <1>3, <1>4, <1>5, <1>6, <1>7, <1>8, <1>9, WriterStep

LEMMA ChangePasswordStep ==
  ASSUME IInv, NEW p \in Proc, ChangePassword(p)
  PROVE  IInv'
<1> DEFINE r == proc[p]
           n == [r EXCEPT !.pc = "done"]
           c == [[Its(p) EXCEPT !.admin = r.password] EXCEPT !.by = "set-password"]
<1>1. r.pc = "change"
  BY DEF ChangePassword, At
<1>2. /\ r \in State /\ Fine(r) /\ ~r.created /\ Knows(r, Its(p)) /\ Its(p) \in Column
      /\ r.password # None
  BY <1>1, Active DEF Fine
<1>3. Store(p, c) /\ proc' = [proc EXCEPT ![p] = n]
  BY DEF ChangePassword, IInv, Exit, Goto
<1>4. /\ c \in Column /\ c.applied = Its(p).applied /\ c.url = Its(p).url
      /\ c.admin = r.password /\ c.by = "set-password"
  BY <1>2 DEF Column, State
<1>5. /\ n \in State /\ n.pc = "done" /\ n.copy = r.copy /\ n.set = r.set
      /\ n.created = r.created
  BY <1>2 DEF State, Pc
<1> HIDE DEF c, n
<1>6. Knows(n, c)
  BY <1>2, <1>4, <1>5 DEF Knows
<1>7. Its(p).applied <= c.applied
  BY <1>2, <1>4, Numbers DEF Column
<1>8. n.pc \in {"count", "insert", "change"} => n.password # None
  BY <1>5
<1>9. QED
  BY <1>1, <1>2, <1>3, <1>4, <1>5, <1>6, <1>7, <1>8, WriterStep

(* Only the INSERT that finds no administrator creates one.                   *)
LEMMA InsertAdminStep ==
  ASSUME IInv, NEW p \in Proc, InsertAdmin(p)
  PROVE  IInv'
<1> DEFINE r == proc[p]
           x == After(p, Inserted(p))
           n == [[r EXCEPT !.created = Inserted(p)] EXCEPT !.pc = x]
           c == [[Its(p) EXCEPT !.admin = r.password] EXCEPT !.by = "bootstrap"]
           d == r.set.database
<1>1. r.pc = "insert"
  BY DEF InsertAdmin, At
<1>2. /\ r \in State /\ Fine(r) /\ ~r.created /\ Knows(r, Its(p)) /\ Its(p) \in Column
      /\ r.password # None /\ d \in Database
  BY <1>1, Active DEF Fine
<1>3. Inserted(p) \in BOOLEAN /\ (Inserted(p) <=> Its(p).admin = None)
  BY DEF Inserted
<1>4. x \in {"bind", "done"} /\ x \in Pc
  BY DEF After, Pc
<1>5. proc' = [proc EXCEPT ![p] = n]
  BY DEF InsertAdmin, IInv
<1> HIDE DEF x
<1>6. /\ n \in State /\ n.pc = x /\ n.copy = r.copy /\ n.set = r.set
      /\ n.created = Inserted(p) /\ n.password = r.password
  BY <1>2, <1>3, <1>4 DEF State
<1>7. CASE Its(p).admin # None
  <2>1. db' = db
    <3>1. db' = [db EXCEPT ![d] = db[d]]
      BY <1>7 DEF InsertAdmin, Store, Its
    <3>2. QED
      BY <1>2, <3>1 DEF IInv
  <2> HIDE DEF n
  <2>2. ~n.created
    BY <1>3, <1>6, <1>7
  <2>3. Knows(n, Its(p))
    BY <1>1, <1>2, <1>4, <1>6, <1>7, <2>2 DEF Knows
  <2>4. Fine(n)
    BY <1>2, <1>4, <1>6, <2>2, <2>3 DEF Fine, Its
  <2>5. QED
    BY <1>5, <2>1, <2>2, <2>4, Quietly
<1>8. CASE Its(p).admin = None
  <2>1. Store(p, c)
    BY <1>8 DEF InsertAdmin
  <2>2. /\ c \in Column /\ c.applied = Its(p).applied /\ c.url = Its(p).url
        /\ c.admin = r.password /\ c.by = "bootstrap"
    BY <1>2 DEF Column, State
  <2> HIDE DEF c, n
  <2>3. Its(p).applied <= c.applied
    BY <1>2, <2>2, Numbers DEF Column
  <2>4. db' \in [Database -> Column] /\ Grows /\ db'[d] = c
    BY <1>1, <1>2, <1>8, <2>1, <2>2, <2>3, Written
  <2>5. Knows(n, c)
    BY <1>1, <1>2, <1>4, <1>6, <2>2 DEF Knows
  <2>6. /\ proc' \in [Proc -> State] /\ proc'[p] = n
        /\ \A q \in Proc \ {p} : proc'[q] = proc[q]
    BY <1>5, <1>6 DEF IInv
  <2>7. Fine(proc[p])'
    BY <1>2, <1>4, <1>6, <2>4, <2>5, <2>6 DEF Fine
  <2>8. ASSUME NEW q \in Proc \ {p}
        PROVE  Fine(proc[q])'
    <3>1. PICK s : s = proc[q]
      OBVIOUS
    <3>2. Fine(s)' /\ proc'[q] = s
      BY <2>4, <2>6, <3>1, FineKept DEF IInv
    <3>3. QED
      BY <3>2 DEF Fine
  <2>9. \A q \in Proc : proc[q].created => proc[q].set.database # d
    <3> SUFFICES ASSUME NEW q \in Proc, proc[q].created, proc[q].set.database = d
                 PROVE  FALSE
      OBVIOUS
    <3>1. Fine(proc[q])
      BY DEF IInv
    <3>2. Its(p).admin # None
      BY <1>2, <3>1 DEF Fine, Knows, Its
    <3>3. QED
      BY <1>8, <3>2
  <2>10. OneCreator'
    BY <1>6, <2>6, <2>9 DEF IInv, OneCreator
  <2>11. QED
    BY <2>4, <2>6, <2>7, <2>8, <2>10 DEF IInv
<1>9. QED
  BY <1>7, <1>8

-------------------------------------------------------------------------------------
LEMMA Inductive == IInv /\ [Next]_vars => IInv'
<1> SUFFICES ASSUME IInv, [Next]_vars
             PROVE  IInv'
  OBVIOUS
<1>1. CASE UNCHANGED vars
  BY <1>1 DEF IInv, OneCreator, Fine, vars
<1>2. CASE Supervise
  <2>1. Service \in Proc /\ Supervised \in Launches
    BY DEF Proc, Launches
  <2>2. QED
    BY <1>2, <2>1, StartStep DEF Supervise, Quiet
<1>3. ASSUME NEW p \in Operator, NEW l \in Typed, Launch(p, l)
      PROVE  IInv'
  <2>1. p \in Proc /\ l \in Launches
    BY DEF Proc, Launches
  <2>2. QED
    BY <1>3, <2>1, StartStep DEF Launch
<1>4. ASSUME NEW p \in Proc,
             \/ Step(p) \/ Fault(p) \/ Mismatch(p) \/ Shutdown(p)
             \/ \E word \in Password \cup {Weak} : Prompt(p, word)
      PROVE  IInv'
  BY <1>4, QuietSteps, ListStep, ReadAddressStep, PromptStep, MigrateStep, EnsureAddressStep,
     InsertAdminStep, ChangePasswordStep
     DEF Step
<1>5. QED
  BY <1>1, <1>2, <1>3, <1>4 DEF Next

LEMMA Invariance == Spec => []IInv
  BY InitIInv, Inductive, PTL DEF Spec

(* The process that reports it created the administrator did, and no other    *)
(* process of that database reports it (bootstrap_admin).                     *)
THEOREM CreatorIsAlwaysRight == Spec => []CreatorIsRight
<1>1. ASSUME IInv
      PROVE  CreatorIsRight
  <2> SUFFICES ASSUME NEW p \in Proc, proc[p].created
               PROVE  /\ \A q \in Proc \ {p} :
                           proc[q].created => proc[q].set.database # proc[p].set.database
                      /\ Its(p).by = "bootstrap" => Its(p).admin = proc[p].password
    BY DEF CreatorIsRight
  <2>1. \A q \in Proc \ {p} : proc[q].created => proc[q].set.database # proc[p].set.database
    BY <1>1 DEF IInv, OneCreator
  <2>2. Knows(proc[p], Its(p))
    BY <1>1 DEF IInv, Fine, Its
  <2>3. QED
    BY <2>1, <2>2 DEF Knows
<1>2. IInv => CreatorIsRight
  BY <1>1
<1>3. QED
  BY <1>2, Invariance, PTL

(* What serves has a whole schema, an administrator and the address that is   *)
(* stored (AppState::initialize, ensure_public_url).                          *)
THEOREM AlwaysServesWhole == Spec => []ServesWhole
<1>1. ASSUME IInv
      PROVE  ServesWhole
  <2> SUFFICES ASSUME NEW p \in Proc
               PROVE  /\ proc[p].copy # None =>
                           proc[p].copy = Its(p).url /\ Its(p).applied = Migrations
                      /\ Serving(p) => Its(p).admin # None
    BY DEF ServesWhole
  <2>1. Fine(proc[p])
    BY <1>1 DEF IInv
  <2>2. proc[p].copy # None \/ Serving(p) => Knows(proc[p], Its(p))
    BY <2>1 DEF Fine, Its, Serving, At
  <2>3. QED
    BY <2>2 DEF Knows, Serving, At
<1>2. IInv => ServesWhole
  BY <1>1
<1>3. QED
  BY <1>2, Invariance, PTL

LEMMA LastOfNumbers ==
  ASSUME NEW S \in SUBSET Nat, NEW m \in S, \A j \in S : j <= m
  PROVE  (CHOOSE k \in S : \A j \in S : j <= k) = m
<1> DEFINE k == CHOOSE k \in S : \A j \in S : j <= k
<1>1. k \in S /\ \A j \in S : j <= k
  OBVIOUS
<1> HIDE DEF k
<1>2. k <= m /\ m <= k /\ k \in Nat /\ m \in Nat
  BY <1>1
<1>3. k = m
  BY <1>2
<1>4. QED
  BY <1>3 DEF k

(* The setting of the strongest source that gives it (ServiceConfig).         *)
LEMMA SelectedIsDocumented ==
  ASSUME NEW c, NEW n \in DOMAIN Default
  PROVE  Documented(c, n) = Selected(c, n)
<1> DEFINE order == <<Default, c.file, c.env, c.cli>>
           given == {k \in 1..4 : Gives(order[k], n)}
           last == CHOOSE k \in given : \A j \in given : j <= k
<1>1. Documented(c, n) = order[last][n]
  BY DEF Documented
<1>2. 1..4 = {1, 2, 3, 4}
  OBVIOUS
<1>3. order[1] = Default /\ order[2] = c.file /\ order[3] = c.env /\ order[4] = c.cli
  OBVIOUS
<1>4. /\ 1 \in given
      /\ 2 \in given <=> Gives(c.file, n)
      /\ 3 \in given <=> Gives(c.env, n)
      /\ 4 \in given <=> Gives(c.cli, n)
      /\ given \subseteq {1, 2, 3, 4}
  BY <1>2, <1>3 DEF Gives
<1> HIDE DEF given, order
<1>5. CASE Gives(c.cli, n)
  <2>1. last = 4
    <3>1. given \in SUBSET Nat /\ 4 \in given /\ \A j \in given : j <= 4
      BY <1>4, <1>5
    <3>2. QED
      BY <3>1, LastOfNumbers
  <2>2. QED
    BY <1>1, <1>3, <1>5, <2>1 DEF Selected
<1>6. CASE ~Gives(c.cli, n) /\ Gives(c.env, n)
  <2>1. last = 3
    <3>1. given \in SUBSET Nat /\ 3 \in given /\ \A j \in given : j <= 3
      BY <1>4, <1>6
    <3>2. QED
      BY <3>1, LastOfNumbers
  <2>2. QED
    BY <1>1, <1>3, <1>6, <2>1 DEF Selected
<1>7. CASE ~Gives(c.cli, n) /\ ~Gives(c.env, n) /\ Gives(c.file, n)
  <2>1. last = 2
    <3>1. given \in SUBSET Nat /\ 2 \in given /\ \A j \in given : j <= 2
      BY <1>4, <1>7
    <3>2. QED
      BY <3>1, LastOfNumbers
  <2>2. QED
    BY <1>1, <1>3, <1>7, <2>1 DEF Selected
<1>8. CASE ~Gives(c.cli, n) /\ ~Gives(c.env, n) /\ ~Gives(c.file, n)
  <2>1. last = 1
    <3>1. given \in SUBSET Nat /\ 1 \in given /\ \A j \in given : j <= 1
      BY <1>4, <1>8
    <3>2. QED
      BY <3>1, LastOfNumbers
  <2>2. QED
    BY <1>1, <1>3, <1>8, <2>1 DEF Selected
<1>9. QED
  BY <1>5, <1>6, <1>7, <1>8

(* A process that passes its configuration uses the setting of the strongest  *)
(* source and no text that is not one (from_sources, docs/reference/cli.md).  *)
THEOREM AlwaysStrongestSource == Spec => StrongestSource
<1> DEFINE Strongest ==
      \A p \in Operator, l \in Typed : Launch(p, l) /\ proc'[p].set # Off.set =>
         LET set == proc'[p].set
             dir == Documented(l.config, "data_dir")
         IN /\ Bad \notin {Documented(l.config, n) : n \in Simple \cup {"listen"}}
            /\ set.listen = Documented(l.config, "listen")
            /\ set.public_url = Documented(l.config, "public_url")
            /\ ~Gives(l.config.env, "database_url") =>
                  set.database = IF dir = Relative THEN Beside ELSE dir
<1>1. ASSUME IInv, NEW p \in Operator, NEW l \in Typed, Launch(p, l), proc'[p].set # Off.set
      PROVE  LET set == proc'[p].set
                 dir == Documented(l.config, "data_dir")
             IN /\ Bad \notin {Documented(l.config, n) : n \in Simple \cup {"listen"}}
                /\ set.listen = Documented(l.config, "listen")
                /\ set.public_url = Documented(l.config, "public_url")
                /\ ~Gives(l.config.env, "database_url") =>
                      set.database = IF dir = Relative THEN Beside ELSE dir
  <2> DEFINE c == l.config
  <2>1. p \in Proc /\ proc'[p] = Started(l)
    BY <1>1 DEF Launch, IInv, Proc
  <2>2. Started(l).set = IF Refused(c) THEN Off.set ELSE Settings(c)
    BY DEF Started, Off
  <2>3. ~Refused(c) /\ proc'[p].set = Settings(c)
    BY <1>1, <2>1, <2>2
  <2>4. \A n \in DOMAIN Default : Documented(c, n) = Selected(c, n)
    BY SelectedIsDocumented
  <2>5. DOMAIN Default = Simple \cup {"listen", "data_dir"} /\ \A n \in DOMAIN Default : Default[n] # Bad
    BY ConfigurationAssumption
  <2>6. \A n \in Simple : Selected(c, n) # Bad
    BY <2>3 DEF Refused
  <2>7. Selected(c, "listen") # Bad
    <3>1. Gives(c.cli, "listen") => c.cli["listen"] # Bad
      BY StartupAssumption
    <3>2. ~ListenFails(c)
      BY <2>3 DEF Refused
    <3>3. QED
      BY <2>5, <3>1, <3>2 DEF ListenFails, Selected
  <2>8. Bad \notin {Documented(c, n) : n \in Simple \cup {"listen"}}
    BY <2>4, <2>5, <2>6, <2>7
  <2>9. /\ Settings(c).listen = Documented(c, "listen")
        /\ Settings(c).public_url = Documented(c, "public_url")
    BY <2>4, <2>5 DEF Settings, Simple
  <2>10. ~Gives(c.env, "database_url") =>
           Settings(c).database = IF Documented(c, "data_dir") = Relative THEN Beside
                                  ELSE Documented(c, "data_dir")
    BY <2>4, <2>5 DEF Settings, Location
  <2> HIDE DEF c
  <2>11. QED
    BY <2>3, <2>8, <2>9, <2>10 DEF c
<1>2. IInv /\ [Next]_vars => [Strongest]_vars
  BY <1>1
<1>3. QED
  BY <1>2, Invariance, PTL DEF Spec, StrongestSource
=====================================================================================
