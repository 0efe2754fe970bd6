------------------------------ MODULE StreamProofs ------------------------------
(***************************************************************************)
(* Safety of what is captured of an application, for any number of model   *)
(* calls, clients, contexts and turns: the traces of streamed model calls, *)
(* and the batches of an agent run.  And of what is captured of the        *)
(* history file of a local agent, for any number of scanners and claims.   *)
(* With the theorems about the spool they are about all of MCCapture.      *)
(***************************************************************************)
EXTENDS MCCapture, SpoolProofs, WellFoundedInduction

CallStates ==
  [pc : {"new", "asked", "open", "over"}, client : 0..MaxClients, managed : BOOLEAN,
   active : BOOLEAN, gate : BOOLEAN, error : BOOLEAN, finalized : BOOLEAN,
   reader : {"new", "waits", "between", "ended"}, closer : {"none", "closing", "done"},
   scope : {"none", "in", "leaving", "left"}, instrumented : BOOLEAN]

\* The client of the call is shut down, for good.
Gone(h) == ~client.up \/ client.number # h.client

Over(h) ==
  \/ h.scope = "left" \/ h.closer = "done"
  \/ h.reader = "ended" /\ ~h.managed

\* A stream of a client that is there: its wrapper knows of every failure until it is
\* finalized, and a manager finalizes it when it is left and not before.
WrapperIsSound(h, made, fails) ==
  /\ ~h.finalized => h.error = fails
  /\ h.finalized /\ fails => made # <<>>
  /\ h.managed => h.active /\ (h.finalized <=> h.scope = "left")
  /\ h.gate <=> ~h.managed
  /\ h.managed /\ h.scope = "leaving" => h.instrumented
  /\ Over(h) => h.finalized

CallIsSound(h, made, fails) ==
  /\ h \in CallStates /\ made \in Seq(BOOLEAN) /\ fails \in BOOLEAN
  /\ h.client <= client.number
  /\ h.pc # "open" => h.reader = "new" /\ h.closer = "none" /\ h.scope = "none" /\ ~h.finalized
  /\ h.pc \in {"new", "asked"} => ~h.error /\ ~fails /\ made = <<>>
  /\ h.managed => h.closer = "none"
  /\ Len(made) <= 1 /\ \A i \in DOMAIN made : made[i] = fails
  /\ made # <<>> => \/ h.pc = "over"
                    \/ h.finalized /\ (h.managed => h.scope = "left")
  /\ h.pc = "open" /\ ~Gone(h) => WrapperIsSound(h, made, fails)

WrapperInv ==
  /\ client \in [number : 0..MaxClients, up : BOOLEAN]
  /\ call \in [Calls -> CallStates] /\ traces \in [Calls -> Seq(BOOLEAN)] /\ failed \in [Calls -> BOOLEAN]
  /\ \A c \in Calls : CallIsSound(call[c], traces[c], failed[c])

---------------------------------------------------------------------------
\* Frames: a step is of one call, or of the client.

LEMMA CallStep ==
  ASSUME WrapperInv, NEW c \in Calls, UNCHANGED client,
         NEW h, NEW made, NEW fails, CallIsSound(h, made, fails),
         call' = [call EXCEPT ![c] = h], traces' = [traces EXCEPT ![c] = made],
         failed' = [failed EXCEPT ![c] = fails]
  PROVE  WrapperInv'
<1>1. h \in CallStates /\ made \in Seq(BOOLEAN) /\ fails \in BOOLEAN
  BY DEF CallIsSound
<1>2. /\ call' \in [Calls -> CallStates] /\ traces' \in [Calls -> Seq(BOOLEAN)] /\ failed' \in [Calls -> BOOLEAN]
      /\ call'[c] = h /\ traces'[c] = made /\ failed'[c] = fails
      /\ \A d \in Calls : d # c => call'[d] = call[d] /\ traces'[d] = traces[d] /\ failed'[d] = failed[d]
  BY <1>1 DEF WrapperInv
<1>3. ASSUME NEW x, NEW m, NEW f, CallIsSound(x, m, f) PROVE CallIsSound(x, m, f)'
  BY <1>3 DEF CallIsSound, Gone
<1>4. ASSUME NEW d \in Calls PROVE CallIsSound(call[d], traces[d], failed[d])'
  <2>1. PICK x, m, f : x = call'[d] /\ m = traces'[d] /\ f = failed'[d]
    OBVIOUS
  <2>2. CallIsSound(x, m, f)
    BY <1>2, <2>1 DEF WrapperInv
  <2>3. CallIsSound(x, m, f)'
    BY <1>3, <2>2
  <2> QED
    BY <2>1, <2>3
<1> QED
  BY <1>2, <1>4 DEF WrapperInv

\* The client only goes away from a call that has begun.
LEMMA ClientStep ==
  ASSUME WrapperInv, Initialize \/ Shutdown
  PROVE  WrapperInv'
<1>1. /\ client.number \in 0..MaxClients /\ MaxClients \in Nat
      /\ UNCHANGED <<call, traces, failed>>
  BY ClientAssumption DEF WrapperInv, Initialize, Shutdown
<1>2. /\ client' \in [number : 0..MaxClients, up : BOOLEAN] /\ client.number <= client'.number
      /\ \/ client'.number = client.number /\ ~client'.up
         \/ client'.number = client.number + 1
  <2>1. CASE Initialize
    <3>1. client.number + 1 \in 0..MaxClients /\ client.number <= client.number + 1
      BY <1>1, <2>1 DEF Initialize
    <3> QED
      BY <2>1, <3>1 DEF Initialize
  <2>2. CASE Shutdown
    <3>1. client'.number = client.number /\ client'.up = FALSE /\ client' = [client EXCEPT !.up = FALSE]
      BY <2>2 DEF Shutdown, WrapperInv
    <3>2. client' \in [number : 0..MaxClients, up : BOOLEAN]
      BY <3>1 DEF WrapperInv
    <3>3. client.number <= client.number
      BY <1>1
    <3> QED
      BY <3>1, <3>2, <3>3
  <2> QED
    BY <2>1, <2>2
<1>3. ASSUME NEW h \in CallStates, h.client <= client.number, ~(Gone(h))'
      PROVE  ~Gone(h)
  <2>1. h.client \in Nat /\ client.number \in Nat
    BY <1>1 DEF CallStates
  <2> QED
    BY <1>2, <1>3, <2>1, ClientAssumption DEF Gone
<1>4. ASSUME NEW x, NEW m, NEW f, CallIsSound(x, m, f) PROVE CallIsSound(x, m, f)'
  <2>1. x \in CallStates /\ x.client <= client.number /\ x.client \in Nat
    BY <1>4 DEF CallIsSound, CallStates
  <2>2. x.client <= client'.number
    BY <1>1, <1>2, <2>1
  <2> QED
    BY <1>3, <1>4, <2>1, <2>2 DEF CallIsSound
<1>5. ASSUME NEW d \in Calls PROVE CallIsSound(call[d], traces[d], failed[d])'
  <2>1. PICK x, m, f : x = call[d] /\ m = traces[d] /\ f = failed[d] /\ CallIsSound(x, m, f)
    BY DEF WrapperInv
  <2>2. CallIsSound(x, m, f)'
    BY <1>4, <2>1
  <2> QED
    BY <1>1, <2>1, <2>2
<1> QED
  BY <1>1, <1>2, <1>5 DEF WrapperInv

---------------------------------------------------------------------------
\* What the parts of a step do.

LEMMA FailsMeans ==
  ASSUME WrapperInv, NEW c \in Calls, NEW failure \in BOOLEAN, Fails(c, failure)
  PROVE  \E fails \in BOOLEAN :
           /\ failed' = [failed EXCEPT ![c] = fails]
           /\ fails <=> \/ failed[c]
                        \/ failure /\ (call[c].managed => call[c].scope # "left")
                                   /\ (~call[c].managed => ~call[c].finalized)
<1> DEFINE fails == failed[c] \/ (failure /\ IF call[c].managed THEN call[c].scope # "left" ELSE ~call[c].finalized)
<1>1. failed[c] \in BOOLEAN /\ fails \in BOOLEAN
  BY DEF WrapperInv
<1>2. failed' = [failed EXCEPT ![c] = fails]
  BY DEF Fails, WrapperInv
<1> WITNESS fails \in BOOLEAN
<1> QED
  BY <1>2

LEMMA OneTrace ==
  ASSUME NEW error \in BOOLEAN
  PROVE  /\ Append(<<>>, error) \in Seq(BOOLEAN) /\ Append(<<>>, error) # <<>>
         /\ Len(Append(<<>>, error)) <= 1
         /\ \A i \in DOMAIN Append(<<>>, error) : Append(<<>>, error)[i] = error
OBVIOUS

\* An open wrapper is finalized: its trace tells of what has failed by now.
LEMMA FinalizeInv ==
  ASSUME WrapperInv, NEW c \in Calls, UNCHANGED client, NEW new \in CallStates, Finalize(c, new),
         NEW fails \in BOOLEAN, failed' = [failed EXCEPT ![c] = fails],
         call[c].pc = "open" /\ new.pc = "open",
         new.client = call[c].client /\ new.managed = call[c].managed /\ new.active = call[c].active,
         new.gate = call[c].gate /\ new.instrumented = call[c].instrumented,
         new.managed => new.closer = "none",
         traces[c] # <<>> => fails = failed[c],
         ~Gone(call[c]) /\ call[c].finalized => fails = failed[c],
         ~Gone(call[c]) /\ ~call[c].finalized => new.error = fails,
         new.managed => \/ new.scope = "left"
                        \/ Gone(call[c]) /\ new.scope = call[c].scope
  PROVE  WrapperInv'
<1>1. PICK old, made, was : /\ old = call[c] /\ made = traces[c] /\ was = failed[c]
                            /\ CallIsSound(old, made, was)
  BY DEF WrapperInv
<1>2. PICK h \in CallStates : /\ h = [new EXCEPT !.finalized = TRUE]
                              /\ h.pc = "open" /\ h.client = old.client /\ h.managed = old.managed
                              /\ h.active = old.active /\ h.gate = old.gate /\ h.instrumented = old.instrumented
                              /\ h.error = new.error /\ h.finalized = TRUE /\ h.closer = new.closer
                              /\ h.scope = new.scope
  <2>1. [new EXCEPT !.finalized = TRUE] \in CallStates
    BY DEF CallStates
  <2> QED
    BY <1>1, <2>1 DEF CallStates
<1>3. call' = [call EXCEPT ![c] = h]
  BY <1>2 DEF Finalize
<1>4. Gone(h) <=> Gone(old)
  BY <1>2 DEF Gone
<1>5. CASE ~Gone(old) /\ ~old.finalized /\ traces' = [traces EXCEPT ![c] = Append(traces[c], new.error)]
  <2>1. made = <<>> /\ new.error = fails
    BY <1>1, <1>5 DEF CallIsSound
  <2>2. PICK told : told = Append(<<>>, new.error)
    OBVIOUS
  <2>3. /\ told \in Seq(BOOLEAN) /\ told # <<>> /\ Len(told) <= 1
        /\ \A i \in DOMAIN told : told[i] = fails
    BY <2>1, <2>2, OneTrace
  <2>4. traces' = [traces EXCEPT ![c] = told]
    BY <1>1, <1>5, <2>1, <2>2
  <2>5. CallIsSound(h, told, fails)
    BY <1>1, <1>2, <1>4, <1>5, <2>3 DEF CallIsSound, WrapperIsSound
  <2> QED
    BY <1>3, <2>4, <2>5, CallStep
<1>6. CASE UNCHANGED traces /\ (Gone(old) \/ old.finalized \/ ~new.error)
  <2>1. traces' = [traces EXCEPT ![c] = made]
    BY <1>1, <1>6 DEF WrapperInv
  <2>2. CallIsSound(h, made, fails)
    BY <1>1, <1>2, <1>4, <1>6 DEF CallIsSound, WrapperIsSound
  <2> QED
    BY <1>3, <2>1, <2>2, CallStep
<1> QED
  BY <1>1, <1>5, <1>6 DEF Finalize, Captures, Disabled, Gone

\* A step that captures nothing.
LEMMA MoveInv ==
  ASSUME WrapperInv, NEW c \in Calls, UNCHANGED <<client, traces>>,
         NEW h, NEW fails, CallIsSound(h, traces[c], fails),
         call' = [call EXCEPT ![c] = h], failed' = [failed EXCEPT ![c] = fails]
  PROVE  WrapperInv'
<1>1. PICK made : made = traces[c]
  OBVIOUS
<1>2. traces' = [traces EXCEPT ![c] = made]
  BY <1>1 DEF WrapperInv
<1> QED
  BY <1>1, <1>2, CallStep

LEMMA QuietMoveInv ==
  ASSUME WrapperInv, NEW c \in Calls, UNCHANGED <<client, traces, failed>>,
         NEW h, CallIsSound(h, traces[c], failed[c]), call' = [call EXCEPT ![c] = h]
  PROVE  WrapperInv'
<1>1. failed' = [failed EXCEPT ![c] = failed[c]]
  BY DEF WrapperInv
<1> QED
  BY <1>1, MoveInv

---------------------------------------------------------------------------
\* The steps of a call.

LEMMA CallBeginsInv == ASSUME WrapperInv, NEW c \in Calls, CallBegins(c) PROVE WrapperInv'
<1>1. PICK old : old = call[c] /\ old \in CallStates /\ CallIsSound(old, traces[c], failed[c])
  BY DEF WrapperInv
<1>2. PICK managed \in BOOLEAN :
        call' = [call EXCEPT ![c] = [old EXCEPT !.pc = "asked", !.client = client.number, !.managed = managed]]
  BY <1>1 DEF CallBegins, WrapperInv
<1>3. old.pc = "new" /\ UNCHANGED <<client, traces, failed>> /\ client.number \in 0..MaxClients
  BY <1>1 DEF CallBegins, WrapperInv
<1> DEFINE h == [old EXCEPT !.pc = "asked", !.client = client.number, !.managed = managed]
<1>4. /\ h \in CallStates /\ h.pc = "asked" /\ h.client = client.number /\ h.finalized = old.finalized
      /\ h.reader = old.reader /\ h.closer = old.closer /\ h.scope = old.scope /\ h.error = old.error
  BY <1>1, <1>3 DEF CallStates
<1>5. client.number <= client.number
  BY <1>3, ClientAssumption
<1> HIDE DEF h
<1>6. CallIsSound(h, traces[c], failed[c])
  BY <1>1, <1>3, <1>4, <1>5 DEF CallIsSound
<1> QED
  BY <1>2, <1>3, <1>6, QuietMoveInv DEF h

LEMMA CallFailsInv == ASSUME WrapperInv, NEW c \in Calls, CallFails(c) PROVE WrapperInv'
<1>1. PICK old : old = call[c] /\ old \in CallStates /\ CallIsSound(old, traces[c], failed[c])
  BY DEF WrapperInv
<1>2. old.pc = "asked" /\ UNCHANGED client /\ traces[c] = <<>> /\ ~failed[c]
  BY <1>1 DEF CallFails, CallIsSound
<1>3. PICK h : h = [old EXCEPT !.pc = "over"]
  OBVIOUS
<1>4. /\ h \in CallStates /\ h.pc = "over" /\ h.client = old.client /\ h.finalized = old.finalized
      /\ h.reader = old.reader /\ h.closer = old.closer /\ h.scope = old.scope
  BY <1>1, <1>3 DEF CallStates
<1>5. call' = [call EXCEPT ![c] = h]
  BY <1>1, <1>3 DEF CallFails, WrapperInv
<1>6. CASE UNCHANGED <<traces, failed>>
  <2>1. CallIsSound(h, traces[c], failed[c])
    BY <1>1, <1>2, <1>4 DEF CallIsSound
  <2> QED
    BY <1>2, <1>5, <1>6, <2>1, QuietMoveInv
<1>7. CASE Captures(c, TRUE) /\ Fails(c, TRUE)
  <2>1. PICK fails \in BOOLEAN : failed' = [failed EXCEPT ![c] = fails] /\ fails
    <3>1. call[c].scope # "left" /\ ~call[c].finalized
      BY <1>1, <1>2 DEF CallIsSound
    <3> QED
      BY <1>7, <3>1, FailsMeans
  <2>2. PICK told : told = Append(<<>>, TRUE)
    OBVIOUS
  <2>3. traces' = [traces EXCEPT ![c] = told]
    BY <1>2, <1>7, <2>2 DEF Captures
  <2>4. /\ told \in Seq(BOOLEAN) /\ told # <<>> /\ Len(told) <= 1
        /\ \A i \in DOMAIN told : told[i] = TRUE
    BY <2>2, OneTrace
  <2>5. CallIsSound(h, told, fails)
    BY <1>1, <1>2, <1>4, <2>1, <2>4 DEF CallIsSound
  <2> QED
    BY <1>2, <1>5, <2>1, <2>3, <2>5, CallStep
<1> QED
  BY <1>6, <1>7 DEF CallFails

LEMMA CallAnswersInv == ASSUME WrapperInv, NEW c \in Calls, CallAnswers(c) PROVE WrapperInv'
<1>1. PICK old : old = call[c] /\ old \in CallStates /\ CallIsSound(old, traces[c], failed[c])
  BY DEF WrapperInv
<1>2. PICK active, gate, scope : /\ active = (old.managed /\ ~Disabled(c))
                                 /\ gate = (~old.managed \/ Disabled(c))
                                 /\ scope = IF old.managed THEN "in" ELSE "none"
  OBVIOUS
<1>3. /\ active \in BOOLEAN /\ gate \in BOOLEAN /\ scope \in {"in", "none"}
      /\ active <=> old.managed /\ ~Gone(old)
      /\ gate <=> ~old.managed \/ Gone(old)
  BY <1>1, <1>2 DEF Disabled, Gone
<1>4. PICK h : h = [old EXCEPT !.pc = "open", !.scope = scope, !.active = active, !.gate = gate]
  OBVIOUS
<1>5. /\ call' = [call EXCEPT ![c] = h] /\ UNCHANGED <<client, traces, failed>> /\ old.pc = "asked"
  BY <1>1, <1>2, <1>4 DEF CallAnswers, WrapperInv
<1>6. /\ h \in CallStates /\ h.pc = "open" /\ h.client = old.client /\ h.finalized = old.finalized
      /\ h.reader = old.reader /\ h.closer = old.closer /\ h.error = old.error /\ h.managed = old.managed
      /\ h.scope = scope /\ h.active = active /\ h.gate = gate
  <2>1. /\ active \in BOOLEAN /\ gate \in BOOLEAN /\ scope \in {"none", "in", "leaving", "left"}
        /\ old \in CallStates
    BY <1>1, <1>3
  <2>2. h \in CallStates
    BY <1>4, <2>1 DEF CallStates
  <2> QED
    BY <1>4, <2>1, <2>2 DEF CallStates
<1>7. /\ traces[c] = <<>> /\ failed[c] = FALSE /\ old.error = FALSE /\ old.finalized = FALSE
      /\ old.reader = "new" /\ old.closer = "none" /\ old.client <= client.number
      /\ traces[c] \in Seq(BOOLEAN) /\ Len(traces[c]) <= 1 /\ DOMAIN traces[c] = {}
  BY <1>1, <1>5 DEF CallIsSound, CallStates, WrapperInv
<1>8. ~Gone(h) => WrapperIsSound(h, traces[c], failed[c])
  <2>1. Gone(h) <=> Gone(old)
    BY <1>6 DEF Gone
  <2>2. ~Over(h)
    BY <1>3, <1>6, <1>7 DEF Over
  <2>3. scope # "left" /\ scope # "leaving"
    BY <1>3
  <2> QED
    BY <1>3, <1>6, <1>7, <2>1, <2>2, <2>3 DEF WrapperIsSound
<1>9. CallIsSound(h, traces[c], failed[c])
  BY <1>3, <1>6, <1>7, <1>8 DEF CallIsSound
<1> QED
  BY <1>5, <1>9, QuietMoveInv

LEMMA ReadsOnInv == ASSUME WrapperInv, NEW c \in Calls, ReadsOn(c) PROVE WrapperInv'
<1>1. PICK old : old = call[c] /\ old \in CallStates /\ CallIsSound(old, traces[c], failed[c])
  BY DEF WrapperInv
<1>2. PICK h : h = [old EXCEPT !.reader = "waits"]
  OBVIOUS
<1>3. /\ call' = [call EXCEPT ![c] = h] /\ UNCHANGED <<client, traces, failed>> /\ old.pc = "open"
      /\ old.reader # "ended"
  BY <1>1, <1>2 DEF ReadsOn, WrapperInv
<1>4. /\ h \in CallStates /\ h.pc = "open" /\ h.client = old.client /\ h.finalized = old.finalized
      /\ h.reader = "waits" /\ h.closer = old.closer /\ h.error = old.error /\ h.managed = old.managed
      /\ h.scope = old.scope /\ h.active = old.active /\ h.gate = old.gate /\ h.instrumented = old.instrumented
  BY <1>1, <1>2, <1>3 DEF CallStates
<1>5. CallIsSound(h, traces[c], failed[c])
  BY <1>1, <1>3, <1>4 DEF CallIsSound, WrapperIsSound, Gone, Over
<1> QED
  BY <1>3, <1>5, QuietMoveInv

LEMMA CloseBeginsInv == ASSUME WrapperInv, NEW c \in Calls, CloseBegins(c) PROVE WrapperInv'
<1>1. PICK old : old = call[c] /\ old \in CallStates /\ CallIsSound(old, traces[c], failed[c])
  BY DEF WrapperInv
<1>2. PICK h : h = [old EXCEPT !.closer = "closing"]
  OBVIOUS
<1>3. /\ call' = [call EXCEPT ![c] = h] /\ UNCHANGED <<client, traces, failed>> /\ old.pc = "open"
      /\ ~old.managed /\ old.closer = "none"
  BY <1>1, <1>2 DEF CloseBegins, WrapperInv
<1>4. /\ h \in CallStates /\ h.pc = "open" /\ h.client = old.client /\ h.finalized = old.finalized
      /\ h.reader = old.reader /\ h.closer = "closing" /\ h.error = old.error /\ h.managed = old.managed
      /\ h.scope = old.scope /\ h.active = old.active /\ h.gate = old.gate /\ h.instrumented = old.instrumented
  BY <1>1, <1>2, <1>3 DEF CallStates
<1>5. CallIsSound(h, traces[c], failed[c])
  BY <1>1, <1>3, <1>4 DEF CallIsSound, WrapperIsSound, Gone, Over
<1> QED
  BY <1>3, <1>5, QuietMoveInv

LEMMA EntersStreamInv == ASSUME WrapperInv, NEW c \in Calls, EntersStream(c) PROVE WrapperInv'
<1>1. PICK old : old = call[c] /\ old \in CallStates /\ CallIsSound(old, traces[c], failed[c])
  BY DEF WrapperInv
<1>2. PICK h : h = [old EXCEPT !.scope = "in"]
  OBVIOUS
<1>3. /\ call' = [call EXCEPT ![c] = h] /\ UNCHANGED <<client, traces, failed>> /\ old.pc = "open"
      /\ ~old.managed /\ old.scope = "none"
  BY <1>1, <1>2 DEF EntersStream, WrapperInv
<1>4. /\ h \in CallStates /\ h.pc = "open" /\ h.client = old.client /\ h.finalized = old.finalized
      /\ h.reader = old.reader /\ h.closer = old.closer /\ h.error = old.error /\ h.managed = old.managed
      /\ h.scope = "in" /\ h.active = old.active /\ h.gate = old.gate /\ h.instrumented = old.instrumented
  BY <1>1, <1>2, <1>3 DEF CallStates
<1>5. CallIsSound(h, traces[c], failed[c])
  BY <1>1, <1>3, <1>4 DEF CallIsSound, WrapperIsSound, Gone, Over
<1> QED
  BY <1>3, <1>5, QuietMoveInv

LEMMA EventArrivesInv == ASSUME WrapperInv, NEW c \in Calls, EventArrives(c) PROVE WrapperInv'
<1>1. PICK old : old = call[c] /\ old \in CallStates /\ CallIsSound(old, traces[c], failed[c])
  BY DEF WrapperInv
<1>2. PICK failure : /\ failure \in BOOLEAN /\ (Gone(old) => ~failure)
                     /\ call' = [call EXCEPT ![c].reader = "between", ![c].error = @ \/ failure]
                     /\ Fails(c, failure)
  <2>1. PICK f \in BOOLEAN : /\ call' = [call EXCEPT ![c].reader = "between", ![c].error = @ \/ (f /\ ~Disabled(c))]
                             /\ Fails(c, f /\ ~Disabled(c))
    BY DEF EventArrives
  <2>2. PICK g : g = (f /\ ~Disabled(c))
    OBVIOUS
  <2>3. g \in BOOLEAN /\ (Gone(old) => ~g)
    BY <1>1, <2>2 DEF Disabled, Gone
  <2> QED
    BY <2>1, <2>2, <2>3
<1>3. PICK error : error = (old.error \/ failure)
  OBVIOUS
<1>4. error \in BOOLEAN /\ (error <=> old.error \/ failure)
  BY <1>1, <1>2, <1>3 DEF CallStates
<1>5. PICK h : h = [old EXCEPT !.reader = "between", !.error = error]
  OBVIOUS
<1>6. /\ call' = [call EXCEPT ![c] = h] /\ UNCHANGED <<client, traces>> /\ old.pc = "open"
      /\ old.reader = "waits"
  BY <1>1, <1>2, <1>3, <1>5 DEF EventArrives, CallIsSound, WrapperInv
<1>7. /\ h \in CallStates /\ h.pc = "open" /\ h.client = old.client /\ h.finalized = old.finalized
      /\ h.reader = "between" /\ h.closer = old.closer /\ h.error = error /\ h.managed = old.managed
      /\ h.scope = old.scope /\ h.active = old.active /\ h.gate = old.gate /\ h.instrumented = old.instrumented
  BY <1>1, <1>4, <1>5, <1>6 DEF CallStates
<1>8. PICK fails \in BOOLEAN :
        /\ failed' = [failed EXCEPT ![c] = fails]
        /\ fails <=> \/ failed[c]
                     \/ failure /\ (old.managed => old.scope # "left") /\ (~old.managed => ~old.finalized)
  BY <1>1, <1>2, FailsMeans
<1>9. traces[c] # <<>> \/ (~Gone(old) /\ old.finalized) => fails = failed[c]
  BY <1>1, <1>6, <1>8 DEF CallIsSound, WrapperIsSound
<1>10. ~Gone(old) /\ ~old.finalized => error = fails
  BY <1>1, <1>4, <1>6, <1>8 DEF CallIsSound, WrapperIsSound
<1>11. CallIsSound(h, traces[c], fails)
  <2>1. Gone(h) <=> Gone(old)
    BY <1>7 DEF Gone
  <2> QED
    BY <1>1, <1>6, <1>7, <1>9, <1>10, <2>1 DEF CallIsSound, WrapperIsSound, Over
<1> QED
  BY <1>6, <1>8, <1>11, MoveInv

LEMMA ReaderDroppedInv == ASSUME WrapperInv, NEW c \in Calls, ReaderDropped(c) PROVE WrapperInv'
<1>1. PICK old : old = call[c] /\ old \in CallStates /\ CallIsSound(old, traces[c], failed[c])
  BY DEF WrapperInv
<1>2. PICK h : h = [old EXCEPT !.reader = "ended"]
  OBVIOUS
<1>3. /\ FinalizeIfGated(c, h) /\ UNCHANGED <<client, failed>> /\ old.pc = "open"
      /\ old.reader = "between" /\ failed[c] \in BOOLEAN
  BY <1>1, <1>2 DEF ReaderDropped, CallIsSound, WrapperInv
<1>4. /\ h \in CallStates /\ h.pc = "open" /\ h.client = old.client /\ h.finalized = old.finalized
      /\ h.reader = "ended" /\ h.closer = old.closer /\ h.error = old.error /\ h.managed = old.managed
      /\ h.scope = old.scope /\ h.active = old.active /\ h.gate = old.gate /\ h.instrumented = old.instrumented
  BY <1>1, <1>2, <1>3 DEF CallStates
<1>5. CASE old.gate
  <2>1. Finalize(c, h) /\ failed' = [failed EXCEPT ![c] = failed[c]]
    BY <1>1, <1>3, <1>5 DEF FinalizeIfGated, WrapperInv
  <2>2. h.managed => Gone(old)
    BY <1>1, <1>3, <1>4, <1>5 DEF CallIsSound, WrapperIsSound
  <2>3. h.managed => h.closer = "none"
    BY <1>1, <1>4 DEF CallIsSound
  <2>4. ~Gone(old) /\ ~old.finalized => h.error = failed[c]
    BY <1>1, <1>3, <1>4 DEF CallIsSound, WrapperIsSound
  <2> QED
    BY <1>1, <1>3, <1>4, <2>1, <2>2, <2>3, <2>4, FinalizeInv
<1>6. CASE ~old.gate
  <2>1. call' = [call EXCEPT ![c] = h] /\ UNCHANGED traces
    BY <1>1, <1>3, <1>6 DEF FinalizeIfGated
  <2>2. CallIsSound(h, traces[c], failed[c])
    BY <1>1, <1>3, <1>4, <1>6 DEF CallIsSound, WrapperIsSound, Gone, Over
  <2> QED
    BY <1>3, <2>1, <2>2, QuietMoveInv
<1> QED
  BY <1>5, <1>6

LEMMA ReadingEndsInv == ASSUME WrapperInv, NEW c \in Calls, ReadingEnds(c) PROVE WrapperInv'
<1>1. PICK old : old = call[c] /\ old \in CallStates /\ CallIsSound(old, traces[c], failed[c])
  BY DEF WrapperInv
<1>2. PICK failure \in BOOLEAN :
        /\ FinalizeIfGated(c, [old EXCEPT !.reader = "ended", !.error = @ \/ failure])
        /\ Fails(c, failure)
  BY <1>1 DEF ReadingEnds
<1>3. PICK error : error = (old.error \/ failure)
  OBVIOUS
<1>4. error \in BOOLEAN /\ (error <=> old.error \/ failure)
  BY <1>1, <1>2, <1>3 DEF CallStates
<1>5. PICK h : h = [old EXCEPT !.reader = "ended", !.error = error]
  OBVIOUS
<1>6. /\ FinalizeIfGated(c, h) /\ UNCHANGED client /\ old.pc = "open" /\ old.reader = "waits"
  BY <1>1, <1>2, <1>3, <1>5 DEF ReadingEnds, CallIsSound
<1>7. /\ h \in CallStates /\ h.pc = "open" /\ h.client = old.client /\ h.finalized = old.finalized
      /\ h.reader = "ended" /\ h.closer = old.closer /\ h.error = error /\ h.managed = old.managed
      /\ h.scope = old.scope /\ h.active = old.active /\ h.gate = old.gate /\ h.instrumented = old.instrumented
  BY <1>1, <1>4, <1>5, <1>6 DEF CallStates
<1>8. PICK fails \in BOOLEAN :
        /\ failed' = [failed EXCEPT ![c] = fails]
        /\ fails <=> \/ failed[c]
                     \/ failure /\ (old.managed => old.scope # "left") /\ (~old.managed => ~old.finalized)
  BY <1>1, <1>2, FailsMeans
<1>9. traces[c] # <<>> \/ (~Gone(old) /\ old.finalized) => fails = failed[c]
  BY <1>1, <1>6, <1>8 DEF CallIsSound, WrapperIsSound
<1>10. ~Gone(old) /\ ~old.finalized => error = fails
  BY <1>1, <1>4, <1>6, <1>8 DEF CallIsSound, WrapperIsSound
<1>11. CASE old.gate
  <2>1. Finalize(c, h)
    BY <1>1, <1>6, <1>11 DEF FinalizeIfGated
  <2>2. h.managed => Gone(old)
    BY <1>1, <1>6, <1>7, <1>11 DEF CallIsSound, WrapperIsSound
  <2>3. h.managed => h.closer = "none"
    BY <1>1, <1>7 DEF CallIsSound
  <2> QED
    BY <1>1, <1>6, <1>7, <1>8, <1>9, <1>10, <2>1, <2>2, <2>3, FinalizeInv
<1>12. CASE ~old.gate
  <2>1. call' = [call EXCEPT ![c] = h] /\ UNCHANGED traces
    BY <1>1, <1>6, <1>12 DEF FinalizeIfGated
  <2>2. Gone(h) <=> Gone(old)
    BY <1>7 DEF Gone
  <2>3. CallIsSound(h, traces[c], fails)
    BY <1>1, <1>6, <1>7, <1>8, <1>9, <1>10, <1>12, <2>2 DEF CallIsSound, WrapperIsSound, Over
  <2> QED
    BY <1>6, <1>8, <2>1, <2>3, MoveInv
<1> QED
  BY <1>11, <1>12

LEMMA CloseEndsInv == ASSUME WrapperInv, NEW c \in Calls, CloseEnds(c) PROVE WrapperInv'
<1>1. PICK old : old = call[c] /\ old \in CallStates /\ CallIsSound(old, traces[c], failed[c])
  BY DEF WrapperInv
<1>2. PICK failure \in BOOLEAN :
        /\ Finalize(c, [old EXCEPT !.closer = "done", !.error = @ \/ failure])
        /\ Fails(c, failure)
  BY <1>1 DEF CloseEnds
<1>3. PICK error : error = (old.error \/ failure)
  OBVIOUS
<1>4. error \in BOOLEAN /\ (error <=> old.error \/ failure)
  BY <1>1, <1>2, <1>3 DEF CallStates
<1>5. PICK h : h = [old EXCEPT !.closer = "done", !.error = error]
  OBVIOUS
<1>6. /\ Finalize(c, h) /\ UNCHANGED client /\ old.pc = "open" /\ old.closer = "closing" /\ ~old.managed
  BY <1>1, <1>2, <1>3, <1>5 DEF CloseEnds, CallIsSound
<1>7. /\ h \in CallStates /\ h.pc = "open" /\ h.client = old.client /\ h.finalized = old.finalized
      /\ h.error = error /\ h.managed = old.managed
      /\ h.active = old.active /\ h.gate = old.gate /\ h.instrumented = old.instrumented
  BY <1>1, <1>4, <1>5, <1>6 DEF CallStates
<1>8. PICK fails \in BOOLEAN :
        /\ failed' = [failed EXCEPT ![c] = fails]
        /\ fails <=> \/ failed[c]
                     \/ failure /\ (old.managed => old.scope # "left") /\ (~old.managed => ~old.finalized)
  BY <1>1, <1>2, FailsMeans
<1>9. traces[c] # <<>> \/ (~Gone(old) /\ old.finalized) => fails = failed[c]
  BY <1>1, <1>6, <1>8 DEF CallIsSound, WrapperIsSound
<1>10. ~Gone(old) /\ ~old.finalized => error = fails
  BY <1>1, <1>4, <1>6, <1>8 DEF CallIsSound, WrapperIsSound
<1> QED
  BY <1>1, <1>6, <1>7, <1>8, <1>9, <1>10, FinalizeInv

LEMMA StreamLeftInv == ASSUME WrapperInv, NEW c \in Calls, StreamLeft(c) PROVE WrapperInv'
<1>1. PICK old : old = call[c] /\ old \in CallStates /\ CallIsSound(old, traces[c], failed[c])
  BY DEF WrapperInv
<1>2. PICK failure \in BOOLEAN :
        /\ Finalize(c, [old EXCEPT !.scope = "left", !.error = @ \/ failure])
        /\ Fails(c, failure)
  BY <1>1 DEF StreamLeft
<1>3. PICK error : error = (old.error \/ failure)
  OBVIOUS
<1>4. error \in BOOLEAN /\ (error <=> old.error \/ failure)
  BY <1>1, <1>2, <1>3 DEF CallStates
<1>5. PICK h : h = [old EXCEPT !.scope = "left", !.error = error]
  OBVIOUS
<1>6. /\ Finalize(c, h) /\ UNCHANGED client /\ old.pc = "open" /\ old.scope = "leaving" /\ ~old.managed
  BY <1>1, <1>2, <1>3, <1>5 DEF StreamLeft, CallIsSound
<1>7. /\ h \in CallStates /\ h.pc = "open" /\ h.client = old.client /\ h.finalized = old.finalized
      /\ h.error = error /\ h.managed = old.managed
      /\ h.active = old.active /\ h.gate = old.gate /\ h.instrumented = old.instrumented
  BY <1>1, <1>4, <1>5, <1>6 DEF CallStates
<1>8. PICK fails \in BOOLEAN :
        /\ failed' = [failed EXCEPT ![c] = fails]
        /\ fails <=> \/ failed[c]
                     \/ failure /\ (old.managed => old.scope # "left") /\ (~old.managed => ~old.finalized)
  BY <1>1, <1>2, FailsMeans
<1>9. traces[c] # <<>> \/ (~Gone(old) /\ old.finalized) => fails = failed[c]
  BY <1>1, <1>6, <1>8 DEF CallIsSound, WrapperIsSound
<1>10. ~Gone(old) /\ ~old.finalized => error = fails
  BY <1>1, <1>4, <1>6, <1>8 DEF CallIsSound, WrapperIsSound
<1> QED
  BY <1>1, <1>6, <1>7, <1>8, <1>9, <1>10, FinalizeInv

LEMMA LeavesStreamInv == ASSUME WrapperInv, NEW c \in Calls, LeavesStream(c) PROVE WrapperInv'
<1>1. PICK old : old = call[c] /\ old \in CallStates /\ CallIsSound(old, traces[c], failed[c])
  BY DEF WrapperInv
<1>2. PICK failure \in BOOLEAN :
        /\ call' = [call EXCEPT ![c].scope = "leaving", ![c].error = @ \/ failure]
        /\ Fails(c, failure)
  BY DEF LeavesStream
<1>3. PICK error : error = (old.error \/ failure)
  OBVIOUS
<1>4. error \in BOOLEAN /\ (error <=> old.error \/ failure)
  BY <1>1, <1>2, <1>3 DEF CallStates
<1>5. PICK h : h = [old EXCEPT !.scope = "leaving", !.error = error]
  OBVIOUS
<1>6. /\ call' = [call EXCEPT ![c] = h] /\ UNCHANGED <<client, traces>> /\ old.pc = "open"
      /\ old.scope = "in" /\ ~old.managed
  BY <1>1, <1>2, <1>3, <1>5 DEF LeavesStream, CallIsSound, WrapperInv
<1>7. /\ h \in CallStates /\ h.pc = "open" /\ h.client = old.client /\ h.finalized = old.finalized
      /\ h.reader = old.reader /\ h.closer = old.closer /\ h.error = error /\ h.managed = old.managed
      /\ h.scope = "leaving" /\ h.active = old.active /\ h.gate = old.gate /\ h.instrumented = old.instrumented
  BY <1>1, <1>4, <1>5, <1>6 DEF CallStates
<1>8. PICK fails \in BOOLEAN :
        /\ failed' = [failed EXCEPT ![c] = fails]
        /\ fails <=> \/ failed[c]
                     \/ failure /\ (old.managed => old.scope # "left") /\ (~old.managed => ~old.finalized)
  BY <1>1, <1>2, FailsMeans
<1>9. traces[c] # <<>> \/ (~Gone(old) /\ old.finalized) => fails = failed[c]
  BY <1>1, <1>6, <1>8 DEF CallIsSound, WrapperIsSound
<1>10. ~Gone(old) /\ ~old.finalized => error = fails
  BY <1>1, <1>4, <1>6, <1>8 DEF CallIsSound, WrapperIsSound
<1>11. CallIsSound(h, traces[c], fails)
  <2>1. Gone(h) <=> Gone(old)
    BY <1>7 DEF Gone
  <2> QED
    BY <1>1, <1>6, <1>7, <1>8, <1>9, <1>10, <2>1 DEF CallIsSound, WrapperIsSound, Over
<1> QED
  BY <1>6, <1>8, <1>11, MoveInv

LEMMA LeavesManagerInv == ASSUME WrapperInv, NEW c \in Calls, LeavesManager(c) PROVE WrapperInv'
<1>1. PICK old : old = call[c] /\ old \in CallStates /\ CallIsSound(old, traces[c], failed[c])
  BY DEF WrapperInv
<1>2. PICK instrumented : instrumented = (old.active /\ ~Disabled(c))
  OBVIOUS
<1>3. instrumented \in BOOLEAN /\ (instrumented <=> old.active /\ ~Gone(old))
  BY <1>1, <1>2 DEF CallStates, Disabled, Gone
<1>4. PICK failure \in BOOLEAN :
        /\ call' = [call EXCEPT ![c] = [old EXCEPT !.scope = "leaving", !.instrumented = instrumented,
                                                   !.error = @ \/ (failure /\ instrumented)]]
        /\ Fails(c, failure)
  <2>1. PICK failure \in BOOLEAN :
          /\ call' = [call EXCEPT ![c].scope = "leaving", ![c].instrumented = instrumented,
                                  ![c].error = @ \/ (failure /\ instrumented)]
          /\ Fails(c, failure)
    BY <1>1, <1>2 DEF LeavesManager
  <2> QED
    BY <1>1, <2>1 DEF WrapperInv
<1>5. PICK error : error = (old.error \/ (failure /\ instrumented))
  OBVIOUS
<1>6. error \in BOOLEAN /\ (error <=> old.error \/ (failure /\ instrumented))
  BY <1>1, <1>3, <1>4, <1>5 DEF CallStates
<1>7. PICK h : h = [old EXCEPT !.scope = "leaving", !.instrumented = instrumented, !.error = error]
  OBVIOUS
<1>8. /\ call' = [call EXCEPT ![c] = h] /\ UNCHANGED <<client, traces>> /\ old.pc = "open"
      /\ old.scope = "in" /\ old.managed
  BY <1>1, <1>4, <1>5, <1>7 DEF LeavesManager, CallIsSound, WrapperInv
<1>9. /\ h \in CallStates /\ h.pc = "open" /\ h.client = old.client /\ h.finalized = old.finalized
      /\ h.reader = old.reader /\ h.closer = old.closer /\ h.error = error /\ h.managed = old.managed
      /\ h.scope = "leaving" /\ h.active = old.active /\ h.gate = old.gate /\ h.instrumented = instrumented
  <2>1. old \in CallStates /\ error \in BOOLEAN /\ instrumented \in BOOLEAN
    BY <1>1, <1>3, <1>6
  <2>2. h \in CallStates
    BY <1>7, <2>1 DEF CallStates
  <2>3. old.pc = "open"
    BY <1>8
  <2> QED
    BY <1>7, <2>1, <2>2, <2>3 DEF CallStates
<1>10. PICK fails \in BOOLEAN :
         /\ failed' = [failed EXCEPT ![c] = fails]
         /\ fails <=> \/ failed[c]
                      \/ failure /\ (old.managed => old.scope # "left") /\ (~old.managed => ~old.finalized)
  BY <1>1, <1>4, FailsMeans
<1>11. traces[c] = <<>>
  BY <1>1, <1>8 DEF CallIsSound
<1>12. ~Gone(old) => instrumented /\ error = fails /\ ~old.finalized
  BY <1>1, <1>3, <1>6, <1>8, <1>10 DEF CallIsSound, WrapperIsSound
<1>13. CallIsSound(h, traces[c], fails)
  <2>1. Gone(h) <=> Gone(old)
    BY <1>9 DEF Gone
  <2>2. DOMAIN traces[c] = {}
    BY <1>11
  <2> QED
    BY <1>1, <1>8, <1>9, <1>10, <1>11, <1>12, <2>1, <2>2 DEF CallIsSound, WrapperIsSound, Over
<1> QED
  BY <1>8, <1>10, <1>13, MoveInv

LEMMA ManagerLeftInv == ASSUME WrapperInv, NEW c \in Calls, ManagerLeft(c) PROVE WrapperInv'
<1>1. PICK old : old = call[c] /\ old \in CallStates /\ CallIsSound(old, traces[c], failed[c])
  BY DEF WrapperInv
<1>2. PICK left : left = [old EXCEPT !.scope = "left"]
  OBVIOUS
<1>3. PICK failure \in BOOLEAN :
        /\ IF old.instrumented THEN Finalize(c, [left EXCEPT !.error = @ \/ failure])
           ELSE /\ call' = [call EXCEPT ![c] = [left EXCEPT !.finalized = @ \/ old.active]]
                /\ UNCHANGED traces
        /\ Fails(c, failure)
  BY <1>1, <1>2 DEF ManagerLeft
<1>4. /\ UNCHANGED client /\ old.pc = "open" /\ old.scope = "leaving" /\ old.managed
  BY <1>1 DEF ManagerLeft, CallIsSound
<1>5. /\ left \in CallStates /\ left.pc = "open" /\ left.client = old.client /\ left.finalized = old.finalized
      /\ left.reader = old.reader /\ left.closer = old.closer /\ left.error = old.error /\ left.managed = old.managed
      /\ left.scope = "left" /\ left.active = old.active /\ left.gate = old.gate
      /\ left.instrumented = old.instrumented
  BY <1>1, <1>2, <1>4 DEF CallStates
<1>6. PICK fails \in BOOLEAN :
        /\ failed' = [failed EXCEPT ![c] = fails]
        /\ fails <=> \/ failed[c]
                     \/ failure /\ (old.managed => old.scope # "left") /\ (~old.managed => ~old.finalized)
  BY <1>1, <1>3, FailsMeans
<1>7. traces[c] = <<>> /\ DOMAIN traces[c] = {}
  <2>1. traces[c] = <<>>
    BY <1>1, <1>4 DEF CallIsSound
  <2> QED
    BY <2>1
<1>8. ~Gone(old) => old.instrumented /\ old.error = failed[c] /\ ~old.finalized
  BY <1>1, <1>4 DEF CallIsSound, WrapperIsSound
<1>9. CASE old.instrumented
  <2>1. PICK error : error = (old.error \/ failure)
    OBVIOUS
  <2>2. error \in BOOLEAN /\ (error <=> old.error \/ failure)
    BY <1>1, <1>3, <2>1 DEF CallStates
  <2>3. PICK h : h = [left EXCEPT !.error = error]
    OBVIOUS
  <2>4. Finalize(c, h)
    BY <1>3, <1>5, <1>9, <2>1, <2>3
  <2>5. /\ h \in CallStates /\ h.pc = "open" /\ h.client = old.client /\ h.finalized = old.finalized
        /\ h.closer = old.closer /\ h.error = error /\ h.managed = old.managed
        /\ h.scope = "left" /\ h.active = old.active /\ h.gate = old.gate /\ h.instrumented = old.instrumented
    BY <1>5, <2>2, <2>3 DEF CallStates
  <2>6. ~Gone(old) => error = fails
    BY <1>4, <1>6, <1>8, <2>2
  <2>7. h.closer = "none"
    BY <1>1, <1>4, <2>5 DEF CallIsSound
  <2> QED
    BY <1>1, <1>4, <1>6, <1>7, <1>8, <2>4, <2>5, <2>6, <2>7, FinalizeInv
<1>10. CASE ~old.instrumented
  <2>1. PICK finalized : finalized = (old.finalized \/ old.active)
    OBVIOUS
  <2>2. finalized \in BOOLEAN
    BY <1>1, <2>1 DEF CallStates
  <2>3. PICK h : h = [left EXCEPT !.finalized = finalized]
    OBVIOUS
  <2>4. call' = [call EXCEPT ![c] = h] /\ UNCHANGED traces
    BY <1>3, <1>5, <1>10, <2>1, <2>3
  <2>5. /\ h \in CallStates /\ h.pc = "open" /\ h.client = old.client
        /\ h.closer = old.closer /\ h.managed = old.managed
    BY <1>5, <2>2, <2>3 DEF CallStates
  <2>6. Gone(h)
    BY <1>8, <1>10, <2>5 DEF Gone
  <2>7. CallIsSound(h, traces[c], fails)
    BY <1>1, <1>4, <1>6, <1>7, <2>5, <2>6 DEF CallIsSound
  <2> QED
    BY <1>4, <1>6, <2>4, <2>7, MoveInv
<1> QED
  BY <1>9, <1>10

---------------------------------------------------------------------------
LEMMA WrapperInitInv == WrapperInit => WrapperInv
<1> SUFFICES ASSUME WrapperInit PROVE WrapperInv
  OBVIOUS
<1>1. NotCalled \in CallStates /\ NotCalled.client = 0 /\ 0 \in 0..MaxClients
  BY ClientAssumption DEF NotCalled, CallStates
<1>2. client.number = 0 /\ client \in [number : 0..MaxClients, up : BOOLEAN]
  BY <1>1 DEF WrapperInit
<1>3. <<>> \in Seq(BOOLEAN) /\ Len(<<>>) = 0 /\ DOMAIN <<>> = {}
  OBVIOUS
<1>4. ASSUME NEW c \in Calls PROVE call[c] = NotCalled /\ traces[c] = <<>> /\ failed[c] = FALSE
  BY DEF WrapperInit
<1>5. CallIsSound(NotCalled, <<>>, FALSE)
  BY <1>1, <1>2, <1>3 DEF CallIsSound, NotCalled
<1>6. call \in [Calls -> CallStates] /\ traces \in [Calls -> Seq(BOOLEAN)] /\ failed \in [Calls -> BOOLEAN]
  BY <1>1, <1>3 DEF WrapperInit
<1> QED
  BY <1>2, <1>4, <1>5, <1>6 DEF WrapperInv

LEMMA WrapperStepInv == WrapperInv /\ [WrapperNext]_wrapperVars => WrapperInv'
<1> SUFFICES ASSUME WrapperInv, [WrapperNext]_wrapperVars PROVE WrapperInv'
  OBVIOUS
<1>1. CASE WrapperNext
  BY <1>1, ClientStep, CallBeginsInv, CallFailsInv, CallAnswersInv, ReadsOnInv, EventArrivesInv,
     ReadingEndsInv, ReaderDroppedInv, CloseBeginsInv, CloseEndsInv, EntersStreamInv, LeavesStreamInv,
     StreamLeftInv, LeavesManagerInv, ManagerLeftInv DEF WrapperNext
<1>2. CASE UNCHANGED wrapperVars
  BY <1>2 DEF wrapperVars, WrapperInv, CallIsSound, WrapperIsSound, Gone
<1> QED
  BY <1>1, <1>2

WrapperSpec == WrapperInit /\ [][WrapperNext]_wrapperVars

\* A wrapper that is open for a client that is there knows what has failed, and is finalized
\* exactly when the last of its parties is through.
THEOREM WrapperInvariant == WrapperSpec => []WrapperInv
BY WrapperInitInv, WrapperStepInv, PTL DEF WrapperSpec

\* "finalize this trace exactly once" (instrumentors/openai.py): whoever reads, closes or leaves
\* the stream, in any order, a call has one trace at most, which is right about failures, and
\* none is missing once it is over.
THEOREM CallsHaveOneTrace == WrapperSpec => []CallsAreTraced
<1>1. WrapperInv => CallsAreTraced
  <2> SUFFICES ASSUME WrapperInv, NEW c \in Calls
               PROVE  /\ Len(traces[c]) <= 1
                      /\ \A i \in DOMAIN traces[c] : traces[c][i] = failed[c]
                      /\ IsOver(c) /\ ~Disabled(c) => call[c].finalized /\ (failed[c] => traces[c] # <<>>)
    BY DEF CallsAreTraced
  <2>1. CallIsSound(call[c], traces[c], failed[c])
    BY DEF WrapperInv
  <2>2. IsOver(c) => call[c].pc = "open" /\ Over(call[c])
    BY <2>1 DEF IsOver, Over, CallIsSound
  <2>3. Disabled(c) <=> Gone(call[c])
    BY DEF Disabled, Gone
  <2> QED
    BY <2>1, <2>2, <2>3 DEF CallIsSound, WrapperIsSound
<1> QED
  BY <1>1, WrapperInvariant, PTL

---------------------------------------------------------------------------
\* The inductive invariant of the capture of a run.

TurnStates == [status : Statuses, next : Nat, locked : BOOLEAN]
AgentStates == [entered : BOOLEAN, open : BOOLEAN, status : Statuses, failed : BOOLEAN, numbers : Nat]
EventStates == [by : Contexts, nth : Nat, turn : Nat, seq : Nat, num : Nat]
BatchStates == [run : Statuses, turn : Nat, status : Statuses, event : EventStates]
ContextStates ==
  [pc : {"idle", "turn", "number", "numbering", "emit", "build", "sink", "failing"},
   active : Nat, owns : BOOLEAN, call : Nat, made : Nat, batch : BatchStates]

Emitting == {"emit", "build", "sink", "failing"}
Numbering == {"number", "numbering"}

HasEvent(b) == b.event.nth # 0

\* A batch is of the run, or of a turn and perhaps an event of it, and tells no end but the one there is.
BatchIsSound(b) ==
  /\ b \in BatchStates /\ b.turn \in 0..Len(turns)
  /\ b.run \in {Unknown, agent.status}
  /\ b.status \in IF b.turn = NoTurn THEN {Unknown} ELSE {Unknown, turns[b.turn].status}
  /\ IF HasEvent(b) THEN b.turn # NoTurn /\ b.event.turn = b.turn ELSE b.event = NoEvent

\* A turn under way is of one context; who numbers an event has the lock of its turn.
StateIsSound(c, h) ==
  LET b == h.batch
  IN /\ h \in ContextStates
     /\ h.active \in 0..Len(turns) /\ h.call \in 0..Len(turns)
     /\ BatchIsSound(b)
     /\ h.owns => h.active # NoTurn /\ turns[h.active].status = Unknown
     /\ h.pc = "turn" => h.active = NoTurn
     /\ h.pc \in {"idle", "turn"} => b = NoBatch
     /\ h.pc \in Numbering => HasEvent(b)
     /\ HasEvent(b) => b.event.by = c /\ b.event.nth = h.made
     /\ h.pc = "numbering" => turns[b.turn].locked /\ b.event.seq = turns[b.turn].next

ContextIsSound(c) == StateIsSound(c, ctx[c])

\* The run is entered once, and what it ended with is never replaced.
AgentIsSound ==
  /\ agent \in AgentStates
  /\ turns \in Seq(TurnStates) /\ Len(turns) <= MaxTurns
  /\ ctx = [c \in Contexts |-> ctx[c]]
  /\ ~agent.entered => agent.status = Unknown /\ \A c \in Contexts : ctx[c].pc = "idle"
  /\ agent.status # Unknown =>
       \/ ~agent.open
       \/ ctx[Owner].pc \in Emitting /\ ctx[Owner].batch.turn = NoTurn

TurnsAreOwned ==
  \A c, d \in Contexts :
    c # d => /\ ctx[c].owns /\ ctx[d].owns => ctx[c].active # ctx[d].active
             /\ ctx[c].pc = "numbering" /\ ctx[d].pc = "numbering" => ctx[c].batch.turn # ctx[d].batch.turn

\* An event has its numbers on its way to the sink, and then in the stream.
Underway(c) ==
  IF ctx[c].pc \in Emitting /\ HasEvent(ctx[c].batch)
  THEN {ctx[c].batch.event} ELSE {}

Captured == {stream[k].event : k \in {j \in DOMAIN stream : HasEvent(stream[j])}}

Numbered == Captured \cup UNION {Underway(c) : c \in Contexts}

\* No two of them have a number in common, those of one context in the order it made them.
EventsAreNumbered ==
  /\ \A e \in Numbered :
       /\ e \in EventStates /\ e.nth \in 1..ctx[e.by].made
       /\ e.turn \in 1..Len(turns) /\ e.seq < turns[e.turn].next /\ e.num < agent.numbers
       /\ ctx[e.by].pc \in Numbering => e.nth < ctx[e.by].made
  /\ \A e, f \in Numbered :
       \/ e = f
       \/ /\ e.num # f.num /\ <<e.turn, e.seq>> # <<f.turn, f.seq>>
          /\ e.by = f.by => (e.nth < f.nth /\ e.num < f.num) \/ (f.nth < e.nth /\ f.num < e.num)

Solo(c) == \A d \in Contexts \ {c} : ctx[d].made = 0

\* Who makes all events of a run numbers them as he makes them.
SoloIsNumbered ==
  \A c \in Contexts : Solo(c) =>
    /\ agent.numbers = ctx[c].made - (IF ctx[c].pc \in Numbering THEN 1 ELSE 0)
    /\ \A e \in Numbered : e.by = c => e.num = e.nth - 1

\* Until a failure is known every event of a context but the last is captured, and so it is
\* for those that go on to the sink.
Within(c) == IF HasEvent(ctx[c].batch) THEN ctx[c].made - 1 ELSE ctx[c].made

CapturedInOrder ==
  /\ \A c \in Contexts :
       ~agent.failed \/ ctx[c].pc \in {"build", "sink"} =>
         \A n \in 1..Within(c) : \E f \in Captured : f.by = c /\ f.nth = n
  /\ \A e \in Captured : \A n \in 1..e.nth - 1 : \E f \in Captured : f.by = e.by /\ f.nth = n

\* What storage has is what the batches it got tell.
Told(status, told) ==
  IF told = {} THEN status = Absent
  ELSE IF told \subseteq {Unknown} THEN status = Unknown
  ELSE status \in told \ {Unknown}

Got == {stream[k] : k \in 1..delivered}

StorageIsSound ==
  /\ delivered \in 0..Len(stream)
  /\ central \in [run : Statuses \cup {Absent}, turns : [1..MaxTurns -> Statuses \cup {Absent}],
                  events : SUBSET EventStates, refused : {FALSE}]
  /\ Told(central.run, {b.run : b \in Got})
  /\ \A t \in 1..MaxTurns : Told(central.turns[t], {b.status : b \in {x \in Got : x.turn = t}})
  /\ central.events = {b.event : b \in {x \in Got : HasEvent(x)}}

StreamInv ==
  /\ AgentIsSound /\ (\A c \in Contexts : ContextIsSound(c)) /\ TurnsAreOwned
  /\ stream \in Seq(BatchStates) /\ \A k \in DOMAIN stream : BatchIsSound(stream[k])
  /\ EventsAreNumbered /\ SoloIsNumbered /\ CapturedInOrder
  /\ StorageIsSound

---------------------------------------------------------------------------
\* Frames.

\* Turns are added, their numbers grow, and the end of one is not replaced.
TurnsGrow ==
  /\ turns' \in Seq(TurnStates) /\ Len(turns) <= Len(turns')
  /\ \A t \in 1..Len(turns) :
       /\ turns[t].next <= turns'[t].next
       /\ turns[t].status # Unknown => turns'[t].status = turns[t].status

AgentGrows ==
  /\ agent.status # Unknown => agent'.status = agent.status
  /\ agent'.numbers \in Nat /\ agent.numbers <= agent'.numbers

\* A step of context c leaves the others their turns and locks.
OthersRest(c) ==
  \A d \in Contexts \ {c} :
    /\ ctx'[d] = ctx[d]
    /\ ctx[d].owns => turns'[ctx[d].active].status = Unknown
    /\ ctx[d].pc = "numbering" =>
         /\ turns'[ctx[d].batch.turn].locked
         /\ turns'[ctx[d].batch.turn].next = turns[ctx[d].batch.turn].next

\* A batch stays sound.
LEMMA BatchStays ==
  ASSUME StreamInv, TurnsGrow, AgentGrows, NEW b, BatchIsSound(b)
  PROVE  BatchIsSound(b)'
<1>1. b.turn \in 0..Len(turns) /\ Len(turns) \in Nat /\ Len(turns') \in Nat /\ Len(turns) <= Len(turns')
  BY DEF BatchIsSound, TurnsGrow, StreamInv, AgentIsSound
<1>2. b.turn \in 0..Len(turns') /\ (b.turn # NoTurn => b.turn \in 1..Len(turns))
  BY <1>1 DEF NoTurn
<1> QED
  BY <1>2 DEF BatchIsSound, TurnsGrow, AgentGrows, HasEvent

LEMMA OthersStay ==
  ASSUME StreamInv, TurnsGrow, AgentGrows, NEW c \in Contexts, OthersRest(c)
  PROVE  \A d \in Contexts \ {c} : ContextIsSound(d)'
<1> SUFFICES ASSUME NEW d \in Contexts \ {c} PROVE ContextIsSound(d)'
  OBVIOUS
<1>1. PICK h : h = ctx[d]
  OBVIOUS
<1>2. ctx'[d] = h /\ ContextIsSound(d) /\ BatchIsSound(h.batch)
  BY <1>1 DEF OthersRest, StreamInv, ContextIsSound, StateIsSound
<1>3. BatchIsSound(h.batch)'
  BY <1>2, BatchStays
<1>4. /\ h.active \in 0..Len(turns') /\ h.call \in 0..Len(turns')
      /\ h.owns => turns'[h.active].status = Unknown
      /\ h.pc = "numbering" =>
           turns'[h.batch.turn].locked /\ h.batch.event.seq = turns'[h.batch.turn].next
  BY <1>1, <1>2 DEF ContextIsSound, StateIsSound, TurnsGrow, OthersRest, StreamInv, AgentIsSound
<1>5. BatchIsSound(ctx[d].batch)'
  BY <1>2, <1>3 DEF BatchIsSound, HasEvent
<1> QED
  BY <1>1, <1>2, <1>4, <1>5 DEF ContextIsSound, StateIsSound

\* Events keep their numbers, and contexts their count, when no event gets a number.
LEMMA NumbersStay ==
  ASSUME StreamInv, TurnsGrow, AgentGrows, Numbered' \subseteq Numbered,
         \A c \in Contexts :
           \/ ctx'[c].made = ctx[c].made /\ (ctx'[c].pc \in Numbering => ctx[c].pc \in Numbering)
           \/ ctx'[c].made = ctx[c].made + 1
  PROVE  EventsAreNumbered'
<1>1. ASSUME NEW e \in Numbered
      PROVE  /\ e \in EventStates /\ e.nth \in 1..ctx'[e.by].made
             /\ e.turn \in 1..Len(turns') /\ e.seq < turns'[e.turn].next /\ e.num < agent'.numbers
             /\ ctx'[e.by].pc \in Numbering => e.nth < ctx'[e.by].made
  <2>1. /\ e \in EventStates /\ e.nth \in 1..ctx[e.by].made
        /\ e.turn \in 1..Len(turns) /\ e.seq < turns[e.turn].next /\ e.num < agent.numbers
        /\ ctx[e.by].pc \in Numbering => e.nth < ctx[e.by].made
    BY DEF StreamInv, EventsAreNumbered
  <2>2. e.by \in Contexts /\ e.num \in Nat /\ e.seq \in Nat /\ e.nth \in Nat
    BY <2>1 DEF EventStates
  <2>3. ctx[e.by].made \in Nat
    BY <2>2 DEF StreamInv, ContextIsSound, StateIsSound, ContextStates
  <2>4. /\ agent.numbers \in Nat /\ agent'.numbers \in Nat /\ agent.numbers <= agent'.numbers
        /\ turns \in Seq(TurnStates) /\ turns' \in Seq(TurnStates) /\ Len(turns) <= Len(turns')
        /\ turns[e.turn].next <= turns'[e.turn].next
    BY <2>1 DEF StreamInv, AgentIsSound, AgentStates, AgentGrows, TurnsGrow
  <2>a. Len(turns) \in Nat /\ Len(turns') \in Nat /\ e.turn \in 1..Len(turns')
    BY <2>1, <2>4
  <2>b. turns[e.turn] \in TurnStates /\ turns'[e.turn] \in TurnStates
    BY <2>1, <2>4, <2>a
  <2>5. turns[e.turn].next \in Nat /\ turns'[e.turn].next \in Nat
    BY <2>b DEF TurnStates
  <2>6. /\ e.nth \in 1..ctx'[e.by].made
        /\ ctx'[e.by].pc \in Numbering => e.nth < ctx'[e.by].made
    BY <2>1, <2>2, <2>3
  <2> QED
    BY SMTT(30), <2>1, <2>2, <2>4, <2>a, <2>5, <2>6
<1>2. \A e, f \in Numbered :
       \/ e = f
       \/ /\ e.num # f.num /\ <<e.turn, e.seq>> # <<f.turn, f.seq>>
          /\ e.by = f.by => (e.nth < f.nth /\ e.num < f.num) \/ (f.nth < e.nth /\ f.num < e.num)
  BY DEF StreamInv, EventsAreNumbered
<1> QED
  BY <1>1, <1>2 DEF EventsAreNumbered

\* Who makes all events keeps to his numbers.
LEMMA SoloStays ==
  ASSUME StreamInv, Numbered' \subseteq Numbered, agent'.numbers = agent.numbers,
         \A c \in Contexts :
           \/ ctx'[c].made = ctx[c].made /\ (ctx'[c].pc \in Numbering <=> ctx[c].pc \in Numbering)
           \/ /\ ctx'[c].made = ctx[c].made + 1
              /\ ctx'[c].pc \in Numbering /\ ctx[c].pc \notin Numbering
  PROVE  SoloIsNumbered'
<1> SUFFICES ASSUME NEW c \in Contexts, Solo(c)'
             PROVE  /\ agent'.numbers = ctx'[c].made - (IF ctx'[c].pc \in Numbering THEN 1 ELSE 0)
                    /\ \A e \in Numbered' : e.by = c => e.num = e.nth - 1
  BY DEF SoloIsNumbered
<1>1. \A d \in Contexts : ctx[d].made \in Nat
  BY DEF StreamInv, ContextIsSound, StateIsSound, ContextStates
<1>2. Solo(c)
  BY <1>1 DEF Solo
<1>3. /\ agent.numbers = ctx[c].made - (IF ctx[c].pc \in Numbering THEN 1 ELSE 0)
      /\ \A e \in Numbered : e.by = c => e.num = e.nth - 1
  BY <1>2 DEF StreamInv, SoloIsNumbered
<1>4. agent'.numbers = ctx'[c].made - (IF ctx'[c].pc \in Numbering THEN 1 ELSE 0)
  BY <1>1, <1>3
<1> QED
  BY <1>3, <1>4

\* In h, the next state of c, ...
\* ... no turn is owned or locked that another context owns or locks, ...
Takes(c, h) ==
  /\ h.owns => (ctx[c].owns /\ h.active = ctx[c].active) \/ h.active = Len(turns) + 1
  /\ h.pc = "numbering" =>
       \A d \in Contexts \ {c} : ctx[d].pc = "numbering" => ctx[d].batch.turn # h.batch.turn

\* ... no event has got a number, ...
Numbers(c, h) ==
  /\ \/ h.made = ctx[c].made /\ (h.pc \in Numbering <=> ctx[c].pc \in Numbering)
     \/ h.made = ctx[c].made + 1 /\ h.pc \in Numbering /\ ctx[c].pc \notin Numbering
  /\ h.pc \in Emitting /\ HasEvent(h.batch) =>
       ctx[c].pc \in Emitting /\ h.batch.event = ctx[c].batch.event

\* ... and no more has to be captured.
Owes(c, h) ==
  /\ ~agent'.failed \/ h.pc \in {"build", "sink"} =>
       /\ ~agent.failed \/ ctx[c].pc \in {"build", "sink"}
       /\ (IF HasEvent(h.batch) THEN h.made - 1 ELSE h.made) <= Within(c)
  /\ ~agent'.failed => ~agent.failed

Quiet(c, h) == Takes(c, h) /\ Numbers(c, h) /\ Owes(c, h)

\* A step of one context: what is said of contexts and batches.
LEMMA FrameStays ==
  ASSUME StreamInv, NEW c \in Contexts, NEW h, ctx' = [ctx EXCEPT ![c] = h],
         TurnsGrow, AgentGrows, OthersRest(c), ContextIsSound(c)', Takes(c, h)
  PROVE  /\ ctx'[c] = h /\ \A d \in Contexts \ {c} : ctx'[d] = ctx[d]
         /\ \A d \in Contexts : ContextIsSound(d)'
         /\ TurnsAreOwned'
<1>1. ctx = [d \in Contexts |-> ctx[d]] /\ ctx'[c] = h /\ \A d \in Contexts \ {c} : ctx'[d] = ctx[d]
  BY DEF StreamInv, AgentIsSound
<1>2. \A d \in Contexts : ContextIsSound(d)'
  BY OthersStay
<1>3. TurnsAreOwned'
  <2>1. \A d \in Contexts \ {c} : ctx[d].active \in 0..Len(turns) /\ Len(turns) \in Nat
    BY DEF StreamInv, AgentIsSound, ContextIsSound, StateIsSound
  <2>2. \A d \in Contexts \ {c} :
          /\ h.owns /\ ctx[d].owns => h.active # ctx[d].active
          /\ h.pc = "numbering" /\ ctx[d].pc = "numbering" => h.batch.turn # ctx[d].batch.turn
    BY <2>1 DEF StreamInv, TurnsAreOwned, Takes
  <2>3. \A d, e \in Contexts \ {c} :
          d # e => /\ ctx[d].owns /\ ctx[e].owns => ctx[d].active # ctx[e].active
                   /\ ctx[d].pc = "numbering" /\ ctx[e].pc = "numbering" =>
                        ctx[d].batch.turn # ctx[e].batch.turn
    BY DEF StreamInv, TurnsAreOwned
  <2> QED
    BY <1>1, <2>2, <2>3 DEF TurnsAreOwned
<1> QED
  BY <1>1, <1>2, <1>3

\* A step that captures and stores nothing.
LEMMA StreamRests ==
  ASSUME StreamInv, TurnsGrow, AgentGrows, UNCHANGED <<stream, centralVars>>
  PROVE  /\ stream' \in Seq(BatchStates) /\ \A k \in DOMAIN stream' : BatchIsSound(stream[k])'
         /\ Captured' = Captured /\ StorageIsSound'
<1>1. stream' \in Seq(BatchStates) /\ \A k \in DOMAIN stream' : BatchIsSound(stream[k])'
  <2> SUFFICES ASSUME NEW k \in DOMAIN stream PROVE BatchIsSound(stream[k])'
    BY DEF StreamInv
  <2>1. PICK b : b = stream[k]
    OBVIOUS
  <2>2. BatchIsSound(b)'
    BY <2>1, BatchStays DEF StreamInv
  <2> QED
    BY <2>1, <2>2 DEF BatchIsSound, HasEvent
<1>2. Captured' = Captured
  BY DEF Captured, HasEvent
<1>3. StorageIsSound'
  <2>1. Got' = Got /\ UNCHANGED <<stream, central, delivered>>
    BY DEF Got, centralVars
  <2> QED
    BY <2>1 DEF StreamInv, StorageIsSound, Told, HasEvent
<1> QED
  BY <1>1, <1>2, <1>3

\* What a context has to capture is captured.
LEMMA OrderStays ==
  ASSUME StreamInv, NEW c \in Contexts, NEW h, ctx'[c] = h, \A d \in Contexts \ {c} : ctx'[d] = ctx[d],
         h.made \in Nat, Owes(c, h), Captured' = Captured
  PROVE  CapturedInOrder'
<1>1. \A d \in Contexts : ctx[d].made \in Nat /\ ctx'[d].made \in Nat
  BY DEF StreamInv, ContextIsSound, StateIsSound, ContextStates
<1>2. ASSUME NEW d \in Contexts, ~agent'.failed \/ ctx'[d].pc \in {"build", "sink"}
      PROVE  /\ ~agent.failed \/ ctx[d].pc \in {"build", "sink"}
             /\ Within(d)' \in Int /\ Within(d) \in Int /\ Within(d)' <= Within(d)
  BY <1>1, <1>2 DEF Within, HasEvent, Owes
<1>3. \A d \in Contexts :
        ~agent'.failed \/ ctx'[d].pc \in {"build", "sink"} =>
          \A n \in 1..Within(d)' : \E f \in Captured' : f.by = d /\ f.nth = n
  BY <1>2 DEF StreamInv, CapturedInOrder
<1> QED
  BY <1>3 DEF StreamInv, CapturedInOrder

\* A step of one context in which nothing is captured or stored and no event gets a number.
LEMMA ContextStep ==
  ASSUME StreamInv, NEW c \in Contexts, NEW h, ctx' = [ctx EXCEPT ![c] = h],
         UNCHANGED <<stream, centralVars>>,
         TurnsGrow, AgentGrows, OthersRest(c), AgentIsSound', ContextIsSound(c)',
         agent'.numbers = agent.numbers, Quiet(c, h)
  PROVE  StreamInv'
<1>1. /\ ctx'[c] = h /\ \A d \in Contexts \ {c} : ctx'[d] = ctx[d]
      /\ (\A d \in Contexts : ContextIsSound(d)') /\ TurnsAreOwned'
  BY FrameStays DEF Quiet
<1>2. /\ stream' \in Seq(BatchStates) /\ \A k \in DOMAIN stream' : BatchIsSound(stream[k])'
      /\ Captured' = Captured /\ StorageIsSound'
  BY StreamRests
<1>3. Numbered' \subseteq Numbered
  <2>1. \A d \in Contexts : Underway(d)' \subseteq Underway(d)
    BY <1>1 DEF Underway, HasEvent, Quiet, Numbers
  <2> QED
    BY <1>2, <2>1 DEF Numbered
<1>4. EventsAreNumbered' /\ SoloIsNumbered'
  <2>1. \A d \in Contexts :
          \/ ctx'[d].made = ctx[d].made /\ (ctx'[d].pc \in Numbering <=> ctx[d].pc \in Numbering)
          \/ /\ ctx'[d].made = ctx[d].made + 1
             /\ ctx'[d].pc \in Numbering /\ ctx[d].pc \notin Numbering
    BY <1>1 DEF Quiet, Numbers
  <2> QED
    BY <1>3, <2>1, NumbersStay, SoloStays
<1>5. CapturedInOrder'
  <2>1. h.made \in Nat
    BY <1>1 DEF ContextIsSound, StateIsSound, ContextStates
  <2> QED
    BY <1>1, <1>2, <2>1, OrderStays DEF Quiet
<1> QED
  BY <1>1, <1>2, <1>4, <1>5 DEF StreamInv

---------------------------------------------------------------------------
\* Steps of a context that number and capture nothing.

LEMMA Types ==
  ASSUME StreamInv
  PROVE  /\ agent \in AgentStates /\ agent.numbers \in Nat /\ agent.status \in Statuses
         /\ turns \in Seq(TurnStates) /\ Len(turns) \in Nat /\ Len(turns) <= MaxTurns
         /\ ctx = [c \in Contexts |-> ctx[c]]
         /\ \A c \in Contexts :
              /\ ctx[c] \in ContextStates /\ ctx[c].batch \in BatchStates /\ ctx[c].batch.event \in EventStates
              /\ ctx[c].made \in Nat /\ ContextIsSound(c) /\ BatchIsSound(ctx[c].batch)
         /\ NoBatch \in BatchStates /\ NoEvent \in EventStates
         /\ NoBatch.turn = NoTurn /\ NoBatch.status = Unknown /\ NoBatch.event = NoEvent
         /\ NoEvent.nth = 0 /\ NoEvent.by = Owner
<1>1. AgentIsSound /\ \A c \in Contexts : ContextIsSound(c)
  BY DEF StreamInv
<1>2. /\ NoEvent \in EventStates /\ NoEvent.nth = 0 /\ NoEvent.by = Owner
  BY StreamAssumption DEF NoEvent, EventStates, NoTurn
<1>3. NoBatch \in BatchStates /\ NoBatch.turn = NoTurn /\ NoBatch.status = Unknown /\ NoBatch.event = NoEvent
  BY <1>2 DEF NoBatch, BatchStates, NoTurn, Statuses
<1>4. ASSUME NEW c \in Contexts
      PROVE  /\ ctx[c] \in ContextStates /\ ctx[c].batch \in BatchStates
             /\ ctx[c].batch.event \in EventStates /\ ctx[c].made \in Nat
             /\ ContextIsSound(c) /\ BatchIsSound(ctx[c].batch)
  BY <1>1 DEF ContextIsSound, StateIsSound, ContextStates, BatchStates
<1>5. /\ agent \in AgentStates /\ agent.numbers \in Nat /\ agent.status \in Statuses
      /\ turns \in Seq(TurnStates) /\ Len(turns) \in Nat /\ Len(turns) <= MaxTurns
      /\ ctx = [c \in Contexts |-> ctx[c]]
  BY <1>1 DEF AgentIsSound, AgentStates
<1> QED
  BY <1>2, <1>3, <1>4, <1>5

\* What rests when turns or agent do.
LEMMA TurnsRest ==
  ASSUME StreamInv, turns' = turns
  PROVE  TurnsGrow
<1>1. \A t \in 1..Len(turns) : turns[t] \in TurnStates
  BY Types
<1>2. \A t \in 1..Len(turns) : turns[t].next \in Nat
  BY <1>1 DEF TurnStates
<1> QED
  BY <1>2, Types DEF TurnsGrow

LEMMA AgentRests ==
  ASSUME StreamInv, agent' = agent
  PROVE  AgentGrows
BY Types DEF AgentGrows

LEMMA OthersRestToo ==
  ASSUME StreamInv, turns' = turns, NEW c \in Contexts, NEW h, ctx' = [ctx EXCEPT ![c] = h]
  PROVE  OthersRest(c)
BY Types DEF OthersRest, ContextIsSound, StateIsSound

\* Nothing but h, the state of c, changes in what is said of the agent.
LEMMA AgentIsSoundStill ==
  ASSUME StreamInv, UNCHANGED <<agent, turns>>, NEW c \in Contexts, NEW h, ctx' = [ctx EXCEPT ![c] = h],
         agent.entered,
         c = Owner /\ agent.status # Unknown /\ agent.open /\ h.pc \notin Emitting =>
           ctx[c].pc \notin Emitting \/ ctx[c].batch.turn # NoTurn,
         h.pc \in Emitting /\ ctx[c].pc \in Emitting => h.batch.turn = ctx[c].batch.turn,
         h.pc \in Emitting \/ c # Owner \/ ctx[c].pc \notin Emitting
  PROVE  AgentIsSound'
<1>1. AgentIsSound /\ ctx = [d \in Contexts |-> ctx[d]] /\ Owner \in Contexts
  BY StreamAssumption, Types DEF StreamInv
<1>2. ctx' = [d \in Contexts |-> ctx'[d]] /\ ctx'[c] = h /\ \A d \in Contexts \ {c} : ctx'[d] = ctx[d]
  BY <1>1
<1> QED
  BY <1>1, <1>2 DEF AgentIsSound

LEMMA EnterRunInv == ASSUME StreamInv, EnterRun PROVE StreamInv'
<1>0. PICK c \in Contexts : c = Owner
  BY StreamAssumption
<1>1. PICK h : h = Emits(c, NoTurn)
  OBVIOUS
<1>2. /\ agent' = [agent EXCEPT !.entered = TRUE, !.open = TRUE] /\ ~agent.entered
      /\ ctx' = [ctx EXCEPT ![c] = h] /\ UNCHANGED <<turns, stream, centralVars>>
  BY <1>0, <1>1 DEF EnterRun
<1>3. AgentIsSound /\ agent.status = Unknown /\ ctx[c].pc = "idle" /\ ctx[c].batch = NoBatch
  BY <1>0, <1>2, Types DEF StreamInv, AgentIsSound, ContextIsSound, StateIsSound
<1>4. PICK b : b = [ctx[c].batch EXCEPT !.turn = NoTurn]
  OBVIOUS
<1>5. b = NoBatch
  BY <1>3, <1>4, Types DEF BatchStates
<1>6. h = [ctx[c] EXCEPT !.pc = "emit", !.batch = b]
  BY <1>1, <1>4 DEF Emits
<1>7. /\ h \in ContextStates /\ h.pc = "emit" /\ h.batch = NoBatch /\ h.made = ctx[c].made
      /\ h.owns = ctx[c].owns /\ h.active = ctx[c].active /\ h.call = ctx[c].call
  BY <1>0, <1>5, <1>6, Types DEF ContextStates
<1>8. agent' \in AgentStates /\ agent'.status = agent.status /\ agent'.numbers = agent.numbers
      /\ agent'.failed = agent.failed /\ agent'.entered
  BY <1>2, Types DEF AgentStates
<1>9. /\ ctx' = [d \in Contexts |-> ctx'[d]] /\ ctx'[c] = h
  BY <1>0, <1>2, Types
<1>10. AgentIsSound'
  BY <1>2, <1>3, <1>8, <1>9, <1>7, Types DEF AgentIsSound
<1>11. TurnsGrow /\ AgentGrows /\ OthersRest(c)
  <2>1. TurnsGrow /\ OthersRest(c)
    BY <1>2, TurnsRest, OthersRestToo
  <2> QED
    BY <1>8, <2>1, Types DEF AgentGrows
<1>12. ContextIsSound(c)'
  <2>1. BatchIsSound(NoBatch)'
    BY <1>0, <1>3, <1>11, Types, BatchStays
  <2>2. BatchIsSound(ctx[c].batch)'
    BY <1>7, <1>9, <2>1 DEF BatchIsSound, HasEvent
  <2> QED
    BY <1>0, <1>2, <1>7, <1>9, <2>2, Types DEF ContextIsSound, StateIsSound, Numbering, HasEvent
<1>13. ~HasEvent(h.batch) /\ ~HasEvent(ctx[c].batch)
  BY <1>3, <1>7, Types DEF HasEvent
<1>14. Quiet(c, h)
  BY <1>3, <1>7, <1>8, <1>13, Types DEF Quiet, Takes, Numbers, Owes, Emitting, Numbering, Within
<1> QED
  BY <1>2, <1>8, <1>10, <1>11, <1>12, <1>14, ContextStep

LEMMA EmitsMeans ==
  ASSUME StreamInv, NEW c \in Contexts, NEW t \in Nat, ctx[c].batch = NoBatch,
         NEW h, h = Emits(c, t)
  PROVE  /\ h \in ContextStates /\ h.pc = "emit" /\ h.made = ctx[c].made
         /\ h.owns = ctx[c].owns /\ h.active = ctx[c].active /\ h.call = ctx[c].call
         /\ h.batch \in BatchStates /\ h.batch.run = Unknown /\ h.batch.turn = t
         /\ h.batch.status = Unknown /\ h.batch.event = NoEvent /\ ~HasEvent(h.batch)
<1>1. PICK b : b = [ctx[c].batch EXCEPT !.turn = t]
  OBVIOUS
<1>2. /\ b \in BatchStates /\ b.run = Unknown /\ b.turn = t /\ b.status = Unknown /\ b.event = NoEvent
  BY <1>1, Types DEF BatchStates, NoBatch
<1>3. h = [ctx[c] EXCEPT !.pc = "emit", !.batch = b]
  BY <1>1 DEF Emits
<1>4. /\ h \in ContextStates /\ h.pc = "emit" /\ h.batch = b /\ h.made = ctx[c].made
      /\ h.owns = ctx[c].owns /\ h.active = ctx[c].active /\ h.call = ctx[c].call
  BY <1>2, <1>3, Types DEF ContextStates
<1> QED
  BY <1>2, <1>4, Types DEF HasEvent

\* A step that changes the state of one context only.
LEMMA OneMoves ==
  ASSUME StreamInv, NEW c \in Contexts, NEW h, ctx' = [ctx EXCEPT ![c] = h],
         UNCHANGED <<agent, turns, stream, centralVars>>,
         agent.entered, StateIsSound(c, h), Quiet(c, h),
         ctx[c].pc \in Emitting => h.pc \in Emitting /\ h.batch.turn = ctx[c].batch.turn
  PROVE  StreamInv'
<1>1. ctx'[c] = h /\ \A d \in Contexts \ {c} : ctx'[d] = ctx[d]
  BY Types
<1>2. StateIsSound(c, h)'
  BY DEF StateIsSound, BatchIsSound, HasEvent
<1>3. ContextIsSound(c)'
  BY <1>1, <1>2 DEF ContextIsSound, StateIsSound, BatchIsSound, HasEvent
<1>4. AgentIsSound'
  <2>1. AgentIsSound /\ Owner \in Contexts /\ ctx' = [d \in Contexts |-> ctx'[d]]
    BY StreamAssumption, Types DEF StreamInv
  <2> QED
    BY <1>1, <2>1 DEF AgentIsSound
<1>5. TurnsGrow /\ AgentGrows /\ OthersRest(c)
  BY TurnsRest, AgentRests, OthersRestToo
<1> QED
  BY <1>3, <1>4, <1>5, ContextStep

LEMMA ExitRunInv == ASSUME StreamInv, NEW status \in Terminal, ExitRun(status) PROVE StreamInv'
<1>0. PICK c \in Contexts : c = Owner
  BY StreamAssumption
<1>1. PICK h : h = Emits(c, NoTurn)
  OBVIOUS
<1>2. /\ agent' = [agent EXCEPT !.status = status] /\ agent.entered /\ agent.open
      /\ ctx[c].pc = "idle" /\ ctx[c].active = NoTurn
      /\ ctx' = [ctx EXCEPT ![c] = h] /\ UNCHANGED <<turns, stream, centralVars>>
  BY <1>0, <1>1 DEF ExitRun, Free, At
<1>3. AgentIsSound /\ agent.status = Unknown /\ ctx[c].batch = NoBatch
  BY <1>0, <1>2, Types DEF StreamInv, AgentIsSound, ContextIsSound, StateIsSound, Emitting
<1>4. NoTurn \in Nat
  BY DEF NoTurn
<1>5. /\ h \in ContextStates /\ h.pc = "emit" /\ h.made = ctx[c].made
      /\ h.owns = ctx[c].owns /\ h.active = ctx[c].active /\ h.call = ctx[c].call
      /\ h.batch \in BatchStates /\ h.batch.run = Unknown /\ h.batch.turn = NoTurn
      /\ h.batch.status = Unknown /\ h.batch.event = NoEvent /\ ~HasEvent(h.batch)
  BY <1>1, <1>3, <1>4, EmitsMeans
<1>6. /\ agent' \in AgentStates /\ agent'.numbers = agent.numbers
      /\ agent'.failed = agent.failed /\ agent'.entered
  BY <1>2, Types DEF AgentStates, Statuses
<1>7. ctx' = [d \in Contexts |-> ctx'[d]] /\ ctx'[c] = h
  BY <1>2, Types
<1>8. AgentIsSound'
  BY <1>0, <1>2, <1>3, <1>5, <1>6, <1>7, Types DEF AgentIsSound, Emitting
<1>9. TurnsGrow /\ AgentGrows /\ OthersRest(c)
  <2>1. TurnsGrow /\ OthersRest(c)
    BY <1>2, TurnsRest, OthersRestToo
  <2> QED
    BY <1>3, <1>6, <2>1, Types DEF AgentGrows
<1>10. ContextIsSound(c)'
  <2>1. BatchIsSound(ctx[c].batch)'
    BY <1>2, <1>5, <1>7, Types DEF BatchIsSound, HasEvent, NoTurn
  <2>2. HasEvent(ctx[c].batch)' <=> HasEvent(h.batch)
    BY <1>7 DEF HasEvent
  <2> QED
    BY <1>2, <1>5, <1>7, <2>1, <2>2, Types DEF ContextIsSound, StateIsSound, Numbering, NoTurn
<1>11. Quiet(c, h)
  BY <1>2, <1>3, <1>5, <1>6, Types DEF Quiet, Takes, Numbers, Owes, Emitting, Numbering, Within, HasEvent
<1> QED
  BY <1>2, <1>6, <1>8, <1>9, <1>10, <1>11, ContextStep

LEMMA AskTurnInv == ASSUME StreamInv, NEW c \in Contexts, AskTurn(c) PROVE StreamInv'
<1>1. PICK h : h = [ctx[c] EXCEPT !.pc = "turn"]
  OBVIOUS
<1>2. /\ agent.entered /\ ctx[c].pc = "idle" /\ ctx[c].active = NoTurn
      /\ ctx' = [ctx EXCEPT ![c] = h] /\ UNCHANGED <<agent, turns, stream, centralVars>>
  BY <1>1 DEF AskTurn, Free, At
<1>3. /\ h \in ContextStates /\ h.pc = "turn" /\ h.batch = ctx[c].batch /\ h.made = ctx[c].made
      /\ h.owns = ctx[c].owns /\ h.active = ctx[c].active /\ h.call = ctx[c].call
  BY <1>1, Types DEF ContextStates
<1>4. StateIsSound(c, h)
  BY <1>2, <1>3, Types DEF ContextIsSound, StateIsSound, Numbering
<1>5. Quiet(c, h)
  BY <1>2, <1>3, Types DEF Quiet, Takes, Numbers, Owes, Emitting, Numbering, Within
<1> QED
  BY <1>2, <1>4, <1>5, OneMoves DEF Emitting

\* Who numbers an event has its turn, and its lock once he has read the next number.
LEMMA NumberingMeans ==
  ASSUME StreamInv
  PROVE  \A c \in Contexts : ctx[c].pc \in Numbering =>
           /\ HasEvent(ctx[c].batch) /\ ctx[c].batch.turn \in 1..Len(turns)
           /\ ctx[c].batch.event.turn = ctx[c].batch.turn
           /\ ctx[c].batch.event.by = c /\ ctx[c].batch.event.nth = ctx[c].made
           /\ ctx[c].pc = "numbering" =>
                /\ turns[ctx[c].batch.turn].locked
                /\ ctx[c].batch.event.seq = turns[ctx[c].batch.turn].next
<1> SUFFICES ASSUME NEW c \in Contexts, ctx[c].pc \in Numbering
             PROVE  /\ HasEvent(ctx[c].batch) /\ ctx[c].batch.turn \in 1..Len(turns)
                    /\ ctx[c].batch.event.turn = ctx[c].batch.turn
                    /\ ctx[c].batch.event.by = c /\ ctx[c].batch.event.nth = ctx[c].made
                    /\ ctx[c].pc = "numbering" =>
                         /\ turns[ctx[c].batch.turn].locked
                         /\ ctx[c].batch.event.seq = turns[ctx[c].batch.turn].next
  OBVIOUS
<1>1. ContextIsSound(c) /\ BatchIsSound(ctx[c].batch) /\ Len(turns) \in Nat
  BY Types
<1>2. HasEvent(ctx[c].batch)
  BY <1>1 DEF ContextIsSound, StateIsSound
<1>3. ctx[c].batch.turn \in 0..Len(turns) /\ ctx[c].batch.turn # 0
      /\ ctx[c].batch.event.turn = ctx[c].batch.turn
  BY <1>1, <1>2 DEF BatchIsSound, NoTurn
<1> QED
  BY <1>1, <1>2, <1>3 DEF ContextIsSound, StateIsSound, Numbering

LEMMA EnterTurnInv == ASSUME StreamInv, NEW c \in Contexts, EnterTurn(c) PROVE StreamInv'
<1>1. PICK n : n = Len(turns) + 1
  OBVIOUS
<1>2. PICK g : g = Emits(c, n)
  OBVIOUS
<1>3. PICK h : h = [g EXCEPT !.active = n, !.owns = TRUE]
  OBVIOUS
<1>4. PICK new : new = [status |-> Unknown, next |-> 0, locked |-> FALSE]
  OBVIOUS
<1>5. /\ ctx[c].pc = "turn" /\ Len(turns) < MaxTurns /\ turns' = Append(turns, new)
      /\ ctx' = [ctx EXCEPT ![c] = h] /\ UNCHANGED <<agent, stream, centralVars>>
  BY <1>1, <1>2, <1>3, <1>4 DEF EnterTurn, At
<1>6. ctx[c].batch = NoBatch /\ n \in Nat /\ n # NoTurn /\ AgentIsSound
  BY <1>1, <1>5, Types DEF ContextIsSound, StateIsSound, NoTurn, StreamInv
<1>7. /\ g \in ContextStates /\ g.pc = "emit" /\ g.made = ctx[c].made
      /\ g.owns = ctx[c].owns /\ g.active = ctx[c].active /\ g.call = ctx[c].call
      /\ g.batch \in BatchStates /\ g.batch.run = Unknown /\ g.batch.turn = n
      /\ g.batch.status = Unknown /\ g.batch.event = NoEvent /\ ~HasEvent(g.batch)
  BY <1>2, <1>6, EmitsMeans
<1>8. /\ h \in ContextStates /\ h.pc = "emit" /\ h.made = ctx[c].made
      /\ h.owns = TRUE /\ h.active = n /\ h.call = ctx[c].call /\ h.batch = g.batch
  BY <1>3, <1>6, <1>7 DEF ContextStates
<1>a. new \in TurnStates /\ new.status = Unknown
  BY <1>4 DEF TurnStates, Statuses
<1>9. /\ turns' \in Seq(TurnStates) /\ Len(turns') = n /\ turns'[n] = new
      /\ \A t \in 1..Len(turns) : turns'[t] = turns[t] /\ turns[t] \in TurnStates
  BY <1>1, <1>5, <1>a, Types
<1>10. TurnsGrow
  <2>1. \A t \in 1..Len(turns) : turns[t].next \in Nat
    BY <1>9 DEF TurnStates
  <2> QED
    BY <1>1, <1>9, <2>1, Types DEF TurnsGrow
<1>11. OthersRest(c)
  <2> SUFFICES ASSUME NEW d \in Contexts \ {c}
               PROVE  /\ ctx'[d] = ctx[d]
                      /\ ctx[d].owns => turns'[ctx[d].active].status = Unknown
                      /\ ctx[d].pc = "numbering" =>
                           /\ turns'[ctx[d].batch.turn].locked
                           /\ turns'[ctx[d].batch.turn].next = turns[ctx[d].batch.turn].next
    BY DEF OthersRest
  <2>1. ctx'[d] = ctx[d]
    BY <1>5, Types
  <2>2. ctx[d].owns => ctx[d].active \in 1..Len(turns) /\ turns[ctx[d].active].status = Unknown
    BY Types DEF ContextIsSound, StateIsSound, NoTurn
  <2>3. ctx[d].pc = "numbering" =>
          ctx[d].batch.turn \in 1..Len(turns) /\ turns[ctx[d].batch.turn].locked
    BY NumberingMeans DEF Numbering
  <2> QED
    BY <1>9, <1>a, <2>1, <2>2, <2>3
<1>12. ctx' = [d \in Contexts |-> ctx'[d]] /\ ctx'[c] = h /\ \A d \in Contexts \ {c} : ctx'[d] = ctx[d]
  BY <1>5, Types
<1>13. AgentIsSound'
  BY <1>1, <1>5, <1>6, <1>9, <1>12, StreamAssumption, Types DEF AgentIsSound, Emitting
<1>14. ContextIsSound(c)'
  <2>1. BatchIsSound(ctx[c].batch)'
    BY <1>6, <1>7, <1>8, <1>9, <1>a, <1>12, Types DEF BatchIsSound, HasEvent, Statuses
  <2>2. HasEvent(ctx[c].batch)' <=> HasEvent(g.batch)
    BY <1>8, <1>12 DEF HasEvent
  <2>3. ctx[c].call \in 0..Len(turns')
    BY <1>1, <1>9, Types DEF ContextIsSound, StateIsSound
  <2> QED
    BY <1>6, <1>7, <1>8, <1>9, <1>a, <1>12, <2>1, <2>2, <2>3 DEF ContextIsSound, StateIsSound, Numbering
<1>15. AgentGrows
  BY <1>5, AgentRests
<1>16. Quiet(c, h)
  BY <1>1, <1>5, <1>6, <1>7, <1>8, Types DEF Quiet, Takes, Numbers, Owes, Emitting, Numbering, Within, HasEvent
<1> QED
  BY <1>5, <1>10, <1>11, <1>13, <1>14, <1>15, <1>16, ContextStep

LEMMA ExitTurnInv ==
  ASSUME StreamInv, NEW c \in Contexts, NEW status \in Terminal, ExitTurn(c, status)
  PROVE  StreamInv'
<1>1. PICK n : n = ctx[c].active
  OBVIOUS
<1>2. PICK g : g = Emits(c, n)
  OBVIOUS
<1>3. PICK h : h = [g EXCEPT !.active = NoTurn, !.owns = FALSE]
  OBVIOUS
<1>4. PICK new : new = [turns[n] EXCEPT !.status = status]
  OBVIOUS
<1>5. /\ ctx[c].pc = "idle" /\ agent.entered /\ ctx[c].owns /\ turns' = [turns EXCEPT ![n] = new]
      /\ ctx' = [ctx EXCEPT ![c] = h] /\ UNCHANGED <<agent, stream, centralVars>>
  BY <1>1, <1>2, <1>3, <1>4 DEF ExitTurn, Free, At
<1>6. /\ ctx[c].batch = NoBatch /\ n \in 1..Len(turns) /\ n \in Nat /\ n # NoTurn /\ AgentIsSound
      /\ turns[n].status = Unknown /\ TurnsAreOwned
  BY <1>1, <1>5, Types DEF ContextIsSound, StateIsSound, NoTurn, StreamInv
<1>7. /\ g \in ContextStates /\ g.pc = "emit" /\ g.made = ctx[c].made
      /\ g.owns = ctx[c].owns /\ g.active = ctx[c].active /\ g.call = ctx[c].call
      /\ g.batch \in BatchStates /\ g.batch.run = Unknown /\ g.batch.turn = n
      /\ g.batch.status = Unknown /\ g.batch.event = NoEvent /\ ~HasEvent(g.batch)
  BY <1>2, <1>6, EmitsMeans
<1>8. /\ h \in ContextStates /\ h.pc = "emit" /\ h.made = ctx[c].made
      /\ h.owns = FALSE /\ h.active = NoTurn /\ h.call = ctx[c].call /\ h.batch = g.batch
  BY <1>3, <1>6, <1>7 DEF ContextStates, NoTurn
<1>9. /\ \A t \in 1..Len(turns) : turns[t] \in TurnStates
      /\ new \in TurnStates /\ new.status = status /\ new.next = turns[n].next /\ new.locked = turns[n].locked
  <2>1. \A t \in 1..Len(turns) : turns[t] \in TurnStates
    BY Types
  <2> QED
    BY <1>4, <1>6, <2>1 DEF TurnStates, Statuses
<1>10. /\ turns' \in Seq(TurnStates) /\ Len(turns') = Len(turns) /\ turns'[n] = new
       /\ \A t \in 1..Len(turns) : t # n => turns'[t] = turns[t]
  BY <1>5, <1>6, <1>9, Types
<1>11. TurnsGrow
  <2>1. \A t \in 1..Len(turns) : turns[t].next \in Nat
    BY <1>9 DEF TurnStates
  <2> QED
    BY <1>6, <1>9, <1>10, <2>1, Types DEF TurnsGrow
<1>12. OthersRest(c)
  <2> SUFFICES ASSUME NEW d \in Contexts \ {c}
               PROVE  /\ ctx'[d] = ctx[d]
                      /\ ctx[d].owns => turns'[ctx[d].active].status = Unknown
                      /\ ctx[d].pc = "numbering" =>
                           /\ turns'[ctx[d].batch.turn].locked
                           /\ turns'[ctx[d].batch.turn].next = turns[ctx[d].batch.turn].next
    BY DEF OthersRest
  <2>1. ctx'[d] = ctx[d]
    BY <1>5, Types
  <2>2. ctx[d].owns => /\ ctx[d].active \in 1..Len(turns) /\ turns[ctx[d].active].status = Unknown
                       /\ ctx[d].active # n
    BY <1>1, <1>5, <1>6, Types DEF ContextIsSound, StateIsSound, NoTurn, TurnsAreOwned
  <2>3. ctx[d].pc = "numbering" =>
          ctx[d].batch.turn \in 1..Len(turns) /\ turns[ctx[d].batch.turn].locked
    BY NumberingMeans DEF Numbering
  <2> QED
    BY <1>9, <1>10, <2>1, <2>2, <2>3
<1>13. ctx' = [d \in Contexts |-> ctx'[d]] /\ ctx'[c] = h /\ \A d \in Contexts \ {c} : ctx'[d] = ctx[d]
  BY <1>5, Types
<1>14. AgentIsSound'
  BY <1>5, <1>6, <1>10, <1>13, Types DEF AgentIsSound, Emitting
<1>15. ContextIsSound(c)'
  <2>1. BatchIsSound(ctx[c].batch)'
    BY <1>6, <1>7, <1>8, <1>10, <1>13, Types DEF BatchIsSound, HasEvent, Statuses
  <2>2. HasEvent(ctx[c].batch)' <=> HasEvent(g.batch)
    BY <1>8, <1>13 DEF HasEvent
  <2>3. ctx[c].call \in 0..Len(turns')
    BY <1>10, Types DEF ContextIsSound, StateIsSound
  <2> QED
    BY <1>6, <1>7, <1>8, <1>10, <1>13, <2>1, <2>2, <2>3, Types
       DEF ContextIsSound, StateIsSound, Numbering, NoTurn
<1>16. AgentGrows
  BY <1>5, AgentRests
<1>17. Quiet(c, h)
  BY <1>5, <1>6, <1>7, <1>8, Types DEF Quiet, Takes, Numbers, Owes, Emitting, Numbering, Within, HasEvent
<1> QED
  BY <1>5, <1>11, <1>12, <1>14, <1>15, <1>16, <1>17, ContextStep

LEMMA InheritInv ==
  ASSUME StreamInv, NEW c \in Contexts, NEW d \in Contexts, Inherit(c, d)
  PROVE  StreamInv'
<1>1. PICK h : h = [ctx[c] EXCEPT !.active = ctx[d].active]
  OBVIOUS
<1>2. /\ agent.entered /\ ctx[c].pc = "idle" /\ ctx[c].active = NoTurn
      /\ ctx' = [ctx EXCEPT ![c] = h] /\ UNCHANGED <<agent, turns, stream, centralVars>>
  BY <1>1 DEF Inherit, Free, At
<1>3. ctx[d].active \in 0..Len(turns) /\ ~ctx[c].owns
  BY <1>2, Types DEF ContextIsSound, StateIsSound
<1>4. /\ h \in ContextStates /\ h.pc = "idle" /\ h.batch = ctx[c].batch /\ h.made = ctx[c].made
      /\ h.owns = ctx[c].owns /\ h.active = ctx[d].active /\ h.call = ctx[c].call
  BY <1>1, <1>2, <1>3, Types DEF ContextStates
<1>5. StateIsSound(c, h)
  BY <1>2, <1>3, <1>4, Types DEF ContextIsSound, StateIsSound, Numbering
<1>6. Quiet(c, h)
  BY <1>2, <1>3, <1>4, Types DEF Quiet, Takes, Numbers, Owes, Emitting, Numbering, Within
<1> QED
  BY <1>2, <1>5, <1>6, OneMoves DEF Emitting

LEMMA StartCallInv == ASSUME StreamInv, NEW c \in Contexts, StartCall(c) PROVE StreamInv'
<1>1. PICK h : h = [ctx[c] EXCEPT !.call = ctx[c].active]
  OBVIOUS
<1>2. /\ agent.entered /\ ctx[c].pc = "idle"
      /\ ctx' = [ctx EXCEPT ![c] = h] /\ UNCHANGED <<agent, turns, stream, centralVars>>
  BY <1>1 DEF StartCall, Free, At
<1>3. ctx[c].active \in 0..Len(turns)
  BY Types DEF ContextIsSound, StateIsSound
<1>4. /\ h \in ContextStates /\ h.pc = "idle" /\ h.batch = ctx[c].batch /\ h.made = ctx[c].made
      /\ h.owns = ctx[c].owns /\ h.active = ctx[c].active /\ h.call = ctx[c].active
  BY <1>1, <1>2, <1>3, Types DEF ContextStates
<1>5. StateIsSound(c, h)
  BY <1>2, <1>3, <1>4, Types DEF ContextIsSound, StateIsSound, Numbering
<1>6. Quiet(c, h)
  BY <1>2, <1>3, <1>4, Types DEF Quiet, Takes, Numbers, Owes, Emitting, Numbering, Within
<1> QED
  BY <1>2, <1>5, <1>6, OneMoves DEF Emitting

\* An event of turn t is made.
LEMMA MakesInv ==
  ASSUME StreamInv, NEW c \in Contexts, NEW t \in 1..Len(turns), NEW n \in 0..Len(turns), Makes(c, t, n)
  PROVE  StreamInv'
<1>1. PICK m : m = ctx[c].made + 1
  OBVIOUS
<1>2. PICK e : e = [NoEvent EXCEPT !.by = c, !.nth = m, !.turn = t]
  OBVIOUS
<1>3. PICK b : b = [NoBatch EXCEPT !.turn = t, !.event = e]
  OBVIOUS
<1>4. PICK h : h = [ctx[c] EXCEPT !.pc = "number", !.made = m, !.call = n, !.batch = b]
  OBVIOUS
<1>5. /\ ctx[c].pc = "idle" /\ agent.entered
      /\ ctx' = [ctx EXCEPT ![c] = h] /\ UNCHANGED <<agent, turns, stream, centralVars>>
  BY <1>1, <1>2, <1>3, <1>4 DEF Makes, Free, At
<1>6. ctx[c].batch = NoBatch /\ m \in Nat /\ m # 0 /\ t \in Nat /\ t # NoTurn /\ n \in Nat
  BY <1>1, <1>5, Types DEF ContextIsSound, StateIsSound, NoTurn
<1>7. e \in EventStates /\ e.by = c /\ e.nth = m /\ e.turn = t
  BY <1>2, <1>6, Types DEF EventStates
<1>8. /\ b \in BatchStates /\ b.turn = t /\ b.event = e /\ b.run = Unknown /\ b.status = Unknown
  BY <1>3, <1>6, <1>7, Types DEF BatchStates, NoBatch
<1>9. /\ h \in ContextStates /\ h.pc = "number" /\ h.batch = b /\ h.made = m
      /\ h.owns = ctx[c].owns /\ h.active = ctx[c].active /\ h.call = n
  BY <1>4, <1>6, <1>8, Types DEF ContextStates
<1>10. BatchIsSound(b) /\ HasEvent(b)
  BY <1>6, <1>7, <1>8, Types DEF BatchIsSound, HasEvent
<1>11. StateIsSound(c, h)
  BY <1>5, <1>6, <1>7, <1>8, <1>9, <1>10, Types DEF ContextIsSound, StateIsSound, Numbering
<1>12. Quiet(c, h)
  BY <1>1, <1>5, <1>6, <1>7, <1>8, <1>9, <1>10, Types DEF Quiet, Takes, Numbers, Owes, Emitting, Numbering, Within, HasEvent
<1> QED
  BY <1>5, <1>11, <1>12, OneMoves DEF Emitting

LEMMA RecordInv == ASSUME StreamInv, NEW c \in Contexts, Record(c) \/ FinishCall(c) PROVE StreamInv'
<1>1. ctx[c].active \in 0..Len(turns) /\ ctx[c].call \in 0..Len(turns) /\ NoTurn \in 0..Len(turns)
  BY Types DEF ContextIsSound, StateIsSound, NoTurn
<1>2. CASE Record(c)
  <2>1. ctx[c].active \in 1..Len(turns) /\ Makes(c, ctx[c].active, ctx[c].call)
    BY <1>1, <1>2, Types DEF Record, NoTurn
  <2> QED
    BY <1>1, <2>1, MakesInv
<1>3. CASE FinishCall(c)
  <2>1. ctx[c].call \in 1..Len(turns) /\ Makes(c, ctx[c].call, NoTurn)
    BY <1>1, <1>3, Types DEF FinishCall, NoTurn
  <2> QED
    BY <1>1, <2>1, MakesInv
<1> QED
  BY <1>2, <1>3

\* The number of a turn is read by one context at a time: its lock is taken.
LEMMA ReadSequenceInv == ASSUME StreamInv, NEW c \in Contexts, ReadSequence(c) PROVE StreamInv'
<1>1. PICK t : t = ctx[c].batch.turn
  OBVIOUS
<1>2. PICK n : n = turns[t].next
  OBVIOUS
<1>3. PICK e : e = [ctx[c].batch.event EXCEPT !.seq = n]
  OBVIOUS
<1>4. PICK b : b = [ctx[c].batch EXCEPT !.event = e]
  OBVIOUS
<1>5. PICK h : h = [ctx[c] EXCEPT !.pc = "numbering", !.batch = b]
  OBVIOUS
<1>6. PICK new : new = [turns[t] EXCEPT !.locked = TRUE]
  OBVIOUS
<1>7. /\ ctx[c].pc = "number" /\ ~turns[t].locked /\ turns' = [turns EXCEPT ![t] = new]
      /\ UNCHANGED <<agent, stream, centralVars>>
  BY <1>1, <1>6 DEF ReadSequence, At
<1>8. ctx' = [ctx EXCEPT ![c] = h]
  BY <1>1, <1>2, <1>3, <1>4, <1>5 DEF ReadSequence
<1>9. /\ t \in 1..Len(turns) /\ HasEvent(ctx[c].batch) /\ ctx[c].batch.event.turn = t
      /\ ctx[c].batch.event.by = c /\ ctx[c].batch.event.nth = ctx[c].made
  BY <1>1, <1>7, NumberingMeans DEF Numbering
<1>10. \A u \in 1..Len(turns) : turns[u] \in TurnStates /\ turns[u].next \in Nat
  <2>1. \A u \in 1..Len(turns) : turns[u] \in TurnStates
    BY Types
  <2> QED
    BY <2>1 DEF TurnStates
<1>11. /\ e \in EventStates /\ e.by = c /\ e.nth = ctx[c].made /\ e.turn = t /\ e.seq = n
  BY <1>2, <1>3, <1>9, <1>10, Types DEF EventStates
<1>12. /\ b \in BatchStates /\ b.turn = t /\ b.event = e
       /\ b.run = ctx[c].batch.run /\ b.status = ctx[c].batch.status
  BY <1>1, <1>4, <1>11, Types DEF BatchStates
<1>13. /\ h \in ContextStates /\ h.pc = "numbering" /\ h.made = ctx[c].made /\ h.batch = b
       /\ h.owns = ctx[c].owns /\ h.active = ctx[c].active /\ h.call = ctx[c].call
  BY <1>5, <1>12, Types DEF ContextStates
<1>14. new \in TurnStates /\ new.locked /\ new.next = n /\ new.status = turns[t].status
  BY <1>2, <1>6, <1>9, <1>10 DEF TurnStates
<1>15. /\ turns' \in Seq(TurnStates) /\ Len(turns') = Len(turns) /\ turns'[t] = new
       /\ \A u \in 1..Len(turns) : u # t => turns'[u] = turns[u]
  BY <1>7, <1>9, <1>14, Types
<1>16. TurnsGrow
  BY <1>2, <1>10, <1>14, <1>15, Types DEF TurnsGrow
<1>17. ctx' = [d \in Contexts |-> ctx'[d]] /\ ctx'[c] = h /\ \A d \in Contexts \ {c} : ctx'[d] = ctx[d]
  BY <1>8, Types
<1>18. \A d \in Contexts \ {c} : ctx[d].pc = "numbering" =>
         ctx[d].batch.turn \in 1..Len(turns) /\ ctx[d].batch.turn # t /\ turns[ctx[d].batch.turn].locked
  BY <1>7, NumberingMeans DEF Numbering
<1>19. OthersRest(c)
  <2>1. \A d \in Contexts \ {c} :
          ctx[d].owns => ctx[d].active \in 1..Len(turns) /\ turns[ctx[d].active].status = Unknown
    BY Types DEF ContextIsSound, StateIsSound, NoTurn
  <2> QED
    BY <1>14, <1>15, <1>17, <1>18, <2>1 DEF OthersRest
<1>20. AgentIsSound'
  <2>1. AgentIsSound
    BY DEF StreamInv
  <2> QED
    BY <1>7, <1>13, <1>15, <1>17, <2>1, StreamAssumption, Types DEF AgentIsSound, Emitting
<1>21. ContextIsSound(c)'
  <2>1. BatchIsSound(ctx[c].batch)
    BY Types
  <2>2. BatchIsSound(ctx[c].batch)'
    BY <1>7, <1>1, <1>9, <1>11, <1>12, <1>13, <1>14, <1>15, <1>17, <2>1 DEF BatchIsSound, HasEvent
  <2>3. HasEvent(ctx[c].batch)'
    BY <1>9, <1>11, <1>12, <1>13, <1>17 DEF HasEvent
  <2>4. h.owns => h.active # NoTurn /\ turns'[h.active].status = Unknown
    <3>1. h.owns => h.active \in 1..Len(turns) /\ turns[h.active].status = Unknown
      <4>1. ContextIsSound(c)
        BY Types
      <4> QED
        BY <1>13, <4>1, Types DEF ContextIsSound, StateIsSound, NoTurn
    <3> QED
      BY <1>14, <1>15, <3>1 DEF NoTurn
  <2> QED
    BY <1>2, <1>11, <1>12, <1>13, <1>14, <1>15, <1>17, <2>2, <2>3, <2>4, Types
       DEF ContextIsSound, StateIsSound, Numbering
<1>22. AgentGrows
  BY <1>7, AgentRests
<1>23. Quiet(c, h)
  <2>1. HasEvent(h.batch)
    BY <1>9, <1>11, <1>12, <1>13 DEF HasEvent
  <2> QED
    BY <1>7, <1>9, <1>12, <1>13, <1>18, <2>1, Types DEF Quiet, Takes, Numbers, Owes, Emitting, Numbering, Within
<1> QED
  BY <1>7, <1>8, <1>16, <1>19, <1>20, <1>21, <1>22, <1>23, ContextStep

\* An emission ends: the run is closed with its own.
LEMMA EmittedInv ==
  ASSUME StreamInv, NEW c \in Contexts, ctx[c].pc \in Emitting, NEW fails \in BOOLEAN,
         agent' = [agent EXCEPT !.failed = fails, !.open = @ /\ ~Closing(c)],
         agent.failed => fails, fails, ctx' = Emitted(c), UNCHANGED <<turns, stream, centralVars>>
  PROVE  StreamInv'
<1>1. PICK h : h = [ctx[c] EXCEPT !.pc = "idle", !.batch = NoBatch]
  OBVIOUS
<1>2. ctx' = [ctx EXCEPT ![c] = h]
  BY <1>1 DEF Emitted
<1>3. /\ h \in ContextStates /\ h.pc = "idle" /\ h.made = ctx[c].made /\ h.batch = NoBatch
      /\ h.owns = ctx[c].owns /\ h.active = ctx[c].active /\ h.call = ctx[c].call
  BY <1>1, Types DEF ContextStates
<1>4. PICK open \in BOOLEAN : open <=> agent.open /\ ~Closing(c)
  OBVIOUS
<1>5. /\ agent' \in AgentStates /\ agent'.numbers = agent.numbers /\ agent'.entered = agent.entered
      /\ agent'.status = agent.status /\ agent'.failed = fails /\ (agent'.open <=> open)
  BY <1>4, Types DEF AgentStates
<1>6. ctx' = [d \in Contexts |-> ctx'[d]] /\ ctx'[c] = h /\ \A d \in Contexts \ {c} : ctx'[d] = ctx[d]
  BY <1>2, Types
<1>7. AgentIsSound'
  <2>1. AgentIsSound
    BY DEF StreamInv
  <2>2. agent.entered
    BY <2>1 DEF AgentIsSound, Emitting
  <2> QED
    BY <1>3, <1>4, <1>5, <1>6, <2>1, <2>2, StreamAssumption DEF AgentIsSound, Closing
<1>8. TurnsGrow /\ AgentGrows /\ OthersRest(c)
  <2>1. TurnsGrow /\ OthersRest(c)
    BY <1>2, TurnsRest, OthersRestToo
  <2> QED
    BY <1>5, <2>1, Types DEF AgentGrows
<1>9. ~HasEvent(h.batch)
  BY <1>3, Types DEF HasEvent
<1>10. ContextIsSound(c)'
  <2>1. BatchIsSound(ctx[c].batch)' /\ ~HasEvent(ctx[c].batch)'
    <3>1. NoBatch.run = Unknown /\ 0 \in 0..Len(turns)
      BY Types DEF NoBatch
    <3> QED
      BY <1>3, <1>6, <3>1, Types DEF BatchIsSound, HasEvent, NoTurn
  <2> QED
    BY <1>3, <1>6, <2>1, Types DEF ContextIsSound, StateIsSound, Numbering
<1>11. Quiet(c, h)
  BY <1>3, <1>5, <1>9, Types DEF Quiet, Takes, Numbers, Owes, Emitting, Numbering
<1> QED
  BY <1>2, <1>5, <1>7, <1>8, <1>10, <1>11, ContextStep

LEMMA LatchInv == ASSUME StreamInv, NEW c \in Contexts, Latch(c) PROVE StreamInv'
BY EmittedInv DEF Latch, At, Emitting

LEMMA CheckFailedInv == ASSUME StreamInv, NEW c \in Contexts, CheckFailed(c) PROVE StreamInv'
<1>1. ctx[c].pc = "emit" /\ UNCHANGED <<turns, stream, centralVars>>
  BY DEF CheckFailed, At
<1>2. CASE agent.failed
  <2>1. ctx' = Emitted(c) /\ agent' = [agent EXCEPT !.open = @ /\ ~Closing(c)]
    BY <1>2 DEF CheckFailed
  <2>2. agent' = [agent EXCEPT !.failed = TRUE, !.open = @ /\ ~Closing(c)]
    BY <1>2, <2>1, Types DEF AgentStates
  <2> QED
    BY <1>1, <1>2, <2>1, <2>2, EmittedInv DEF Emitting
<1>3. CASE ~agent.failed
  <2>1. PICK now : now = IF ctx[c].batch.turn = NoTurn THEN Unknown ELSE turns[ctx[c].batch.turn].status
    OBVIOUS
  <2>2. PICK b : b = [ctx[c].batch EXCEPT !.status = now]
    OBVIOUS
  <2>3. PICK h : h = [ctx[c] EXCEPT !.pc = "build", !.batch = b]
    OBVIOUS
  <2>4. ctx' = [ctx EXCEPT ![c] = h] /\ UNCHANGED agent
    BY <1>3, <2>1, <2>2, <2>3 DEF CheckFailed
  <2>5. ctx[c].batch.turn \in 0..Len(turns) /\ BatchIsSound(ctx[c].batch)
    BY Types DEF BatchIsSound
  <2>6. now \in Statuses
    <3>1. ctx[c].batch.turn # NoTurn => turns[ctx[c].batch.turn] \in TurnStates
      BY <2>5, Types DEF NoTurn
    <3> QED
      BY <2>1, <3>1 DEF TurnStates, Statuses
  <2>7. /\ b \in BatchStates /\ b.status = now /\ b.turn = ctx[c].batch.turn
        /\ b.run = ctx[c].batch.run /\ b.event = ctx[c].batch.event
    BY <2>2, <2>6, Types DEF BatchStates
  <2>8. /\ h \in ContextStates /\ h.pc = "build" /\ h.made = ctx[c].made /\ h.batch = b
        /\ h.owns = ctx[c].owns /\ h.active = ctx[c].active /\ h.call = ctx[c].call
    BY <2>3, <2>7, Types DEF ContextStates
  <2>9. BatchIsSound(b) /\ (HasEvent(b) <=> HasEvent(ctx[c].batch))
    BY <2>1, <2>5, <2>7 DEF BatchIsSound, HasEvent
  <2>10. StateIsSound(c, h)
    BY <1>1, <2>7, <2>8, <2>9, Types DEF ContextIsSound, StateIsSound, Numbering
  <2>11. Quiet(c, h)
    BY <1>1, <1>3, <2>4, <2>7, <2>8, <2>9, Types DEF Quiet, Takes, Numbers, Owes, Emitting, Numbering, Within
  <2>12. agent.entered
    BY <1>1 DEF StreamInv, AgentIsSound
  <2> QED
    BY <1>1, <2>4, <2>7, <2>8, <2>10, <2>11, <2>12, OneMoves DEF Emitting
<1> QED
  BY <1>2, <1>3

LEMMA BuildBatchInv == ASSUME StreamInv, NEW c \in Contexts, BuildBatch(c) PROVE StreamInv'
<1>1. ctx[c].pc = "build" /\ UNCHANGED <<agent, turns, stream, centralVars>>
  BY DEF BuildBatch, At
<1>2. PICK b : b = [ctx[c].batch EXCEPT !.run = agent.status]
  OBVIOUS
<1>3. PICK h : h = [ctx[c] EXCEPT !.pc = "sink", !.batch = b]
  OBVIOUS
<1>4. ctx' = [ctx EXCEPT ![c] = h]
  BY <1>2, <1>3 DEF BuildBatch
<1>5. /\ b \in BatchStates /\ b.run = agent.status /\ b.turn = ctx[c].batch.turn
      /\ b.status = ctx[c].batch.status /\ b.event = ctx[c].batch.event
  BY <1>2, Types DEF BatchStates
<1>6. /\ h \in ContextStates /\ h.pc = "sink" /\ h.made = ctx[c].made /\ h.batch = b
      /\ h.owns = ctx[c].owns /\ h.active = ctx[c].active /\ h.call = ctx[c].call
  BY <1>3, <1>5, Types DEF ContextStates
<1>7. BatchIsSound(b) /\ (HasEvent(b) <=> HasEvent(ctx[c].batch))
  BY <1>5, Types DEF BatchIsSound, HasEvent
<1>8. StateIsSound(c, h)
  BY <1>1, <1>5, <1>6, <1>7, Types DEF ContextIsSound, StateIsSound, Numbering
<1>9. Quiet(c, h)
  BY <1>1, <1>4, <1>5, <1>6, <1>7, Types DEF Quiet, Takes, Numbers, Owes, Emitting, Numbering, Within
<1>10. agent.entered
  BY <1>1 DEF StreamInv, AgentIsSound
<1> QED
  BY <1>1, <1>4, <1>5, <1>6, <1>8, <1>9, <1>10, OneMoves DEF Emitting

---------------------------------------------------------------------------
\* An event gets its numbers.

LEMMA TakeNumberInv == ASSUME StreamInv, NEW c \in Contexts, TakeNumber(c) PROVE StreamInv'
<1>1. PICK t : t = ctx[c].batch.turn
  OBVIOUS
<1>2. PICK n : n = agent.numbers
  OBVIOUS
<1>3. PICK e : e = [ctx[c].batch.event EXCEPT !.num = n]
  OBVIOUS
<1>4. PICK b : b = [ctx[c].batch EXCEPT !.event = e]
  OBVIOUS
<1>5. PICK h : h = [ctx[c] EXCEPT !.pc = "emit", !.batch = b]
  OBVIOUS
<1>6. PICK m : m = ctx[c].batch.event.seq + 1
  OBVIOUS
<1>7. PICK new : new = [turns[t] EXCEPT !.next = m, !.locked = FALSE]
  OBVIOUS
<1>8. /\ ctx[c].pc = "numbering" /\ agent' = [agent EXCEPT !.numbers = n + 1]
      /\ turns' = [turns EXCEPT ![t] = new] /\ UNCHANGED <<stream, centralVars>>
  BY <1>1, <1>2, <1>6, <1>7 DEF TakeNumber, At
<1>9. ctx' = [ctx EXCEPT ![c] = h]
  BY <1>1, <1>2, <1>3, <1>4, <1>5 DEF TakeNumber
<1>10. /\ t \in 1..Len(turns) /\ HasEvent(ctx[c].batch) /\ ctx[c].batch.event.turn = t
       /\ ctx[c].batch.event.by = c /\ ctx[c].batch.event.nth = ctx[c].made
       /\ turns[t].locked /\ ctx[c].batch.event.seq = turns[t].next
  BY <1>1, <1>8, NumberingMeans DEF Numbering
<1>11. \A u \in 1..Len(turns) : turns[u] \in TurnStates /\ turns[u].next \in Nat
  <2>1. \A u \in 1..Len(turns) : turns[u] \in TurnStates
    BY Types
  <2> QED
    BY <2>1 DEF TurnStates
<1>12. n \in Nat /\ m = turns[t].next + 1 /\ turns[t].next \in Nat
  BY <1>2, <1>6, <1>10, <1>11, Types
<1>13. /\ e \in EventStates /\ e.by = c /\ e.nth = ctx[c].made /\ e.turn = t
       /\ e.seq = turns[t].next /\ e.num = n
  BY <1>3, <1>10, <1>12, Types DEF EventStates
<1>14. /\ b \in BatchStates /\ b.turn = t /\ b.event = e
       /\ b.run = ctx[c].batch.run /\ b.status = ctx[c].batch.status
  BY <1>1, <1>4, <1>13, Types DEF BatchStates
<1>15. /\ h \in ContextStates /\ h.pc = "emit" /\ h.made = ctx[c].made /\ h.batch = b
       /\ h.owns = ctx[c].owns /\ h.active = ctx[c].active /\ h.call = ctx[c].call
  BY <1>5, <1>14, Types DEF ContextStates
<1>16. new \in TurnStates /\ new.next = m /\ new.status = turns[t].status
  <2>1. m \in Nat /\ turns[t] \in TurnStates
    BY <1>10, <1>11, <1>12
  <2> QED
    BY <1>7, <2>1 DEF TurnStates
<1>17. /\ turns' \in Seq(TurnStates) /\ Len(turns') = Len(turns) /\ turns'[t] = new
       /\ \A u \in 1..Len(turns) : u # t => turns'[u] = turns[u]
  BY <1>8, <1>10, <1>16, Types
<1>18. /\ agent' \in AgentStates /\ agent'.numbers = n + 1 /\ agent'.status = agent.status
       /\ agent'.entered = agent.entered /\ agent'.open = agent.open /\ agent'.failed = agent.failed
  <2>1. PICK k : k = n + 1
    OBVIOUS
  <2>2. k \in Nat /\ agent' = [agent EXCEPT !.numbers = k]
    BY <1>8, <1>12, <2>1
  <2> QED
    BY <2>1, <2>2, Types DEF AgentStates
<1>19. TurnsGrow /\ AgentGrows
  <2>1. TurnsGrow
    BY <1>11, <1>12, <1>16, <1>17, Types DEF TurnsGrow
  <2> QED
    BY <1>2, <1>12, <1>18, <2>1, Types DEF AgentGrows
<1>20. ctx' = [d \in Contexts |-> ctx'[d]] /\ ctx'[c] = h /\ \A d \in Contexts \ {c} : ctx'[d] = ctx[d]
  BY <1>9, Types
<1>21. OthersRest(c)
  <2>1. \A d \in Contexts \ {c} :
          ctx[d].owns => ctx[d].active \in 1..Len(turns) /\ turns[ctx[d].active].status = Unknown
    BY Types DEF ContextIsSound, StateIsSound, NoTurn
  <2>2. \A d \in Contexts \ {c} : ctx[d].pc = "numbering" =>
          ctx[d].batch.turn \in 1..Len(turns) /\ turns[ctx[d].batch.turn].locked
    BY NumberingMeans DEF Numbering
  <2>3. \A d \in Contexts \ {c} : ctx[d].pc = "numbering" => ctx[d].batch.turn # t
    BY <1>1, <1>8 DEF StreamInv, TurnsAreOwned
  <2> QED
    BY <1>16, <1>17, <1>20, <2>1, <2>2, <2>3 DEF OthersRest
<1>22. AgentIsSound'
  <2>1. AgentIsSound
    BY DEF StreamInv
  <2> QED
    BY <1>8, <1>15, <1>17, <1>18, <1>20, <2>1, StreamAssumption, Types DEF AgentIsSound, Emitting
<1>23. HasEvent(h.batch)
  BY <1>10, <1>13, <1>14, <1>15 DEF HasEvent
<1>24. ContextIsSound(c)'
  <2>1. BatchIsSound(ctx[c].batch)
    BY Types
  <2>2. BatchIsSound(ctx[c].batch)'
    BY <1>1, <1>10, <1>13, <1>14, <1>15, <1>16, <1>17, <1>18, <1>20, <2>1 DEF BatchIsSound, HasEvent
  <2>3. HasEvent(ctx[c].batch)'
    BY <1>20, <1>23 DEF HasEvent
  <2>4. h.owns => h.active # NoTurn /\ turns'[h.active].status = Unknown
    <3>1. ContextIsSound(c)
      BY Types
    <3>2. h.owns => h.active \in 1..Len(turns) /\ turns[h.active].status = Unknown
      BY <1>15, <3>1, Types DEF ContextIsSound, StateIsSound, NoTurn
    <3> QED
      BY <1>16, <1>17, <3>2 DEF NoTurn
  <2> QED
    BY <1>13, <1>14, <1>15, <1>17, <1>20, <2>2, <2>3, <2>4, Types
       DEF ContextIsSound, StateIsSound, Numbering
<1>25. Takes(c, h) /\ Owes(c, h)
  BY <1>8, <1>10, <1>15, <1>18, <1>23, Types DEF Takes, Owes, Within
<1>26. /\ (\A d \in Contexts : ContextIsSound(d)') /\ TurnsAreOwned'
  BY <1>9, <1>19, <1>21, <1>24, <1>25, FrameStays
<1>27. /\ stream' \in Seq(BatchStates) /\ \A k \in DOMAIN stream' : BatchIsSound(stream[k])'
       /\ Captured' = Captured /\ StorageIsSound'
  BY <1>8, <1>19, StreamRests
<1>28. CapturedInOrder'
  BY <1>15, <1>20, <1>25, <1>27, Types, OrderStays
<1>29. Numbered' \subseteq Numbered \cup {e}
  <2>1. \A d \in Contexts \ {c} : Underway(d)' = Underway(d)
    BY <1>20 DEF Underway, HasEvent
  <2>2. Underway(c)' \subseteq {e}
    BY <1>14, <1>15, <1>20 DEF Underway
  <2> QED
    BY <1>27, <2>1, <2>2 DEF Numbered
<1>30. \A f \in Numbered : f.by = c => f.nth < ctx[c].made
  BY <1>8 DEF StreamInv, EventsAreNumbered, Numbering
<1>31. ASSUME NEW f \in Numbered
       PROVE  /\ f \in EventStates /\ f.nth \in 1..ctx'[f.by].made
              /\ f.turn \in 1..Len(turns') /\ f.seq < turns'[f.turn].next /\ f.num < agent'.numbers
              /\ ctx'[f.by].pc \in Numbering => f.nth < ctx'[f.by].made
              /\ f.num # e.num /\ <<f.turn, f.seq>> # <<e.turn, e.seq>>
              /\ f.by = e.by => f.nth < e.nth /\ f.num < e.num
  <2>1. /\ f \in EventStates /\ f.nth \in 1..ctx[f.by].made
        /\ f.turn \in 1..Len(turns) /\ f.seq < turns[f.turn].next /\ f.num < agent.numbers
        /\ ctx[f.by].pc \in Numbering => f.nth < ctx[f.by].made
    BY DEF StreamInv, EventsAreNumbered
  <2>2. f.num \in Nat /\ f.seq \in Nat /\ f.by \in Contexts
    BY <2>1 DEF EventStates
  <2>3. f.turn \in 1..Len(turns') /\ f.seq < turns'[f.turn].next
    BY SMTT(30), <1>11, <1>12, <1>16, <1>17, <2>1, <2>2
  <2>4. f.nth \in 1..ctx'[f.by].made /\ (ctx'[f.by].pc \in Numbering => f.nth < ctx'[f.by].made)
    BY <1>15, <1>20, <2>1, <2>2 DEF Numbering
  <2>5. f.num < agent'.numbers /\ f.num # e.num /\ f.num < e.num
    BY <1>2, <1>12, <1>13, <1>18, <2>1, <2>2
  <2>6. <<f.turn, f.seq>> # <<e.turn, e.seq>>
    BY <1>12, <1>13, <2>1, <2>2
  <2> QED
    BY <1>13, <1>30, <2>1, <2>3, <2>4, <2>5, <2>6
<1>32. /\ e.nth \in 1..ctx'[e.by].made /\ e.turn \in 1..Len(turns') /\ e.seq < turns'[e.turn].next
       /\ e.num < agent'.numbers /\ ~(ctx'[e.by].pc \in Numbering)
  <2>1. ctx[c].made \in Nat /\ ctx[c].made # 0
    BY <1>10, Types DEF HasEvent
  <2> QED
    BY <1>10, <1>12, <1>13, <1>15, <1>16, <1>17, <1>18, <1>20, <2>1 DEF Numbering
<1>33. EventsAreNumbered'
  <2>1. \A f, g \in Numbered :
          \/ f = g
          \/ /\ f.num # g.num /\ <<f.turn, f.seq>> # <<g.turn, g.seq>>
             /\ f.by = g.by => (f.nth < g.nth /\ f.num < g.num) \/ (g.nth < f.nth /\ g.num < f.num)
    BY DEF StreamInv, EventsAreNumbered
  <2>2. \A f, g \in Numbered \cup {e} :
          \/ f = g
          \/ /\ f.num # g.num /\ <<f.turn, f.seq>> # <<g.turn, g.seq>>
             /\ f.by = g.by => (f.nth < g.nth /\ f.num < g.num) \/ (g.nth < f.nth /\ g.num < f.num)
    BY <1>31, <2>1
  <2> QED
    BY <1>13, <1>29, <1>31, <1>32, <2>2 DEF EventsAreNumbered
<1>34. SoloIsNumbered'
  <2> SUFFICES ASSUME NEW d \in Contexts, Solo(d)'
               PROVE  /\ agent'.numbers = ctx'[d].made - (IF ctx'[d].pc \in Numbering THEN 1 ELSE 0)
                      /\ \A f \in Numbered' : f.by = d => f.num = f.nth - 1
    BY DEF SoloIsNumbered
  <2>1. ctx[c].made \in Nat /\ ctx[c].made # 0 /\ ctx'[c].made = ctx[c].made
    BY <1>10, <1>15, <1>20, Types DEF HasEvent
  <2>2. d = c
    BY <2>1 DEF Solo
  <2>3. Solo(c)
    BY <1>20, <2>2 DEF Solo
  <2>4. n = ctx[c].made - 1 /\ \A f \in Numbered : f.by = c => f.num = f.nth - 1
    BY <1>2, <1>8, <2>3 DEF StreamInv, SoloIsNumbered, Numbering
  <2>5. agent'.numbers = ctx'[c].made - 0
    BY <1>12, <1>18, <2>1, <2>4
  <2>6. e.num = e.nth - 1
    BY <1>13, <2>4
  <2> QED
    BY <1>15, <1>20, <1>29, <2>2, <2>4, <2>5, <2>6 DEF Numbering
<1> QED
  BY <1>22, <1>26, <1>27, <1>28, <1>33, <1>34 DEF StreamInv

---------------------------------------------------------------------------
\* Batches reach the stream, and storage.

\* A batch at the sink is captured, perhaps, and the context goes on.
LEMMA CaptureStep ==
  ASSUME StreamInv, NEW c \in Contexts, ctx[c].pc = "sink", NEW h, ctx' = [ctx EXCEPT ![c] = h],
         stream' \in {stream, Append(stream, ctx[c].batch)}, UNCHANGED <<turns, centralVars>>,
         AgentGrows, agent'.numbers = agent.numbers, agent'.failed = agent.failed,
         AgentIsSound', ContextIsSound(c)', Takes(c, h),
         h.pc \notin {"build", "sink"} \cup Numbering, h.made = ctx[c].made,
         \/ h.batch = ctx[c].batch
         \/ ~HasEvent(h.batch) /\ stream' = Append(stream, ctx[c].batch)
  PROVE  StreamInv'
<1>1. PICK b : b = ctx[c].batch
  OBVIOUS
<1>2. b \in BatchStates /\ BatchIsSound(b) /\ stream \in Seq(BatchStates) /\ Len(stream) \in Nat
  BY <1>1, Types DEF StreamInv
<1>3. TurnsGrow /\ OthersRest(c)
  BY TurnsRest, OthersRestToo
<1>4. /\ ctx'[c] = h /\ \A d \in Contexts \ {c} : ctx'[d] = ctx[d]
      /\ (\A d \in Contexts : ContextIsSound(d)') /\ TurnsAreOwned'
  BY <1>3, FrameStays
<1>5. \/ stream' = stream
      \/ /\ stream' \in Seq(BatchStates) /\ Len(stream') = Len(stream) + 1 /\ stream'[Len(stream')] = b
         /\ \A k \in 1..Len(stream) : stream'[k] = stream[k]
  BY SMTT(30), <1>1, <1>2
<1>6. stream' \in Seq(BatchStates) /\ \A k \in DOMAIN stream' : BatchIsSound(stream[k])'
  <2>1. /\ stream' \in Seq(BatchStates)
       /\ \A k \in DOMAIN stream' : \/ k \in DOMAIN stream /\ stream'[k] = stream[k]
                                  \/ stream'[k] = b
    BY <1>2, <1>5
  <2> SUFFICES ASSUME NEW k \in DOMAIN stream' PROVE BatchIsSound(stream[k])'
    BY <2>1
  <2>2. PICK x : x = stream'[k]
    OBVIOUS
  <2>3. BatchIsSound(x)
    BY <1>2, <2>1, <2>2 DEF StreamInv
  <2>4. BatchIsSound(x)'
    BY <1>3, <2>3, BatchStays
  <2> QED
    BY <2>2, <2>4 DEF BatchIsSound, HasEvent
<1>7. /\ Captured \subseteq Captured'
      /\ Captured' \subseteq Captured \cup (IF HasEvent(b) THEN {b.event} ELSE {})
      /\ stream' # stream /\ HasEvent(b) => b.event \in Captured'
  <2>1. CASE stream' = stream
    BY <2>1 DEF Captured, HasEvent
  <2>2. CASE stream' # stream
    <3>1. DOMAIN stream = 1..Len(stream) /\ DOMAIN stream' = 1..Len(stream) + 1
      BY <1>2, <1>5, <2>2
    <3>2. /\ \A k \in 1..Len(stream) : k \in 1..Len(stream) + 1 /\ stream'[k] = stream[k]
          /\ Len(stream) + 1 \in 1..Len(stream) + 1 /\ stream'[Len(stream) + 1] = b
          /\ \A k \in 1..Len(stream) + 1 : k \in 1..Len(stream) \/ k = Len(stream) + 1
      BY <1>2, <1>5, <2>2
    <3> QED
      BY <3>1, <3>2 DEF Captured, HasEvent
  <2> QED
    BY <2>1, <2>2
<1>8. HasEvent(b) => b.event \in Underway(c)
  BY <1>1 DEF Underway, Emitting
<1>9. Numbered' \subseteq Numbered
  <2>1. \A d \in Contexts : Underway(d)' \subseteq Underway(d)
    <3>1. \A d \in Contexts \ {c} : Underway(d)' = Underway(d)
      BY <1>4 DEF Underway, HasEvent
    <3>2. Underway(c)' \subseteq Underway(c)
      BY <1>4 DEF Underway, HasEvent, Emitting
    <3> QED
      BY <3>1, <3>2
  <2>2. Captured' \subseteq Captured \cup Underway(c)
    BY <1>7, <1>8
  <2> QED
    BY <2>1, <2>2 DEF Numbered
<1>10. EventsAreNumbered' /\ SoloIsNumbered'
  <2>1. \A d \in Contexts :
          ctx'[d].made = ctx[d].made /\ (ctx'[d].pc \in Numbering <=> ctx[d].pc \in Numbering)
    BY <1>4 DEF Numbering
  <2> QED
    BY <1>3, <1>9, <2>1, NumbersStay, SoloStays
<1>11. CapturedInOrder'
  <2>1. /\ \A d \in Contexts : ctx[d].made \in Nat
        /\ HasEvent(b) => b.event.by = c /\ b.event.nth = ctx[c].made /\ ctx[c].made # 0
    BY <1>1, Types DEF ContextIsSound, StateIsSound, HasEvent
  <2>2. \A n \in 1..Within(c) : \E f \in Captured' : f.by = c /\ f.nth = n
    BY <1>7 DEF StreamInv, CapturedInOrder
  <2>3. ASSUME NEW d \in Contexts, ~agent'.failed \/ ctx'[d].pc \in {"build", "sink"}
        PROVE  \A n \in 1..Within(d)' : \E f \in Captured' : f.by = d /\ f.nth = n
    <3>1. CASE d # c
      <4>1. Within(d)' = Within(d) /\ (~agent.failed \/ ctx[d].pc \in {"build", "sink"})
        BY <1>4, <2>3, <3>1 DEF Within, HasEvent
      <4> QED
        BY <1>7, <4>1 DEF StreamInv, CapturedInOrder
    <3>2. CASE d = c
      <4>1. CASE Within(c)' = Within(c)
        BY <2>2, <3>2, <4>1
      <4>2. CASE Within(c)' # Within(c)
        <5>1. /\ HasEvent(b) /\ stream' = Append(stream, b) /\ ~HasEvent(h.batch)
              /\ Within(c) = ctx[c].made - 1 /\ Within(c)' = ctx[c].made
          BY <1>1, <1>4, <4>2 DEF Within, HasEvent
        <5>2. b.event \in Captured'
          <6>1. stream' # stream
            BY <1>1, <1>2, <5>1
          <6> QED
            BY <1>7, <5>1, <6>1
        <5>3. \A n \in 1..ctx[c].made : n \in 1..Within(c) \/ n = ctx[c].made
          BY <2>1, <5>1
        <5> QED
          BY <2>1, <2>2, <3>2, <5>1, <5>2, <5>3
      <4> QED
        BY <4>1, <4>2
    <3> QED
      BY <3>1, <3>2
  <2>4. ASSUME NEW e \in Captured', NEW n \in 1..e.nth - 1
        PROVE  \E f \in Captured' : f.by = e.by /\ f.nth = n
    <3>1. CASE e \in Captured
      BY <1>7, <2>4, <3>1 DEF StreamInv, CapturedInOrder
    <3>2. CASE e \notin Captured
      <4>1. HasEvent(b) /\ e = b.event
        BY <1>7, <2>4, <3>2
      <4>2. e.by = c /\ 1..e.nth - 1 = 1..Within(c)
        BY <1>1, <2>1, <4>1 DEF Within
      <4> QED
        BY <2>2, <2>4, <4>2
    <3> QED
      BY <3>1, <3>2
  <2> QED
    BY <2>3, <2>4 DEF CapturedInOrder
<1>12. StorageIsSound'
  <2>1. delivered \in 0..Len(stream) /\ StorageIsSound
    BY DEF StreamInv, StorageIsSound
  <2>2. delivered' = delivered /\ central' = central
    BY DEF centralVars
  <2>3. /\ Len(stream) <= Len(stream') /\ Len(stream') \in Nat
        /\ \A k \in 1..Len(stream) : stream'[k] = stream[k]
    BY <1>2, <1>5
  <2>4. \A k \in 1..delivered : stream'[k] = stream[k]
    BY <1>2, <2>1, <2>3
  <2>5. Got' = Got
    BY <2>2, <2>4 DEF Got
  <2>6. delivered' \in 0..Len(stream')
    BY <1>2, <2>1, <2>2, <2>3
  <2> QED
    BY <2>1, <2>2, <2>5, <2>6 DEF StorageIsSound, Told, HasEvent
<1> QED
  BY <1>4, <1>6, <1>10, <1>11, <1>12 DEF StreamInv

LEMMA CaptureInv == ASSUME StreamInv, NEW c \in Contexts, Capture(c) PROVE StreamInv'
<1>1. PICK h : h = [ctx[c] EXCEPT !.pc = "idle", !.batch = NoBatch]
  OBVIOUS
<1>2. /\ ctx' = [ctx EXCEPT ![c] = h] /\ ctx[c].pc = "sink"
      /\ stream' = Append(stream, ctx[c].batch) /\ UNCHANGED <<turns, centralVars>>
      /\ agent' = [agent EXCEPT !.open = @ /\ ~Closing(c)]
  BY <1>1 DEF Capture, Emitted, At
<1>3. /\ h \in ContextStates /\ h.pc = "idle" /\ h.made = ctx[c].made /\ h.batch = NoBatch
      /\ h.owns = ctx[c].owns /\ h.active = ctx[c].active /\ h.call = ctx[c].call
  BY <1>1, Types DEF ContextStates
<1>4. PICK open \in BOOLEAN : open <=> agent.open /\ ~Closing(c)
  OBVIOUS
<1>5. /\ agent' \in AgentStates /\ agent'.numbers = agent.numbers /\ agent'.entered = agent.entered
      /\ agent'.status = agent.status /\ agent'.failed = agent.failed /\ (agent'.open <=> open)
  BY <1>2, <1>4, Types DEF AgentStates
<1>6. ctx' = [d \in Contexts |-> ctx'[d]] /\ ctx'[c] = h /\ \A d \in Contexts \ {c} : ctx'[d] = ctx[d]
  BY <1>2, Types
<1>7. AgentIsSound'
  <2>1. AgentIsSound
    BY DEF StreamInv
  <2>2. agent.entered
    BY <1>2, <2>1 DEF AgentIsSound
  <2> QED
    BY <1>2, <1>3, <1>4, <1>5, <1>6, <2>1, <2>2, StreamAssumption DEF AgentIsSound, Closing
<1>8. ContextIsSound(c)'
  <2>1. NoBatch.run = Unknown /\ 0 \in 0..Len(turns)
    BY Types DEF NoBatch
  <2>2. BatchIsSound(ctx[c].batch)' /\ ~HasEvent(ctx[c].batch)'
    BY <1>2, <1>3, <1>6, <2>1, Types DEF BatchIsSound, HasEvent, NoTurn
  <2> QED
    BY <1>2, <1>3, <1>6, <2>2, Types DEF ContextIsSound, StateIsSound, Numbering
<1>9. AgentGrows /\ Takes(c, h) /\ ~HasEvent(h.batch) /\ h.pc \notin {"build", "sink"} \cup Numbering
  BY <1>3, <1>5, Types DEF AgentGrows, Takes, HasEvent, Numbering
<1> QED
  BY <1>2, <1>3, <1>5, <1>7, <1>8, <1>9, CaptureStep

LEMMA CaptureFailsInv == ASSUME StreamInv, NEW c \in Contexts, CaptureFails(c) PROVE StreamInv'
<1>1. PICK h : h = [ctx[c] EXCEPT !.pc = "failing"]
  OBVIOUS
<1>2. /\ ctx' = [ctx EXCEPT ![c] = h] /\ ctx[c].pc = "sink"
      /\ stream' \in {stream, Append(stream, ctx[c].batch)} /\ UNCHANGED <<agent, turns, centralVars>>
  BY <1>1 DEF CaptureFails, At
<1>3. /\ h \in ContextStates /\ h.pc = "failing" /\ h.made = ctx[c].made /\ h.batch = ctx[c].batch
      /\ h.owns = ctx[c].owns /\ h.active = ctx[c].active /\ h.call = ctx[c].call
  BY <1>1, Types DEF ContextStates
<1>4. ctx' = [d \in Contexts |-> ctx'[d]] /\ ctx'[c] = h /\ \A d \in Contexts \ {c} : ctx'[d] = ctx[d]
  BY <1>2, Types
<1>5. AgentIsSound'
  <2>1. AgentIsSound
    BY DEF StreamInv
  <2> QED
    BY <1>2, <1>3, <1>4, <2>1, StreamAssumption DEF AgentIsSound, Emitting
<1>6. StateIsSound(c, h)
  BY <1>2, <1>3, Types DEF ContextIsSound, StateIsSound, Numbering
<1>7. ContextIsSound(c)'
  BY <1>2, <1>4, <1>6 DEF ContextIsSound, StateIsSound, BatchIsSound, HasEvent
<1>8. AgentGrows /\ Takes(c, h) /\ h.pc \notin {"build", "sink"} \cup Numbering
  BY <1>2, <1>3, AgentRests DEF Takes, Numbering
<1> QED
  BY <1>2, <1>3, <1>5, <1>7, <1>8, CaptureStep

\* A status that is told, and one more like it.
LEMMA ToldAdvances ==
  ASSUME NEW status, NEW told, Told(status, told), NEW end \in Statuses, told \subseteq {Unknown, end},
         NEW x \in {Unknown, end}
  PROVE  Told(Advanced(status, x), told \cup {x}) /\ status \in {Absent, Unknown, end}
<1>1. Absent \notin Terminal /\ Unknown \notin Terminal /\ Absent # Unknown /\ end # Absent
  BY StreamAssumption DEF Statuses, Absent, Unknown
<1>2. CASE told = {}
  BY <1>1, <1>2 DEF Told, Advanced
<1>3. CASE told # {} /\ told \subseteq {Unknown}
  BY <1>1, <1>3 DEF Told, Advanced
<1>4. CASE ~(told \subseteq {Unknown})
  <2>1. status = end /\ status \in told /\ end # Unknown
    BY <1>4 DEF Told
  <2> QED
    BY <1>1, <2>1 DEF Told, Advanced
<1> QED
  BY <1>2, <1>3, <1>4

\* What storage has got was captured, and tells what the run and its turns have come to.
LEMMA GotMeans ==
  ASSUME StreamInv
  PROVE  /\ \A b \in Got : \E k \in DOMAIN stream : b = stream[k]
         /\ \A k \in DOMAIN stream :
              /\ BatchIsSound(stream[k]) /\ (HasEvent(stream[k]) => stream[k].event \in Captured)
              /\ HasEvent(stream[k]) <=> stream[k].event # NoEvent
         /\ {b.run : b \in Got} \subseteq {Unknown, agent.status}
         /\ \A t \in 1..Len(turns) :
              {b.status : b \in {x \in Got : x.turn = t}} \subseteq {Unknown, turns[t].status}
         /\ \A t \in 1..MaxTurns : t > Len(turns) => {x \in Got : x.turn = t} = {}
         /\ {b.event : b \in {x \in Got : HasEvent(x)}} \subseteq Captured
<1>1. delivered \in 0..Len(stream) /\ stream \in Seq(BatchStates) /\ Len(stream) \in Nat
  BY DEF StreamInv, StorageIsSound
<1>2. \A b \in Got : \E k \in DOMAIN stream : b = stream[k]
  BY <1>1 DEF Got
<1>3. \A k \in DOMAIN stream :
        /\ BatchIsSound(stream[k]) /\ (HasEvent(stream[k]) => stream[k].event \in Captured)
        /\ HasEvent(stream[k]) <=> stream[k].event # NoEvent
  BY Types DEF StreamInv, Captured, HasEvent, BatchIsSound
<1>4. \A b \in Got : BatchIsSound(b) /\ (HasEvent(b) => b.event \in Captured)
  BY <1>2, <1>3
<1>5. {b.run : b \in Got} \subseteq {Unknown, agent.status}
  BY <1>4 DEF BatchIsSound
<1>6. \A t \in 1..Len(turns) :
        {b.status : b \in {x \in Got : x.turn = t}} \subseteq {Unknown, turns[t].status}
  BY <1>4 DEF BatchIsSound, NoTurn
<1>7. \A t \in 1..MaxTurns : t > Len(turns) => {x \in Got : x.turn = t} = {}
  <2>1. \A x \in Got : x.turn \in 0..Len(turns)
    BY <1>4 DEF BatchIsSound
  <2>2. \A x \in Got : \A t \in 1..MaxTurns : t > Len(turns) => x.turn # t
    BY <2>1, Types, StreamAssumption
  <2> QED
    BY <2>2
<1>8. {b.event : b \in {x \in Got : HasEvent(x)}} \subseteq Captured
  BY <1>4
<1> QED
  BY <1>1, <1>2, <1>3, <1>5, <1>6, <1>7, <1>8

LEMMA DeliverInv == ASSUME StreamInv, NEW k \in DOMAIN stream, Deliver(k) PROVE StreamInv'
<1>1. PICK b : b = stream[k]
  OBVIOUS
<1>2. /\ k <= delivered + 1 /\ delivered' = IF k > delivered THEN k ELSE delivered
      /\ UNCHANGED producerVars /\ Stores(b)
  BY <1>1 DEF Deliver
<1>3. /\ stream \in Seq(BatchStates) /\ Len(stream) \in Nat /\ delivered \in 0..Len(stream)
      /\ k \in 1..Len(stream) /\ StorageIsSound
  <2>1. stream \in Seq(BatchStates) /\ StorageIsSound /\ delivered \in 0..Len(stream)
    BY DEF StreamInv, StorageIsSound
  <2> QED
    BY <2>1
<1>4. BatchIsSound(b) /\ (HasEvent(b) => b.event \in Captured) /\ (HasEvent(b) <=> b.event # NoEvent)
  BY <1>1, GotMeans
<1>5. delivered' \in 0..Len(stream) /\ Got' = Got \cup {b}
  <2>1. delivered' \in 0..Len(stream) /\ 1..delivered' = 1..delivered \cup {k} /\ stream' = stream
    BY <1>2, <1>3 DEF producerVars
  <2> QED
    BY <1>1, <2>1 DEF Got
<1>6. Told(central.run, {x.run : x \in Got}) /\ {x.run : x \in Got} \subseteq {Unknown, agent.status}
      /\ b.run \in {Unknown, agent.status} /\ agent.status \in Statuses
  BY <1>3, <1>4, GotMeans, Types DEF StorageIsSound, BatchIsSound
<1>7. /\ Told(Advanced(central.run, b.run), {x.run : x \in Got} \cup {b.run})
      /\ central.run \in {Absent, Unknown, agent.status}
  BY <1>6, ToldAdvances
<1>8. \A t \in 1..MaxTurns : Told(central.turns[t], {x.status : x \in {y \in Got : y.turn = t}})
  BY <1>3 DEF StorageIsSound
<1>9. ASSUME b.turn # NoTurn
      PROVE  /\ b.turn \in 1..Len(turns) /\ b.turn \in 1..MaxTurns
             /\ Told(Advanced(central.turns[b.turn], b.status),
                     {x.status : x \in {y \in Got : y.turn = b.turn}} \cup {b.status})
             /\ central.turns[b.turn] \in {Absent, Unknown, turns[b.turn].status}
             /\ b.status \in {Unknown, turns[b.turn].status}
  <2>1. b.turn \in 1..Len(turns) /\ b.turn \in 1..MaxTurns
    BY <1>4, <1>9, Types, StreamAssumption DEF BatchIsSound, NoTurn
  <2>2. turns[b.turn] \in TurnStates
    BY <2>1, Types
  <2>3. turns[b.turn].status \in Statuses /\ b.status \in {Unknown, turns[b.turn].status}
    BY <1>4, <1>9, <2>2 DEF BatchIsSound, TurnStates
  <2>4. {x.status : x \in {y \in Got : y.turn = b.turn}} \subseteq {Unknown, turns[b.turn].status}
    BY <2>1, GotMeans
  <2>5. Told(central.turns[b.turn], {x.status : x \in {y \in Got : y.turn = b.turn}})
    BY <1>8, <2>1
  <2>6. PICK told : told = {x.status : x \in {y \in Got : y.turn = b.turn}}
    OBVIOUS
  <2>7. PICK status : status = central.turns[b.turn]
    OBVIOUS
  <2>8. PICK end \in Statuses : end = turns[b.turn].status
    BY <2>3
  <2>9. Told(status, told) /\ told \subseteq {Unknown, end} /\ b.status \in {Unknown, end}
    BY <2>3, <2>4, <2>5, <2>6, <2>7, <2>8
  <2>10. Told(Advanced(status, b.status), told \cup {b.status}) /\ status \in {Absent, Unknown, end}
    BY <2>9, ToldAdvances
  <2> QED
    BY <2>1, <2>3, <2>6, <2>7, <2>8, <2>10
<1>10. ~StatusConflict(central.run, b.run)
  BY <1>6, <1>7, StreamAssumption DEF StatusConflict
<1>11. b.turn # NoTurn => ~StatusConflict(central.turns[b.turn], b.status)
  BY <1>9, StreamAssumption DEF StatusConflict
<1>12. b.event # NoEvent => ~EventConflict(b.event)
  <2> SUFFICES ASSUME b.event # NoEvent, NEW f \in central.events, f # b.event
               PROVE  /\ <<f.by, f.nth>> # <<b.event.by, b.event.nth>>
                      /\ <<f.turn, f.seq>> # <<b.event.turn, b.event.seq>> /\ f.num # b.event.num
    BY DEF EventConflict
  <2>1. f \in Numbered /\ b.event \in Numbered
    BY <1>3, <1>4, GotMeans DEF StorageIsSound, Numbered
  <2>2. f.nth \in Nat /\ b.event.nth \in Nat
    BY <2>1 DEF StreamInv, EventsAreNumbered, EventStates
  <2>3. /\ f.num # b.event.num /\ <<f.turn, f.seq>> # <<b.event.turn, b.event.seq>>
        /\ f.by = b.event.by => (f.nth < b.event.nth \/ b.event.nth < f.nth)
    BY <2>1 DEF StreamInv, EventsAreNumbered
  <2> QED
    BY <2>2, <2>3
<1>13. central' = [central EXCEPT
                     !.run = Advanced(central.run, b.run),
                     !.turns = [t \in 1..MaxTurns |->
                                  IF t = b.turn THEN Advanced(central.turns[t], b.status) ELSE central.turns[t]],
                     !.events = central.events \cup ({b.event} \ {NoEvent})]
  BY <1>2, <1>10, <1>11, <1>12 DEF Stores
<1>14. PICK now : now = [t \in 1..MaxTurns |->
                           IF t = b.turn THEN Advanced(central.turns[t], b.status) ELSE central.turns[t]]
  OBVIOUS
<1>15. PICK run : run = Advanced(central.run, b.run)
  OBVIOUS
<1>16. PICK events : events = central.events \cup ({b.event} \ {NoEvent})
  OBVIOUS
<1>17. /\ central \in [run : Statuses \cup {Absent}, turns : [1..MaxTurns -> Statuses \cup {Absent}],
                        events : SUBSET EventStates, refused : {FALSE}]
       /\ b \in BatchStates /\ b.run \in Statuses /\ b.status \in Statuses /\ b.event \in EventStates
  BY <1>3, <1>4 DEF StorageIsSound, BatchIsSound, BatchStates
<1>18. /\ central' \in [run : Statuses \cup {Absent}, turns : [1..MaxTurns -> Statuses \cup {Absent}],
                         events : SUBSET EventStates, refused : {FALSE}]
       /\ central'.run = run /\ central'.turns = now /\ central'.events = events
  <2>1. /\ central.run \in Statuses \cup {Absent} /\ central.events \subseteq EventStates
        /\ \A t \in 1..MaxTurns : central.turns[t] \in Statuses \cup {Absent}
    BY <1>17
  <2>2. \A t \in 1..MaxTurns : Advanced(central.turns[t], b.status) \in Statuses \cup {Absent}
    BY <1>17, <2>1 DEF Advanced
  <2>3. /\ run \in Statuses \cup {Absent} /\ now \in [1..MaxTurns -> Statuses \cup {Absent}]
        /\ events \in SUBSET EventStates
    BY <1>14, <1>15, <1>16, <1>17, <2>1, <2>2 DEF Advanced
  <2>4. central' = [central EXCEPT !.run = run, !.turns = now, !.events = events]
    BY <1>13, <1>14, <1>15, <1>16
  <2> QED
    BY <1>17, <2>3, <2>4
<1>19. Told(run, {x.run : x \in Got'})
  <2>1. {x.run : x \in Got'} = {x.run : x \in Got} \cup {b.run}
    BY <1>5
  <2> QED
    BY <1>7, <1>15, <2>1
<1>20. ASSUME NEW t \in 1..MaxTurns PROVE Told(now[t], {x.status : x \in {y \in Got' : y.turn = t}})
  <2>1. CASE t = b.turn
    <3>1. b.turn # NoTurn
      BY <2>1 DEF NoTurn
    <3>2. {x.status : x \in {y \in Got' : y.turn = t}}
            = {x.status : x \in {y \in Got : y.turn = b.turn}} \cup {b.status}
      BY <1>5, <2>1
    <3>3. now[t] = Advanced(central.turns[b.turn], b.status)
      BY <1>14, <2>1
    <3> QED
      BY <1>9, <3>1, <3>2, <3>3
  <2>2. CASE t # b.turn
    <3>1. {y \in Got' : y.turn = t} = {y \in Got : y.turn = t}
      BY <1>5, <2>2
    <3>2. now[t] = central.turns[t]
      BY <1>14, <2>2
    <3> QED
      BY <1>8, <3>1, <3>2
  <2> QED
    BY <2>1, <2>2
<1>21. events = {x.event : x \in {y \in Got' : HasEvent(y)}}
  <2>1. central.events = {x.event : x \in {y \in Got : HasEvent(y)}}
    BY <1>3 DEF StorageIsSound
  <2> QED
    BY <1>4, <1>5, <1>16, <2>1
<1>22. StorageIsSound'
  <2>1. delivered' \in 0..Len(stream')
    BY <1>2, <1>5 DEF producerVars
  <2>2. PICK got : got = Got'
    OBVIOUS
  <2>3. /\ Told(run, {x.run : x \in got}) /\ events = {x.event : x \in {y \in got : HasEvent(y)}}
        /\ \A t \in 1..MaxTurns : Told(now[t], {x.status : x \in {y \in got : y.turn = t}})
    BY <1>19, <1>20, <1>21, <2>2
  <2> QED
    BY <1>18, <2>1, <2>2, <2>3 DEF StorageIsSound, Told, HasEvent
<1>23. UNCHANGED <<agent, turns, ctx, stream>>
  BY <1>2 DEF producerVars
<1>24. TurnsGrow /\ AgentGrows /\ Captured' = Captured /\ \A c \in Contexts : Underway(c)' = Underway(c)
  BY <1>23, TurnsRest, AgentRests DEF Captured, HasEvent, Underway
<1>25. Numbered' = Numbered
  BY <1>24 DEF Numbered
<1>26. AgentIsSound' /\ TurnsAreOwned'
  BY <1>23 DEF StreamInv, AgentIsSound, TurnsAreOwned
<1>27. /\ \A c \in Contexts : ContextIsSound(c)'
       /\ stream' \in Seq(BatchStates) /\ \A j \in DOMAIN stream' : BatchIsSound(stream[j])'
  BY ZenonT(40), <1>23 DEF StreamInv, ContextIsSound, StateIsSound, BatchIsSound, HasEvent
<1>28. EventsAreNumbered' /\ SoloIsNumbered'
  BY <1>23, <1>25 DEF StreamInv, EventsAreNumbered, SoloIsNumbered, Solo
<1>29. CapturedInOrder'
  BY <1>23, <1>24 DEF StreamInv, CapturedInOrder, Within, HasEvent
<1> QED
  BY <1>22, <1>26, <1>27, <1>28, <1>29 DEF StreamInv

---------------------------------------------------------------------------
\* The capture of a run.

LEMMA StreamInitInv == StreamInit => StreamInv
<1> SUFFICES ASSUME StreamInit PROVE StreamInv
  OBVIOUS
<1>1. /\ agent = [entered |-> FALSE, open |-> FALSE, status |-> Unknown, failed |-> FALSE, numbers |-> 0]
      /\ turns = <<>> /\ ctx = [c \in Contexts |-> IdleContext] /\ stream = <<>> /\ delivered = 0
      /\ central = [run |-> Absent, turns |-> [t \in 1..MaxTurns |-> Absent], events |-> {}, refused |-> FALSE]
  BY DEF StreamInit
<1>2. /\ NoEvent \in EventStates /\ NoEvent.nth = 0
      /\ NoBatch \in BatchStates /\ NoBatch.turn = 0 /\ NoBatch.run = Unknown /\ NoBatch.status = Unknown
      /\ NoBatch.event = NoEvent
  <2>1. NoEvent \in EventStates /\ NoEvent.nth = 0
    BY StreamAssumption DEF NoEvent, EventStates, NoTurn
  <2> QED
    BY <2>1 DEF NoBatch, BatchStates, NoTurn, Statuses
<1>3. /\ IdleContext \in ContextStates /\ IdleContext.pc = "idle" /\ IdleContext.active = 0
      /\ IdleContext.call = 0 /\ ~IdleContext.owns /\ IdleContext.made = 0 /\ IdleContext.batch = NoBatch
  BY <1>2 DEF IdleContext, ContextStates, NoTurn
<1>4. Len(turns) = 0 /\ Len(stream) = 0 /\ DOMAIN stream = {} /\ stream \in Seq(BatchStates)
      /\ turns \in Seq(TurnStates)
  BY <1>1
<1>5. AgentIsSound
  BY <1>1, <1>3, <1>4, StreamAssumption DEF AgentIsSound, AgentStates, Statuses
<1>6. BatchIsSound(NoBatch) /\ ~HasEvent(NoBatch)
  BY <1>2, <1>4 DEF BatchIsSound, HasEvent, NoTurn
<1>7. ASSUME NEW c \in Contexts PROVE ContextIsSound(c)
  BY <1>1, <1>3, <1>4, <1>6 DEF ContextIsSound, StateIsSound, Numbering
<1>8. TurnsAreOwned
  BY <1>1, <1>3 DEF TurnsAreOwned
<1>9. Captured = {} /\ Numbered = {}
  BY <1>1, <1>3, <1>4 DEF Captured, Numbered, Underway, Emitting
<1>10. EventsAreNumbered /\ SoloIsNumbered
  BY <1>1, <1>3, <1>9 DEF EventsAreNumbered, SoloIsNumbered, Numbering
<1>11. CapturedInOrder
  BY <1>1, <1>3, <1>6, <1>9 DEF CapturedInOrder, Within
<1>12. StorageIsSound
  <2>1. Got = {}
    BY <1>1 DEF Got
  <2>2. [t \in 1..MaxTurns |-> Absent] \in [1..MaxTurns -> Statuses \cup {Absent}]
    OBVIOUS
  <2> QED
    BY <1>1, <1>4, <2>1, <2>2 DEF StorageIsSound, Told
<1> QED
  BY <1>4, <1>5, <1>7, <1>8, <1>10, <1>11, <1>12 DEF StreamInv

LEMMA StreamRestsInv == StreamInv /\ UNCHANGED streamVars => StreamInv'
<1> SUFFICES ASSUME StreamInv, UNCHANGED streamVars PROVE StreamInv'
  OBVIOUS
<1>1. UNCHANGED <<agent, turns, ctx, stream, centralVars>>
  BY DEF streamVars, producerVars
<1>2. TurnsGrow /\ AgentGrows /\ \A c \in Contexts : Underway(c)' = Underway(c)
  BY <1>1, TurnsRest, AgentRests DEF HasEvent, Underway
<1>3. /\ stream' \in Seq(BatchStates) /\ \A k \in DOMAIN stream' : BatchIsSound(stream[k])'
      /\ Captured' = Captured /\ StorageIsSound'
  BY <1>1, <1>2, StreamRests
<1>4. Numbered' = Numbered
  BY <1>2, <1>3 DEF Numbered
<1>5. AgentIsSound' /\ TurnsAreOwned' /\ \A c \in Contexts : ContextIsSound(c)'
  BY ZenonT(40), <1>1 DEF StreamInv, AgentIsSound, TurnsAreOwned, ContextIsSound, StateIsSound, BatchIsSound, HasEvent
<1>6. EventsAreNumbered' /\ SoloIsNumbered'
  BY <1>1, <1>4 DEF StreamInv, EventsAreNumbered, SoloIsNumbered, Solo
<1>7. CapturedInOrder'
  BY <1>1, <1>3 DEF StreamInv, CapturedInOrder, Within, HasEvent
<1> QED
  BY <1>3, <1>5, <1>6, <1>7 DEF StreamInv

LEMMA StreamStepInv == StreamInv /\ [StreamNext]_streamVars => StreamInv'
<1> SUFFICES ASSUME StreamInv, [StreamNext]_streamVars PROVE StreamInv'
  OBVIOUS
<1>1. CASE EnterRun \/ \E status \in Terminal : ExitRun(status)
  BY <1>1, EnterRunInv, ExitRunInv
<1>2. ASSUME NEW c \in Contexts,
             \/ AskTurn(c) \/ EnterTurn(c) \/ \E status \in Terminal : ExitTurn(c, status)
             \/ \E d \in Contexts : Inherit(c, d)
      PROVE  StreamInv'
  BY <1>2, AskTurnInv, EnterTurnInv, ExitTurnInv, InheritInv
<1>3. ASSUME NEW c \in Contexts,
             StartCall(c) \/ Record(c) \/ FinishCall(c) \/ ReadSequence(c) \/ TakeNumber(c)
      PROVE  StreamInv'
  BY <1>3, StartCallInv, RecordInv, ReadSequenceInv, TakeNumberInv
<1>4. ASSUME NEW c \in Contexts, Emit(c)
      PROVE  StreamInv'
  BY <1>4, CheckFailedInv, BuildBatchInv, CaptureInv, CaptureFailsInv, LatchInv DEF Emit
<1>5. ASSUME NEW k \in DOMAIN stream, Deliver(k) PROVE StreamInv'
  BY <1>5, DeliverInv
<1>6. CASE UNCHANGED streamVars
  BY <1>6, StreamRestsInv
<1> QED
  BY <1>1, <1>2, <1>3, <1>4, <1>5, <1>6 DEF StreamNext

LEMMA CapturedMeans == StreamInv => CapturedEvents = Captured
<1> SUFFICES ASSUME StreamInv PROVE CapturedEvents = Captured
  OBVIOUS
<1>1. \A k \in DOMAIN stream : HasEvent(stream[k]) <=> stream[k].event # NoEvent
  BY GotMeans
<1> QED
  BY <1>1 DEF CapturedEvents, Captured

LEMMA InvNoGapOfOne == StreamInv => NoGapOfOne
<1> SUFFICES ASSUME StreamInv, NEW e \in Captured
             PROVE  /\ \A n \in 1..e.nth - 1 : \E f \in Captured : f.by = e.by /\ f.nth = n /\ f.num < e.num
                    /\ (\A c \in Contexts \ {e.by} : ctx[c].made = 0) =>
                         0..e.num \subseteq {f.num : f \in Captured}
  BY CapturedMeans DEF NoGapOfOne
<1>1. Captured \subseteq Numbered
  BY DEF Numbered
<1>2. \A f \in Captured : f.nth \in Nat /\ f.num \in Nat /\ f.nth # 0 /\ f.by \in Contexts
  BY <1>1 DEF StreamInv, EventsAreNumbered, EventStates
<1>3. ASSUME NEW n \in 1..e.nth - 1
      PROVE  \E f \in Captured : f.by = e.by /\ f.nth = n /\ f.num < e.num
  <2>1. PICK f \in Captured : f.by = e.by /\ f.nth = n
    BY DEF StreamInv, CapturedInOrder
  <2>2. f.nth < e.nth
    BY <1>2, <2>1
  <2>3. f.num < e.num
    BY <1>1, <1>2, <2>1, <2>2 DEF StreamInv, EventsAreNumbered
  <2> QED
    BY <2>1, <2>3
<1>4. ASSUME \A c \in Contexts \ {e.by} : ctx[c].made = 0, NEW k \in 0..e.num
      PROVE  \E f \in Captured : f.num = k
  <2>1. \A f \in Captured : f.by = e.by => f.num = f.nth - 1
    BY <1>1, <1>2, <1>4 DEF StreamInv, SoloIsNumbered, Solo
  <2>2. k + 1 \in 1..e.nth /\ k \in Nat
    BY <1>2, <2>1
  <2>3. CASE k + 1 = e.nth
    BY <1>2, <2>1, <2>2, <2>3
  <2>4. CASE k + 1 # e.nth
    <3>1. k + 1 \in 1..e.nth - 1
      BY <1>2, <2>2, <2>4
    <3>2. PICK f \in Captured : f.by = e.by /\ f.nth = k + 1
      BY <3>1 DEF StreamInv, CapturedInOrder
    <3> QED
      BY <1>2, <2>1, <2>2, <3>2
  <2> QED
    BY <2>3, <2>4
<1> QED
  BY <1>3, <1>4

\* (Canonicalize) Who was told one outcome at most keeps it.
LEMMA ToldOnce ==
  ASSUME NEW status, NEW told, NEW end, Told(status, told), told \subseteq {Unknown, end}
  PROVE  IF told = {} THEN status = Absent
         ELSE status = IF told \subseteq {Unknown} THEN Unknown ELSE CHOOSE s \in told : s # Unknown
<1>1. CASE told \subseteq {Unknown}
  BY <1>1 DEF Told
<1>2. CASE ~(told \subseteq {Unknown})
  <2>1. status \in told /\ status # Unknown /\ \A s \in told : s # Unknown => s = status
    BY <1>2 DEF Told
  <2>2. (CHOOSE s \in told : s # Unknown) = status
    BY <2>1
  <2> QED
    BY <1>2, <2>2
<1> QED
  BY <1>1, <1>2

LEMMA InvStreamMerges == StreamInv => StreamMerges
<1> SUFFICES ASSUME StreamInv PROVE StreamMerges
  OBVIOUS
<1>1. StorageIsSound
  BY DEF StreamInv
<1>3. ~central.refused
  BY <1>1 DEF StorageIsSound
<1>4. Told(central.run, {b.run : b \in Got}) /\ {b.run : b \in Got} \subseteq {Unknown, agent.status}
  BY <1>1, GotMeans DEF StorageIsSound
<1>5. ASSUME NEW t \in 1..MaxTurns, NEW told, told = {b.status : b \in {x \in Got : x.turn = t}}
      PROVE  \E end : told \subseteq {Unknown, end}
  <2>1. CASE t \in 1..Len(turns)
    <3>1. PICK end : end = turns[t].status
      OBVIOUS
    <3>2. told \subseteq {Unknown, end}
      BY <1>5, <2>1, <3>1, GotMeans
    <3> QED
      BY <3>2
  <2>2. CASE t > Len(turns)
    <3>1. {x \in Got : x.turn = t} = {}
      BY <2>2, GotMeans
    <3>2. told = {}
      BY <1>5, <3>1
    <3> QED
      BY <3>2
  <2>3. t \in 1..Len(turns) \/ t > Len(turns)
    <3>1. Len(turns) \in Nat
      BY Types
    <3>2. t \in Nat \ {0}
      BY StreamAssumption
    <3> QED
      BY <3>1, <3>2
  <2> QED
    BY <2>1, <2>2, <2>3
<1>6. ASSUME NEW t \in 1..MaxTurns, NEW told, told = {b.status : b \in {x \in Got : x.turn = t}}
      PROVE  Told(central.turns[t], told)
  <2>1. Told(central.turns[t], {b.status : b \in {x \in Got : x.turn = t}})
    BY <1>1 DEF StorageIsSound
  <2> QED
    BY <2>1, <1>6
<1>7. central.events = {b.event : b \in Got} \ {NoEvent}
  <2>1. \A b \in Got : HasEvent(b) <=> b.event # NoEvent
    BY GotMeans
  <2> QED
    BY <1>1, <2>1 DEF StorageIsSound
<1>8. LET told == {b.run : b \in Got}
      IN  IF told = {} THEN central.run = Absent
          ELSE central.run = IF told \subseteq {Unknown} THEN Unknown ELSE CHOOSE s \in told : s # Unknown
  BY <1>4, ToldOnce
<1>9. \A t \in 1..MaxTurns :
        LET told == {b.status : b \in {x \in Got : x.turn = t}}
        IN  IF told = {} THEN central.turns[t] = Absent
            ELSE central.turns[t] = IF told \subseteq {Unknown} THEN Unknown
                                    ELSE CHOOSE s \in told : s # Unknown
  <2> SUFFICES ASSUME NEW t \in 1..MaxTurns, NEW told, told = {b.status : b \in {x \in Got : x.turn = t}}
               PROVE  IF told = {} THEN central.turns[t] = Absent
                      ELSE central.turns[t] = IF told \subseteq {Unknown} THEN Unknown
                                              ELSE CHOOSE s \in told : s # Unknown
    OBVIOUS
  <2>1. Told(central.turns[t], told)
    BY <1>6
  <2>2. PICK end : told \subseteq {Unknown, end}
    BY <1>5
  <2>3. CASE told \subseteq {Unknown}
    BY <2>1, <2>3 DEF Told
  <2>4. CASE ~(told \subseteq {Unknown})
    <3>1. /\ central.turns[t] \in told /\ central.turns[t] # Unknown
          /\ \A s \in told : s # Unknown => s = central.turns[t]
      BY <2>1, <2>2, <2>4 DEF Told
    <3>2. (CHOOSE s \in told : s # Unknown) = central.turns[t]
      BY <3>1
    <3>3. told # {}
      BY <3>1
    <3> QED
      BY <2>4, <3>2, <3>3
  <2> QED
    BY <2>3, <2>4
<1> QED
  BY <1>3, <1>7, <1>8, <1>9 DEF StreamMerges, Got

\* (AgentRunContext) In every reachable state run, turns, contexts, stream and storage agree.
THEOREM StreamInvariant == StreamInit /\ [][StreamNext]_streamVars => []StreamInv
BY StreamInitInv, StreamStepInv, PTL

\* (agent.py, normalized_evidence.py) However contexts of a run interleave and fail, and batches
\* are delivered again, what one of them captured has no gap and what is stored is what the
\* batches tell together.
THEOREM RunsAreWhole == StreamInit /\ [][StreamNext]_streamVars => []StreamIsWhole
BY StreamInvariant, InvNoGapOfOne, InvStreamMerges, PTL DEF StreamIsWhole

---------------------------------------------------------------------------
\* Local history files: histories, and one that begins another.

\* Parsed's function: the records among the first bytes.
IsRecordsUpTo(f, upTo) ==
  upTo = [i \in 0..Len(f) |->
            IF i = 0 THEN <<>>
            ELSE IF f[i] # End /\ i < Len(f) THEN Append(upTo[i - 1], f[i])
            ELSE upTo[i - 1]]

\* The records of a history whose bytes up to i are read, said of every i <= n.
With(records, x) == IF x # End THEN Append(records, x) ELSE records

RecordsOf(f, n, r) ==
  /\ r \in [0..n -> Seq(Contents)] /\ r[0] = <<>>
  /\ \A i \in 1..n : r[i] = With(r[i - 1], f[i])

\* Point by point, what IsPrefix says.
Begins(s, t) == Len(s) <= Len(t) /\ \A i \in 1..Len(s) : s[i] = t[i]

\* A set of naturals has a least one.
LEMMA Least ==
  ASSUME NEW S \in SUBSET Nat, S # {}
  PROVE  \E n \in S : \A m \in S : n <= m
<1>1. PICK n \in S : \A m \in S : ~(<<m, n>> \in OpToRel(<, Nat))
  BY WFMin, NatLessThanWellFounded
<1>2. \A m \in S : ~(m < n)
  BY <1>1 DEF OpToRel
<1> QED
  BY <1>2

LEMMA BeginsMeans ==
  ASSUME NEW S, NEW s \in Seq(S), NEW t \in Seq(S)
  PROVE  IsPrefix(s, t) <=> Begins(s, t)
<1>0. Len(s) \in Nat /\ Len(t) \in Nat
  OBVIOUS
<1>1. ASSUME IsPrefix(s, t) PROVE Begins(s, t)
  <2>1. Len(s) <= Len(t) /\ SubSeq(s, 1, Len(s)) = SubSeq(t, 1, Len(s))
    BY <1>1 DEF IsPrefix
  <2>2. \A i \in 1..Len(s) : SubSeq(s, 1, Len(s))[i] = s[i]
    BY <1>0
  <2>3. \A i \in 1..Len(s) : SubSeq(t, 1, Len(s))[i] = t[i]
    BY <1>0, <2>1
  <2> QED
    BY <2>1, <2>2, <2>3 DEF Begins
<1>2. ASSUME Begins(s, t) PROVE IsPrefix(s, t)
  <2>1. PICK u : u = SubSeq(s, 1, Len(s))
    OBVIOUS
  <2>2. PICK v : v = SubSeq(t, 1, Len(s))
    OBVIOUS
  <2>3. u \in Seq(S) /\ Len(u) = Len(s) /\ \A i \in 1..Len(s) : u[i] = s[i]
    BY <1>0, <2>1
  <2>4. v \in Seq(S) /\ Len(v) = Len(s) /\ \A i \in 1..Len(s) : v[i] = t[i]
    BY <1>0, <1>2, <2>2 DEF Begins
  <2>5. u = v
    BY <1>2, <2>3, <2>4, SeqEqual DEF Begins
  <2> QED
    BY <1>2, <2>1, <2>2, <2>5 DEF Begins, IsPrefix
<1> QED
  BY <1>1, <1>2

LEMMA HistoryMeans ==
  ASSUME NEW f \in Histories
  PROVE  f \in Seq(Bytes) /\ Len(f) \in 0..MaxBytes /\ IsHistory(f)
<1>1. PICK n \in 0..MaxBytes : f \in [1..n -> Bytes]
  BY DEF Histories
<1>2. f \in Seq(Bytes) /\ Len(f) = n
  BY <1>1, ScanAssumption
<1> QED
  BY <1>2 DEF Histories

LEMMA WithType ==
  ASSUME NEW records \in Seq(Contents), NEW x \in Bytes
  PROVE  With(records, x) \in Seq(Contents)
BY DEF With, Bytes

LEMMA RecordsExist ==
  ASSUME NEW f \in Seq(Bytes)
  PROVE  \A n \in 0..Len(f) : \E r : RecordsOf(f, n, r)
<1> DEFINE Bad == {n \in 0..Len(f) : ~(\E r : RecordsOf(f, n, r))}
<1>0. Len(f) \in Nat /\ \A i \in 1..Len(f) : f[i] \in Bytes
  OBVIOUS
<1>1. SUFFICES ASSUME Bad # {} PROVE FALSE
  OBVIOUS
<1>a. Bad \in SUBSET Nat
  BY <1>0
<1>2. PICK n \in Bad : \A m \in Bad : n <= m
  <2> HIDE DEF Bad
  <2> QED
    BY <1>1, <1>a, Least
<1>3. n \in 0..Len(f) /\ ~(\E r : RecordsOf(f, n, r))
  BY <1>2
<1>4. n # 0
  <2>1. PICK r : r = [i \in 0..0 |-> <<>>]
    OBVIOUS
  <2>2. RecordsOf(f, 0, r)
    BY <2>1 DEF RecordsOf
  <2> QED
    BY <2>2, <1>3
<1>5. PICK r : RecordsOf(f, n - 1, r)
  BY <1>0, <1>2, <1>3, <1>4
<1>6. PICK q : q = [i \in 0..n |-> IF i = n THEN With(r[n - 1], f[n]) ELSE r[i]]
  OBVIOUS
<1>7. r[n - 1] \in Seq(Contents) /\ n \in 1..Len(f)
  BY <1>0, <1>3, <1>4, <1>5 DEF RecordsOf
<1>8. q \in [0..n -> Seq(Contents)]
  <2>1. With(r[n - 1], f[n]) \in Seq(Contents)
    BY <1>0, <1>7, WithType
  <2>2. ASSUME NEW i \in 0..n PROVE q[i] \in Seq(Contents)
    BY <1>5, <1>6, <1>7, <2>1, <2>2 DEF RecordsOf
  <2> QED
    BY <1>6, <2>2
<1>9. \A i \in 1..n : q[i] = With(q[i - 1], f[i])
  <2> SUFFICES ASSUME NEW i \in 1..n PROVE q[i] = With(q[i - 1], f[i])
    OBVIOUS
  <2>1. q[i - 1] = r[i - 1]
    BY <1>6, <1>7
  <2>2. CASE i = n
    BY <1>6, <1>7, <2>1, <2>2
  <2>3. CASE i # n
    BY <1>5, <1>6, <1>7, <2>1, <2>3 DEF RecordsOf
  <2> QED
    BY <2>2, <2>3
<1>10. q[0] = <<>>
  BY <1>5, <1>6, <1>7 DEF RecordsOf
<1> QED
  BY <1>3, <1>8, <1>9, <1>10 DEF RecordsOf

\* What is parsed are the records of all bytes but the last.
LEMMA ParsedMeans ==
  ASSUME NEW f \in Seq(Bytes), f # <<>>
  PROVE  \E r : RecordsOf(f, Len(f) - 1, r) /\ Parsed(f) = r[Len(f) - 1]
<1>0. Len(f) \in Nat /\ Len(f) > 0
  OBVIOUS
<1> DEFINE n == Len(f) - 1
<1>1. PICK r : RecordsOf(f, n, r)
  BY <1>0, RecordsExist
<1>2. PICK q : q = [i \in 0..Len(f) |-> IF i = Len(f) THEN r[n] ELSE r[i]]
  OBVIOUS
<1>3. q[0] = <<>>
  BY <1>0, <1>1, <1>2 DEF RecordsOf
<1>4. ASSUME NEW i \in 1..Len(f)
      PROVE  q[i] = IF f[i] # End /\ i < Len(f) THEN Append(q[i - 1], f[i]) ELSE q[i - 1]
  <2>1. q[i - 1] = r[i - 1]
    BY <1>0, <1>2
  <2>2. CASE i = Len(f)
    BY <1>0, <1>2, <2>1, <2>2
  <2>3. CASE i # Len(f)
    <3>1. i \in 1..n /\ i < Len(f)
      BY <1>0, <2>3
    <3>2. q[i] = r[i]
      BY <1>0, <1>2, <2>3
    <3> QED
      BY <1>1, <2>1, <3>1, <3>2 DEF RecordsOf, With
  <2> QED
    BY <2>2, <2>3
<1>5. IsRecordsUpTo(f, q)
  <2>1. \A i \in 0..Len(f) :
          q[i] = IF i = 0 THEN <<>>
                 ELSE IF f[i] # End /\ i < Len(f) THEN Append(q[i - 1], f[i])
                 ELSE q[i - 1]
    <3> SUFFICES ASSUME NEW i \in 0..Len(f)
                 PROVE  q[i] = IF i = 0 THEN <<>>
                               ELSE IF f[i] # End /\ i < Len(f) THEN Append(q[i - 1], f[i])
                               ELSE q[i - 1]
      OBVIOUS
    <3>1. i = 0 \/ i \in 1..Len(f)
      BY <1>0
    <3> QED
      BY <1>3, <1>4, <3>1
  <2>2. q = [i \in 0..Len(f) |-> q[i]]
    BY <1>2
  <2>3. [i \in 0..Len(f) |-> q[i]] =
        [i \in 0..Len(f) |->
           IF i = 0 THEN <<>>
           ELSE IF f[i] # End /\ i < Len(f) THEN Append(q[i - 1], f[i])
           ELSE q[i - 1]]
    BY <2>1, Zenon
  <2> QED
    BY <2>2, <2>3, Zenon DEF IsRecordsUpTo
<1>6. PICK g : g = CHOOSE h : IsRecordsUpTo(f, h)
  OBVIOUS
<1>7. IsRecordsUpTo(f, g)
  BY <1>5, <1>6
<1>8. Parsed(f) = g[Len(f)]
  BY <1>6 DEF Parsed, IsRecordsUpTo
<1>9. \A i \in 0..Len(f) :
        g[i] = IF i = 0 THEN <<>>
               ELSE IF f[i] # End /\ i < Len(f) THEN Append(g[i - 1], f[i])
               ELSE g[i - 1]
  BY <1>7, Zenon DEF IsRecordsUpTo
<1>10. g[0] = <<>> /\ \A i \in 1..Len(f) :
         g[i] = IF f[i] # End /\ i < Len(f) THEN Append(g[i - 1], f[i]) ELSE g[i - 1]
  <2>1. 0 \in 0..Len(f) /\ \A i \in 1..Len(f) : i \in 0..Len(f) /\ i # 0
    BY <1>0
  <2> QED
    BY <1>9, <2>1
<1>11. \A i \in 0..n : g[i] = r[i]
  <2> DEFINE Bad == {i \in 0..n : g[i] # r[i]}
  <2>1. SUFFICES ASSUME Bad # {} PROVE FALSE
    OBVIOUS
  <2>a. Bad \in SUBSET Nat
    BY <1>0
  <2>2. PICK i \in Bad : \A m \in Bad : i <= m
    <3> HIDE DEF Bad
    <3> QED
      BY <2>1, <2>a, Least
  <2>3. i # 0
    BY <1>1, <1>10, <2>2 DEF RecordsOf
  <2>4. i \in 1..n /\ i \in 1..Len(f) /\ i < Len(f) /\ i - 1 \in 0..n
    BY <1>0, <2>2, <2>3
  <2>5. g[i - 1] = r[i - 1]
    <3>1. ~(i <= i - 1)
      BY <2>4
    <3> QED
      BY <2>2, <2>4, <3>1
  <2>6. g[i] = r[i]
    BY <1>1, <1>10, <2>4, <2>5 DEF RecordsOf, With
  <2> QED
    BY <2>2, <2>6
<1>12. Parsed(f) = r[n]
  <2>1. Len(f) \in 1..Len(f) /\ ~(Len(f) < Len(f)) /\ n \in 0..n
    BY <1>0
  <2>2. g[Len(f)] = g[Len(f) - 1]
    BY <1>10, <2>1
  <2> QED
    BY <1>8, <1>11, <2>1, <2>2
<1> QED
  BY <1>1, <1>12

LEMMA ParsedNothing == Parsed(<<>>) = <<>>
<1>1. PICK f : f = <<>>
  OBVIOUS
<1>0. Len(f) = 0
  BY <1>1
<1>2. PICK q : q = [i \in 0..0 |-> <<>>]
  OBVIOUS
<1>3. IsRecordsUpTo(f, q)
  <2>1. \A i \in 0..Len(f) :
          q[i] = IF i = 0 THEN <<>>
                 ELSE IF f[i] # End /\ i < Len(f) THEN Append(q[i - 1], f[i])
                 ELSE q[i - 1]
    BY <1>0, <1>2
  <2>2. q = [i \in 0..Len(f) |-> q[i]]
    BY <1>0, <1>2
  <2>3. [i \in 0..Len(f) |-> q[i]] =
        [i \in 0..Len(f) |->
           IF i = 0 THEN <<>>
           ELSE IF f[i] # End /\ i < Len(f) THEN Append(q[i - 1], f[i])
           ELSE q[i - 1]]
    BY <2>1, Zenon
  <2> QED
    BY <2>2, <2>3, Zenon DEF IsRecordsUpTo
<1>4. PICK g : g = CHOOSE h : IsRecordsUpTo(f, h)
  OBVIOUS
<1>5. IsRecordsUpTo(f, g)
  BY <1>3, <1>4
<1>6. Parsed(f) = g[Len(f)]
  BY <1>4 DEF Parsed, IsRecordsUpTo
<1>7. \A i \in 0..Len(f) :
        g[i] = IF i = 0 THEN <<>>
               ELSE IF f[i] # End /\ i < Len(f) THEN Append(g[i - 1], f[i])
               ELSE g[i - 1]
  BY <1>5, Zenon DEF IsRecordsUpTo
<1>8. 0 \in 0..Len(f)
  BY <1>0
<1> QED
  BY <1>0, <1>1, <1>6, <1>7, <1>8

LEMMA ParsedType ==
  ASSUME NEW f \in Seq(Bytes)
  PROVE  Parsed(f) \in Seq(Contents)
<1>1. CASE f = <<>>
  <2>1. Parsed(f) = <<>>
    BY <1>1, ParsedNothing, Zenon
  <2>2. <<>> \in Seq(Contents)
    BY EmptySeq
  <2> QED
    BY <2>1, <2>2
<1>2. CASE f # <<>>
  <2>1. PICK r : RecordsOf(f, Len(f) - 1, r) /\ Parsed(f) = r[Len(f) - 1]
    BY <1>2, ParsedMeans
  <2>2. PICK n : n = Len(f) - 1
    OBVIOUS
  <2>3. n \in 0..n
    BY <1>2, <2>2
  <2>4. r \in [0..n -> Seq(Contents)] /\ Parsed(f) = r[n]
    BY <2>1, <2>2 DEF RecordsOf
  <2> QED
    BY <2>3, <2>4
<1> QED
  BY <1>1, <1>2

\* More bytes, more records.
LEMMA RecordsGrow ==
  ASSUME NEW f \in Seq(Bytes), NEW n \in Nat, n <= Len(f), NEW r, RecordsOf(f, n, r), NEW m \in 0..n
  PROVE  \A i \in m..n : Begins(r[m], r[i])
<1> DEFINE Bad == {i \in m..n : ~Begins(r[m], r[i])}
<1>1. SUFFICES ASSUME Bad # {} PROVE FALSE
  OBVIOUS
<1>2. PICK i \in Bad : \A j \in Bad : i <= j
  <2>1. Bad \in SUBSET Nat
    OBVIOUS
  <2> HIDE DEF Bad
  <2> QED
    BY <1>1, <2>1, Least
<1>3. i \in m..n /\ ~Begins(r[m], r[i])
  BY <1>2
<1>4. r[m] \in Seq(Contents) /\ r[i] \in Seq(Contents)
  BY <1>3 DEF RecordsOf
<1>5. i # m
  BY <1>3, <1>4 DEF Begins
<1>6. i - 1 \in m..n /\ i \in 1..n /\ i \in 1..Len(f) /\ ~(i <= i - 1)
  BY <1>3, <1>5
<1>7. Begins(r[m], r[i - 1])
  BY <1>2, <1>6
<1>8. r[i - 1] \in Seq(Contents) /\ r[i] = With(r[i - 1], f[i])
  BY <1>6 DEF RecordsOf
<1>9. CASE f[i] = End
  BY <1>3, <1>7, <1>8, <1>9 DEF With
<1>10. CASE f[i] # End
  <2>1. f[i] \in Contents
    BY <1>6, <1>10 DEF Bytes
  <2>2. r[i] = Append(r[i - 1], f[i])
    BY <1>8, <1>10 DEF With
  <2>3. Len(r[i]) = Len(r[i - 1]) + 1 /\ \A k \in 1..Len(r[i - 1]) : r[i][k] = r[i - 1][k]
    BY <1>8, <2>1, <2>2
  <2>4. Len(r[m]) \in Nat /\ Len(r[i - 1]) \in Nat
    BY <1>4, <1>8
  <2> QED
    BY SMTT(30), <1>3, <1>7, <2>3, <2>4 DEF Begins
<1> QED
  BY <1>9, <1>10

\* What is parsed of a history begins what is parsed of one that goes on after it.
LEMMA ParsedGrows ==
  ASSUME NEW g \in Seq(Bytes), NEW f \in Seq(Bytes), IsPrefix(g, f)
  PROVE  Begins(Parsed(g), Parsed(f))
<1>0. Begins(g, f) /\ Len(g) \in Nat /\ Len(f) \in Nat
  BY BeginsMeans
<1>1. CASE g = <<>>
  <2>1. Parsed(g) = <<>> /\ Parsed(f) \in Seq(Contents)
    BY <1>1, ParsedNothing, ParsedType
  <2> QED
    BY <2>1 DEF Begins
<1>2. CASE g # <<>>
  <2> DEFINE m == Len(g) - 1
             n == Len(f) - 1
  <2>1. m \in Nat /\ n \in Nat /\ m <= n /\ m \in 0..n /\ f # <<>> /\ n <= Len(f)
    BY <1>0, <1>2 DEF Begins
  <2>2. PICK q : RecordsOf(g, m, q) /\ Parsed(g) = q[m]
    BY <1>2, ParsedMeans
  <2>3. PICK r : RecordsOf(f, n, r) /\ Parsed(f) = r[n]
    BY <2>1, ParsedMeans
  <2>4. \A i \in 1..m : i \in 1..n /\ g[i] = f[i]
    BY <1>0, <2>1 DEF Begins
  <2> HIDE DEF m, n
  <2>5. \A i \in 0..m : q[i] = r[i]
    <3> DEFINE Bad == {i \in 0..m : q[i] # r[i]}
    <3>1. SUFFICES ASSUME Bad # {} PROVE FALSE
      OBVIOUS
    <3>2. PICK i \in Bad : \A j \in Bad : i <= j
      <4>1. Bad \in SUBSET Nat
        BY <2>1
      <4> HIDE DEF Bad
      <4> QED
        BY <3>1, <4>1, Least
    <3>3. i \in 0..m /\ q[i] # r[i]
      BY <3>2
    <3>4. i # 0
      BY <2>2, <2>3, <3>3 DEF RecordsOf
    <3>5. i \in 1..m /\ i - 1 \in 0..m /\ ~(i <= i - 1)
      BY <2>1, <3>3, <3>4
    <3>6. q[i - 1] = r[i - 1]
      BY <3>2, <3>5
    <3> QED
      BY <2>2, <2>3, <2>4, <3>3, <3>5, <3>6 DEF RecordsOf
  <2>6. Begins(r[m], r[n])
    <3>1. n \in m..n
      BY <2>1
    <3> QED
      BY <2>1, <2>3, <3>1, RecordsGrow
  <2>7. q[m] = r[m]
    BY <2>1, <2>5
  <2> QED
    BY <2>2, <2>3, <2>6, <2>7
<1> QED
  BY <1>1, <1>2

\* What is kept of a history are its first records.
LEMMA KeptMeans ==
  ASSUME NEW f \in Seq(Bytes)
  PROVE  /\ Kept(f) \in Seq(Contents)
         /\ Len(Kept(f)) = IF Len(Parsed(f)) < Limit THEN Len(Parsed(f)) ELSE Limit
         /\ \A i \in 1..Len(Kept(f)) : Kept(f)[i] = Parsed(f)[i]
<1>1. PICK p : p = Parsed(f)
  OBVIOUS
<1>2. p \in Seq(Contents) /\ Len(p) \in Nat
  BY <1>1, ParsedType
<1>3. PICK n : n = IF Len(p) < Limit THEN Len(p) ELSE Limit
  OBVIOUS
<1>4. n \in 0..Len(p)
  BY <1>2, <1>3, ScanAssumption
<1>5. PICK k : k = SubSeq(p, 1, n)
  OBVIOUS
<1>6. Kept(f) = k
  BY <1>1, <1>3, <1>5 DEF Kept
<1>7. k \in Seq(Contents) /\ Len(k) = n /\ \A i \in 1..n : k[i] = p[i]
  BY <1>2, <1>4, <1>5
<1> QED
  BY <1>1, <1>3, <1>6, <1>7

\* The events of a history that goes on are those it had, and new ones.
LEMMA KeptGrows ==
  ASSUME NEW g \in Seq(Bytes), NEW f \in Seq(Bytes), IsPrefix(g, f)
  PROVE  IsPrefix(Kept(g), Kept(f))
<1>1. Begins(Parsed(g), Parsed(f)) /\ Parsed(g) \in Seq(Contents) /\ Parsed(f) \in Seq(Contents)
  BY ParsedGrows, ParsedType
<1>2. Len(Parsed(g)) \in Nat /\ Len(Parsed(f)) \in Nat /\ Limit \in Nat
  BY <1>1, ScanAssumption
<1>3. Len(Kept(g)) <= Len(Kept(f)) /\ Len(Kept(g)) <= Len(Parsed(g)) /\ Len(Kept(g)) \in Nat /\ Len(Kept(f)) \in Nat
  BY <1>1, <1>2, KeptMeans DEF Begins
<1>4. \A i \in 1..Len(Kept(g)) : i \in 1..Len(Kept(f)) /\ i \in 1..Len(Parsed(g))
  BY <1>2, <1>3
<1>5. Begins(Kept(g), Kept(f))
  <2> SUFFICES ASSUME NEW i \in 1..Len(Kept(g)) PROVE Kept(g)[i] = Kept(f)[i]
    BY <1>3 DEF Begins
  <2>1. Kept(g)[i] = Parsed(g)[i] /\ Kept(f)[i] = Parsed(f)[i]
    BY <1>4, KeptMeans
  <2> QED
    BY <1>1, <1>4, <2>1 DEF Begins
<1> QED
  BY <1>5, KeptMeans, BeginsMeans

---------------------------------------------------------------------------
\* The inductive invariant.

ScanStates ==
  [pc : {"idle", "parse", "store", "finish"}, parsed : Histories \cup {NoRevision},
   generation : 0..MaxClaims, outcome : Outcomes \cup {NoOutcome}]

\* What was accepted is stored.
IsStored(a) ==
  a # NoRevision =>
    /\ source.revision # NoRevision
    /\ Len(a) <= Len(source.revision)
    /\ IsPrefix(Kept(a), source.events)

\* The scanner that claimed the file last has recorded no outcome.
ScannerIsSound(h) ==
  /\ h \in ScanStates /\ h.generation <= attempt.generation
  /\ h.pc = "store" => h.parsed # NoRevision
  /\ h.pc = "finish" => IsStored(h.parsed)
  /\ h.pc # "idle" /\ h.generation = attempt.generation => attempt.outcome = NoOutcome

ScanInv ==
  /\ file \in Histories /\ rewrites \in 0..MaxRewrites
  /\ source \in [revision : Histories \cup {NoRevision}, events : Seq(Contents), limited : BOOLEAN]
  /\ attempt \in [generation : 0..MaxClaims, outcome : Outcomes \cup {NoOutcome},
                  accepted : Histories \cup {NoRevision}]
  /\ scan \in [Scanners -> ScanStates]
  /\ source.revision # NoRevision =>
       source.events = Kept(source.revision) /\ source.limited = Limited(source.revision)
  /\ IsStored(attempt.accepted)
  /\ \A s \in Scanners : ScannerIsSound(scan[s])
  /\ \A s, t \in Scanners :
       s # t /\ scan[s].pc # "idle" /\ scan[t].pc # "idle" => scan[s].generation # scan[t].generation

\* A scanner goes on with its claim, or rests.
LEMMA ScannerMoves ==
  ASSUME ScanInv, NEW s \in Scanners, NEW h, UNCHANGED <<file, rewrites, source, attempt>>,
         scan' = [scan EXCEPT ![s] = h], ScannerIsSound(h),
         h.pc # "idle" => scan[s].pc # "idle" /\ h.generation = scan[s].generation
  PROVE  ScanInv'
<1>1. /\ scan' \in [Scanners -> ScanStates] /\ scan'[s] = h
      /\ \A t \in Scanners : t # s => scan'[t] = scan[t]
  BY DEF ScanInv, ScannerIsSound
<1>2. ASSUME NEW a PROVE IsStored(a)' = IsStored(a)
  BY DEF IsStored
<1>3. \A t \in Scanners : ScannerIsSound(scan[t])'
  BY <1>1, <1>2 DEF ScanInv, ScannerIsSound, IsStored
<1>4. IsStored(attempt.accepted)'
  BY DEF ScanInv, IsStored
<1>5. \A u, t \in Scanners :
        u # t /\ scan'[u].pc # "idle" /\ scan'[t].pc # "idle" => scan'[u].generation # scan'[t].generation
  BY <1>1 DEF ScanInv
<1> QED
  BY <1>1, <1>3, <1>4, <1>5 DEF ScanInv

LEMMA RestingIsSound == ScanInv => ScannerIsSound(Resting) /\ Resting.pc = "idle"
BY ScanAssumption DEF ScanInv, ScannerIsSound, Resting, ScanStates

---------------------------------------------------------------------------
\* Steps.

LEMMA ScanInitInv == ScanInit => ScanInv
<1> SUFFICES ASSUME ScanInit PROVE ScanInv
  OBVIOUS
<1>1. <<>> \in Histories
  <2>1. <<>> \in [1..0 -> Bytes] /\ 0 \in 0..MaxBytes
    BY ScanAssumption
  <2>2. IsHistory(<<>>)
    BY DEF IsHistory
  <2> QED
    BY <2>1, <2>2 DEF Histories
<1>2. source \in [revision : Histories \cup {NoRevision}, events : Seq(Contents), limited : BOOLEAN]
      /\ source.revision = NoRevision
  <2>1. PICK old \in {<<>>} \cup [1..1 -> Contents] :
          source = [revision |-> NoRevision, events |-> old, limited |-> FALSE]
    BY DEF ScanInit
  <2>2. old \in Seq(Contents)
    <3>1. 1 \in Nat /\ <<>> \in Seq(Contents) /\ [1..1 -> Contents] \subseteq Seq(Contents)
      BY SeqDef, EmptySeq
    <3> QED
      BY <2>1, <3>1
  <2> QED
    BY <2>1, <2>2
<1>3. attempt \in [generation : 0..MaxClaims, outcome : Outcomes \cup {NoOutcome},
                  accepted : Histories \cup {NoRevision}]
      /\ attempt.accepted = NoRevision /\ attempt.outcome = NoOutcome /\ attempt.generation = 0
  BY ScanAssumption DEF ScanInit
<1>4. Resting \in ScanStates /\ Resting.pc = "idle" /\ Resting.generation = 0
  BY ScanAssumption DEF Resting, ScanStates
<1>5. scan \in [Scanners -> ScanStates] /\ \A s \in Scanners : scan[s] = Resting
  BY <1>4 DEF ScanInit
<1> QED
  BY <1>1, <1>2, <1>3, <1>4, <1>5, ScanAssumption DEF ScanInit, ScanInv, ScannerIsSound, IsStored

\* The agent touches its file alone.
LEMMA FileChanges ==
  ASSUME ScanInv, file' \in Histories, rewrites' \in 0..MaxRewrites, UNCHANGED <<source, attempt, scan>>
  PROVE  ScanInv'
BY DEF ScanInv, ScannerIsSound, IsStored

LEMMA AppendByteInv == ASSUME ScanInv, NEW x \in Bytes, AppendByte(x) PROVE ScanInv'
<1>1. file \in Seq(Bytes) /\ Len(file) \in 0..MaxBytes /\ IsHistory(file)
  BY HistoryMeans DEF ScanInv
<1>2. Len(file) < MaxBytes /\ (Partial(file) => x = End) /\ file' = Append(file, x)
  BY DEF AppendByte
<1>3. file' \in [1..Len(file) + 1 -> Bytes] /\ Len(file') = Len(file) + 1 /\ file'[Len(file) + 1] = x
      /\ \A i \in 1..Len(file) : file'[i] = file[i]
  <2>1. PICK f : f = Append(file, x)
    OBVIOUS
  <2>2. /\ f \in Seq(Bytes) /\ Len(f) = Len(file) + 1 /\ f[Len(file) + 1] = x
        /\ \A i \in 1..Len(file) : f[i] = file[i]
    BY <1>1, <2>1
  <2>3. f \in [1..Len(f) -> Bytes]
    BY <2>2
  <2> QED
    BY <1>2, <2>1, <2>2, <2>3
<1>4. IsHistory(file')
  <2> SUFFICES ASSUME NEW i \in 1..Len(file), file'[i] # End PROVE file'[i + 1] = End
    BY <1>1, <1>3 DEF IsHistory
  <2>1. CASE i < Len(file)
    BY <1>1, <1>3, <2>1 DEF IsHistory
  <2>2. CASE i = Len(file)
    <3>1. Partial(file)
      BY <1>1, <1>3, <2>2 DEF Partial, Last
    <3> QED
      BY <1>2, <1>3, <2>2, <3>1
  <2> QED
    BY <1>1, <2>1, <2>2
<1>5. file' \in Histories
  <2>1. Len(file) + 1 \in 0..MaxBytes
    BY <1>1, <1>2, ScanAssumption
  <2> QED
    BY <1>3, <1>4, <2>1 DEF Histories
<1> QED
  BY <1>5, FileChanges DEF AppendByte, ScanInv

LEMMA RewriteFileInv == ASSUME ScanInv, RewriteFile PROVE ScanInv'
<1>1. file' \in Histories /\ rewrites' \in 0..MaxRewrites
  BY ScanAssumption DEF RewriteFile, ScanInv
<1> QED
  BY <1>1, FileChanges DEF RewriteFile

LEMMA ClaimInv == ASSUME ScanInv, NEW s \in Scanners, Claim(s) PROVE ScanInv'
<1>1. PICK h : h = [Resting EXCEPT !.pc = "parse", !.generation = attempt.generation + 1]
  OBVIOUS
<1>2. PICK n : n = attempt.generation + 1
  OBVIOUS
<1>3. attempt.generation \in 0..MaxClaims /\ n \in 0..MaxClaims /\ n > attempt.generation
  BY <1>2, ScanAssumption DEF Claim, ScanInv
<1>4. h \in ScanStates /\ h.pc = "parse" /\ h.generation = n
  BY <1>1, <1>2, <1>3 DEF Resting, ScanStates
<1>5. /\ attempt' \in [generation : 0..MaxClaims, outcome : Outcomes \cup {NoOutcome},
                      accepted : Histories \cup {NoRevision}]
      /\ attempt'.generation = n /\ attempt'.outcome = NoOutcome /\ attempt'.accepted = NoRevision
  BY <1>2, <1>3 DEF Claim
<1>6. /\ scan' \in [Scanners -> ScanStates] /\ scan'[s] = h
      /\ \A t \in Scanners : t # s => scan'[t] = scan[t]
  BY <1>1, <1>4 DEF Claim, ScanInv
<1>7. \A t \in Scanners : scan[t].generation \in 0..MaxClaims /\ scan[t].generation <= attempt.generation
  BY DEF ScanInv, ScannerIsSound, ScanStates
<1>8. UNCHANGED <<file, rewrites, source>>
  BY DEF Claim
<1>9. \A t \in Scanners : scan[t].generation < n
  BY <1>3, <1>7
<1>10. \A t \in Scanners : ScannerIsSound(scan[t])'
  <2> SUFFICES ASSUME NEW t \in Scanners PROVE ScannerIsSound(scan[t])'
    OBVIOUS
  <2>1. CASE t = s
    BY <1>3, <1>4, <1>5, <1>6, <2>1 DEF ScannerIsSound
  <2>2. CASE t # s
    BY <1>3, <1>5, <1>6, <1>7, <1>8, <1>9, <2>2 DEF ScanInv, ScannerIsSound, IsStored
  <2> QED
    BY <2>1, <2>2
<1>11. \A u, t \in Scanners :
        u # t /\ scan'[u].pc # "idle" /\ scan'[t].pc # "idle" => scan'[u].generation # scan'[t].generation
  BY <1>3, <1>4, <1>6, <1>9 DEF ScanInv
<1> QED
  BY <1>5, <1>6, <1>8, <1>10, <1>11 DEF ScanInv, IsStored

LEMMA ParseInv == ASSUME ScanInv, NEW s \in Scanners, Parse(s) PROVE ScanInv'
<1>1. PICK h : h = [scan[s] EXCEPT !.pc = "store", !.parsed = file]
  OBVIOUS
<1>2. scan[s] \in ScanStates /\ scan[s].pc = "parse" /\ ScannerIsSound(scan[s]) /\ file \in Histories
  BY DEF Parse, ScanInv
<1>3. h \in ScanStates /\ h.pc = "store" /\ h.parsed = file /\ h.generation = scan[s].generation
  BY <1>1, <1>2 DEF ScanStates
<1>4. ScannerIsSound(h)
  BY <1>2, <1>3, NoRevisionAssumption DEF ScannerIsSound
<1>5. scan' = [scan EXCEPT ![s] = h]
  BY <1>1, <1>2 DEF Parse, ScanInv, ScanStates
<1> QED
  BY <1>2, <1>3, <1>4, <1>5, ScannerMoves DEF Parse

LEMMA GiveUpInv == ASSUME ScanInv, NEW s \in Scanners, GiveUp(s) PROVE ScanInv'
<1>1. PICK h : h = [scan[s] EXCEPT !.pc = "finish", !.parsed = NoRevision, !.outcome = "failed"]
  OBVIOUS
<1>2. scan[s] \in ScanStates /\ scan[s].pc # "idle" /\ ScannerIsSound(scan[s])
  BY DEF GiveUp, ScanInv
<1>3. h \in ScanStates /\ h.pc = "finish" /\ h.parsed = NoRevision /\ h.generation = scan[s].generation
  BY <1>1, <1>2 DEF ScanStates, Outcomes
<1>4. ScannerIsSound(h)
  BY <1>2, <1>3 DEF ScannerIsSound, IsStored
<1>5. scan' = [scan EXCEPT ![s] = h]
  BY <1>1, <1>2 DEF GiveUp, ScanInv, ScanStates
<1> QED
  BY <1>2, <1>3, <1>4, <1>5, ScannerMoves DEF GiveUp

LEMMA ScannerDiesInv == ASSUME ScanInv, NEW s \in Scanners, ScannerDies(s) PROVE ScanInv'
BY RestingIsSound, ScannerMoves DEF ScannerDies

LEMMA PrefixIsTransitive ==
  ASSUME NEW s \in Seq(Contents), NEW t \in Seq(Contents), NEW u \in Seq(Contents),
         IsPrefix(s, t), IsPrefix(t, u)
  PROVE  IsPrefix(s, u)
<1>1. Begins(s, t) /\ Begins(t, u)
  BY BeginsMeans
<1>2. Len(s) \in Nat /\ Len(t) \in Nat /\ Len(u) \in Nat
  OBVIOUS
<1>3. Begins(s, u)
  BY <1>1, <1>2 DEF Begins
<1> QED
  BY <1>3, BeginsMeans

LEMMA PrefixIsReflexive ==
  ASSUME NEW s \in Seq(Contents)
  PROVE  IsPrefix(s, s)
<1>1. Begins(s, s)
  BY DEF Begins
<1> QED
  BY <1>1, BeginsMeans

\* A file that may replace what is stored has all of its evidence, whether it goes on
\* after the stored revision or is a rewrite that was checked against the evidence; the
\* merge adds nothing to it.
LEMMA ReplacesMeans ==
  ASSUME ScanInv, NEW f \in Histories, Replaces(f)
  PROVE  /\ IsPrefix(source.events, Kept(f)) /\ Merged(f) = Kept(f)
         /\ source.revision # NoRevision => Len(source.revision) <= Len(f)
<1>1. f \in Seq(Bytes) /\ Len(f) \in Nat /\ source.events \in Seq(Contents)
  BY HistoryMeans DEF ScanInv
<1>2. Kept(f) \in Seq(Contents)
  BY <1>1, KeptMeans
<1>3. source.revision # NoRevision => source.revision \in Seq(Bytes) /\ Len(source.revision) \in Nat
  BY HistoryMeans DEF ScanInv
<1>4. IsPrefix(source.events, Kept(f))
  <2>1. CASE source.revision = NoRevision \/ IsRewritten(f)
    BY <2>1 DEF Replaces, RetainsEvidence
  <2>2. CASE source.revision # NoRevision /\ IsPrefix(source.revision, f)
    BY <1>1, <1>3, <2>2, KeptGrows DEF ScanInv
  <2> QED
    BY <2>1, <2>2 DEF IsRewritten
<1>5. source.revision # NoRevision => Len(source.revision) <= Len(f)
  <2>1. CASE IsRewritten(f)
    BY <1>1, <1>3, <2>1 DEF Replaces, Verified
  <2>2. CASE ~IsRewritten(f)
    BY <2>2 DEF IsRewritten, IsPrefix
  <2> QED
    BY <2>1, <2>2
<1>6. Merged(f) = Kept(f)
  <2>1. PICK e, k : e = source.events /\ k = Kept(f)
    OBVIOUS
  <2>2. e \in Seq(Contents) /\ k \in Seq(Contents) /\ Len(e) \in Nat /\ Len(k) \in Nat /\ Len(e) <= Len(k)
    BY <1>1, <1>2, <1>4, <2>1 DEF IsPrefix
  <2>3. SubSeq(e, Len(k) + 1, Len(e)) = <<>>
    BY <2>2
  <2>4. k \o <<>> = k
    BY <2>2
  <2> QED
    BY <2>1, <2>3, <2>4 DEF Merged
<1> QED
  BY <1>4, <1>5, <1>6

\* What a scanner stores is nothing, or a revision that has all that was stored.
LEMMA StoreMeans ==
  ASSUME ScanInv, NEW s \in Scanners, StoreCapture(s)
  PROVE  \E h : /\ h \in ScanStates /\ h.pc = "finish" /\ h.generation = scan[s].generation
                /\ scan' = [scan EXCEPT ![s] = h]
                /\ \/ h.parsed = NoRevision /\ UNCHANGED source
                   \/ /\ h.parsed \in Histories
                      /\ source' \in [revision : Histories \cup {NoRevision}, events : Seq(Contents),
                                      limited : BOOLEAN]
                      /\ source'.revision = h.parsed /\ source'.events = Kept(h.parsed)
                      /\ source'.limited = Limited(h.parsed)
                      /\ IsPrefix(source.events, source'.events)
                      /\ source.revision # NoRevision => Len(source.revision) <= Len(h.parsed)
<1> DEFINE f == scan[s].parsed
<1>1. scan[s] \in ScanStates /\ f \in Histories /\ f \in Seq(Bytes) /\ scan = [t \in Scanners |-> scan[t]]
  <2>1. scan[s] \in ScanStates /\ f # NoRevision
    BY DEF StoreCapture, ScanInv, ScannerIsSound
  <2> QED
    BY <2>1, HistoryMeans DEF ScanStates, ScanInv
<1>2. CASE Replaces(f) /\ Merges(f)
  <2>1. PICK h : h = [scan[s] EXCEPT !.pc = "finish", !.parsed = f, !.outcome = "stored"]
    OBVIOUS
  <2>2. h \in ScanStates /\ h.pc = "finish" /\ h.generation = scan[s].generation /\ h.parsed = f
    BY <1>1, <2>1 DEF ScanStates, Outcomes
  <2>3. scan' = [scan EXCEPT ![s] = h]
    BY <1>1, <1>2, <2>1 DEF StoreCapture, ScanStates
  <2>4. source' = [revision |-> f, events |-> Merged(f), limited |-> Limited(f)]
    BY <1>2 DEF StoreCapture
  <2>5. Kept(f) \in Seq(Contents) /\ Limited(f) \in BOOLEAN
    BY <1>1, KeptMeans DEF Limited
  <2>6. IsPrefix(source.events, Kept(f)) /\ Merged(f) = Kept(f)
        /\ (source.revision # NoRevision => Len(source.revision) <= Len(f))
    BY <1>1, <1>2, ReplacesMeans
  <2> HIDE DEF f
  <2> QED
    BY <1>1, <2>2, <2>3, <2>4, <2>5, <2>6
<1>3. CASE ~(Replaces(f) /\ Merges(f))
  <2>1. PICK h : h = [scan[s] EXCEPT !.pc = "finish", !.parsed = NoRevision, !.outcome = "failed"]
    OBVIOUS
  <2>2. h \in ScanStates /\ h.pc = "finish" /\ h.generation = scan[s].generation /\ h.parsed = NoRevision
    BY <1>1, <2>1 DEF ScanStates, Outcomes
  <2>3. scan' = [scan EXCEPT ![s] = h] /\ source' = source
    BY <1>1, <1>3, <2>1 DEF StoreCapture, ScanStates
  <2> QED
    BY <2>2, <2>3
<1> QED
  BY <1>2, <1>3

LEMMA StoreCaptureInv == ASSUME ScanInv, NEW s \in Scanners, StoreCapture(s) PROVE ScanInv'
<1>1. PICK h : /\ h \in ScanStates /\ h.pc = "finish" /\ h.generation = scan[s].generation
               /\ scan' = [scan EXCEPT ![s] = h]
               /\ \/ h.parsed = NoRevision /\ UNCHANGED source
                  \/ /\ h.parsed \in Histories
                     /\ source' \in [revision : Histories \cup {NoRevision}, events : Seq(Contents),
                                     limited : BOOLEAN]
                     /\ source'.revision = h.parsed /\ source'.events = Kept(h.parsed)
                     /\ source'.limited = Limited(h.parsed)
                     /\ IsPrefix(source.events, source'.events)
                     /\ source.revision # NoRevision => Len(source.revision) <= Len(h.parsed)
  BY StoreMeans
<1>2. scan[s].pc = "store" /\ ScannerIsSound(scan[s]) /\ UNCHANGED <<file, rewrites, attempt>>
  BY DEF StoreCapture, ScanInv
<1>3. CASE h.parsed = NoRevision /\ UNCHANGED source
  <2>1. ScannerIsSound(h)
    BY <1>1, <1>2, <1>3 DEF ScannerIsSound, IsStored
  <2> QED
    BY <1>1, <1>2, <1>3, <2>1, ScannerMoves
<1>4. CASE /\ h.parsed \in Histories
           /\ source' \in [revision : Histories \cup {NoRevision}, events : Seq(Contents),
                           limited : BOOLEAN]
           /\ source'.revision = h.parsed /\ source'.events = Kept(h.parsed)
           /\ source'.limited = Limited(h.parsed)
           /\ IsPrefix(source.events, source'.events)
           /\ source.revision # NoRevision => Len(source.revision) <= Len(h.parsed)
  <2>1. /\ h.parsed # NoRevision /\ source.events \in Seq(Contents) /\ source'.events \in Seq(Contents)
        /\ Len(h.parsed) \in Nat
    BY <1>4, NoRevisionAssumption, HistoryMeans DEF ScanInv
  <2>2. ASSUME NEW a \in Histories \cup {NoRevision}, IsStored(a) PROVE IsStored(a)'
    <3> SUFFICES ASSUME a # NoRevision
                 PROVE  /\ source'.revision # NoRevision /\ Len(a) <= Len(source'.revision)
                        /\ IsPrefix(Kept(a), source'.events)
      BY DEF IsStored
    <3>1. /\ source.revision # NoRevision /\ Len(a) <= Len(source.revision)
          /\ IsPrefix(Kept(a), source.events)
      BY <2>2 DEF IsStored
    <3>2. Len(a) \in Nat /\ Len(source.revision) \in Nat /\ Kept(a) \in Seq(Contents)
      <4>1. a \in Seq(Bytes) /\ source.revision \in Seq(Bytes)
        BY <2>2, <3>1, HistoryMeans DEF ScanInv
      <4> QED
        BY <4>1, KeptMeans
    <3>3. Len(a) <= Len(h.parsed)
      BY <1>4, <2>1, <3>1, <3>2
    <3>4. IsPrefix(Kept(a), source'.events)
      BY <1>4, <2>1, <3>1, <3>2, PrefixIsTransitive
    <3> QED
      BY <1>4, <2>1, <3>3, <3>4
  <2>3. IsStored(h.parsed)'
    <3>1. IsPrefix(source'.events, source'.events) /\ Len(h.parsed) <= Len(h.parsed)
      BY <2>1, PrefixIsReflexive
    <3> QED
      BY <1>4, <2>1, <3>1 DEF IsStored
  <2>4. /\ scan' \in [Scanners -> ScanStates] /\ scan'[s] = h
        /\ \A t \in Scanners : t # s => scan'[t] = scan[t]
    BY <1>1 DEF ScanInv
  <2>5. ASSUME NEW t \in Scanners PROVE ScannerIsSound(scan[t])'
    <3>1. CASE t = s
      BY <1>1, <1>2, <2>3, <2>4, <3>1 DEF ScannerIsSound, ScanInv, IsStored
    <3>2. CASE t # s
      <4>1. ScannerIsSound(scan[t]) /\ scan[t].parsed \in Histories \cup {NoRevision} /\ scan'[t] = scan[t]
        BY <2>4, <3>2 DEF ScanInv, ScanStates
      <4>2. scan[t].pc = "finish" => IsStored(scan[t].parsed)'
        BY <2>2, <4>1 DEF ScannerIsSound
      <4> QED
        BY <1>2, <4>1, <4>2 DEF ScannerIsSound, IsStored
    <3> QED
      BY <3>1, <3>2
  <2>6. IsStored(attempt.accepted)'
    <3>1. attempt.accepted \in Histories \cup {NoRevision} /\ IsStored(attempt.accepted)
      BY DEF ScanInv
    <3> QED
      BY <1>2, <2>2, <3>1 DEF IsStored
  <2>7. \A u, t \in Scanners :
          u # t /\ scan'[u].pc # "idle" /\ scan'[t].pc # "idle" => scan'[u].generation # scan'[t].generation
    BY <1>1, <1>2, <2>4 DEF ScanInv
  <2> QED
    BY <1>2, <1>4, <2>4, <2>5, <2>6, <2>7 DEF ScanInv
<1> QED
  BY <1>1, <1>3, <1>4

LEMMA FinishInv == ASSUME ScanInv, NEW s \in Scanners, Finish(s) PROVE ScanInv'
<1>1. scan[s].pc = "finish" /\ ScannerIsSound(scan[s]) /\ UNCHANGED <<file, rewrites, source>>
      /\ scan' = [scan EXCEPT ![s] = Resting]
  BY DEF Finish, ScanInv
<1>2. CASE scan[s].generation # attempt.generation
  <2>1. UNCHANGED attempt
    BY <1>2 DEF Finish
  <2> QED
    BY <1>1, <2>1, RestingIsSound, ScannerMoves
<1>3. CASE scan[s].generation = attempt.generation
  <2>1. attempt' = [attempt EXCEPT !.outcome = scan[s].outcome, !.accepted = scan[s].parsed]
    BY <1>3 DEF Finish, Outcome
  <2>2. /\ attempt' \in [generation : 0..MaxClaims, outcome : Outcomes \cup {NoOutcome},
                        accepted : Histories \cup {NoRevision}]
        /\ attempt'.generation = attempt.generation /\ attempt'.accepted = scan[s].parsed
    BY <1>1, <2>1 DEF ScanInv, ScannerIsSound, ScanStates
  <2>3. ASSUME NEW a PROVE IsStored(a)' = IsStored(a)
    BY <1>1 DEF IsStored
  <2>4. IsStored(attempt.accepted)'
    BY <1>1, <2>2 DEF ScannerIsSound, IsStored
  <2>5. /\ scan' \in [Scanners -> ScanStates] /\ scan'[s] = Resting
        /\ \A t \in Scanners : t # s => scan'[t] = scan[t]
    BY <1>1, RestingIsSound DEF ScanInv, ScannerIsSound
  <2>6. ASSUME NEW t \in Scanners PROVE ScannerIsSound(scan[t])'
    <3>1. CASE t = s
      BY <2>2, <2>5, <3>1, RestingIsSound DEF ScannerIsSound
    <3>2. CASE t # s
      <4>1. scan[t].pc # "idle" => scan[t].generation # attempt.generation
        BY <1>1, <1>3, <3>2 DEF ScanInv
      <4>2. ScannerIsSound(scan[t]) /\ scan'[t] = scan[t]
        BY <2>5, <3>2 DEF ScanInv
      <4> QED
        BY <1>1, <2>2, <4>1, <4>2 DEF ScannerIsSound, IsStored
    <3> QED
      BY <3>1, <3>2
  <2>7. \A u, t \in Scanners :
          u # t /\ scan'[u].pc # "idle" /\ scan'[t].pc # "idle" => scan'[u].generation # scan'[t].generation
    BY <2>5, RestingIsSound DEF ScanInv
  <2> QED
    BY <1>1, <2>2, <2>4, <2>5, <2>6, <2>7 DEF ScanInv
<1> QED
  BY <1>2, <1>3

LEMMA ScanStepInv == ScanInv /\ [ScanNext]_scanVars => ScanInv'
<1> SUFFICES ASSUME ScanInv, [ScanNext]_scanVars PROVE ScanInv'
  OBVIOUS
<1>1. CASE ScanNext
  BY <1>1, AppendByteInv, RewriteFileInv, ClaimInv, ParseInv, GiveUpInv, StoreCaptureInv, FinishInv,
     ScannerDiesInv DEF ScanNext
<1>2. CASE UNCHANGED scanVars
  <2>1. file' \in Histories /\ rewrites' \in 0..MaxRewrites /\ UNCHANGED <<source, attempt, scan>>
    BY <1>2 DEF scanVars, ScanInv
  <2> QED
    BY <2>1, FileChanges
<1> QED
  BY <1>1, <1>2

\* No scan changes what an attempt has come to, and no evidence is lost.
LEMMA ScanStepKeeps ==
  ASSUME ScanInv, [ScanNext]_scanVars
  PROVE  [ /\ IsPrefix(source.events, source'.events)
           /\ attempt.outcome # NoOutcome => attempt' = attempt \/ attempt'.generation > attempt.generation
         ]_scanVars
<1> SUFFICES ASSUME ScanNext
             PROVE  /\ IsPrefix(source.events, source'.events)
                    /\ attempt.outcome # NoOutcome =>
                         attempt' = attempt \/ attempt'.generation > attempt.generation
  OBVIOUS
<1>1. UNCHANGED source => IsPrefix(source.events, source'.events)
  BY PrefixIsReflexive DEF ScanInv
<1>2. CASE (\E x \in Bytes : AppendByte(x)) \/ RewriteFile
  BY <1>1, <1>2 DEF AppendByte, RewriteFile
<1>3. ASSUME NEW s \in Scanners, Claim(s)
      PROVE  UNCHANGED source /\ attempt'.generation > attempt.generation
  <2>1. attempt.generation \in Nat
    BY DEF ScanInv
  <2> QED
    BY <1>3, <2>1 DEF Claim
<1>4. ASSUME NEW s \in Scanners, Parse(s) \/ GiveUp(s) \/ ScannerDies(s)
      PROVE  UNCHANGED source /\ UNCHANGED attempt
  BY <1>4 DEF Parse, GiveUp, ScannerDies
<1>5. ASSUME NEW s \in Scanners, StoreCapture(s)
      PROVE  IsPrefix(source.events, source'.events) /\ UNCHANGED attempt
  BY <1>1, <1>5, StoreMeans DEF StoreCapture
<1>6. ASSUME NEW s \in Scanners, Finish(s)
      PROVE  UNCHANGED source /\ (attempt.outcome # NoOutcome => UNCHANGED attempt)
  <2>1. scan[s].pc = "finish" /\ ScannerIsSound(scan[s])
    BY <1>6 DEF Finish, ScanInv
  <2> QED
    BY <1>6, <2>1 DEF Finish, ScannerIsSound
<1> QED
  BY <1>1, <1>2, <1>3, <1>4, <1>5, <1>6 DEF ScanNext

LEMMA ScanInvEvidence == ScanInv => EvidenceIsTheSource
BY DEF ScanInv, EvidenceIsTheSource, IsStored

\* The types of a scan and its claims, the evidence of the stored revision, and what the
\* scanners have accepted.
THEOREM ScanInvariant == ScanInit /\ [][ScanNext]_scanVars => []ScanInv
BY ScanInitInv, ScanStepInv, PTL

\* The stored evidence is that of the stored revision (_store_agent_capture and
\* verify_source_revision), and a recorded acceptance is still stored.
THEOREM EvidenceIsSound == ScanInit /\ [][ScanNext]_scanVars => []EvidenceIsTheSource
BY ScanInvariant, ScanInvEvidence, PTL

\* verify_retained_local_evidence and the generation of finish_local_scan_attempt: no
\* step loses evidence or changes what a later attempt came to.
THEOREM EvidenceIsKept == ScanInit /\ [][ScanNext]_scanVars => KeptAndDecided
BY ScanInvariant, ScanStepKeeps, PTL DEF KeptAndDecided

---------------------------------------------------------------------------
\* All that captures, beside each other.

\* The wrappers of streamed model calls, and their clients, keep to their types.
THEOREM WrapperTypes == WrapperSpec => []WrapperTypeOK
<1>1. WrapperInv => WrapperTypeOK
  <2> SUFFICES ASSUME WrapperInv PROVE WrapperTypeOK
    OBVIOUS
  <2>1. ASSUME NEW c \in Calls
        PROVE  /\ DOMAIN call[c] = DOMAIN NotCalled /\ call[c].client \in 0..client.number
               /\ call[c] \in CallStates
    <3>1. call[c] \in CallStates /\ call[c].client <= client.number /\ client.number \in Nat
      BY ClientAssumption DEF WrapperInv, CallIsSound
    <3>2. call[c].client \in 0..client.number
      BY <3>1, ClientAssumption DEF CallStates
    <3>3. DOMAIN call[c] = DOMAIN NotCalled
      BY <3>1 DEF CallStates, NotCalled
    <3> QED
      BY <3>1, <3>2, <3>3
  <2> QED
    BY <2>1 DEF WrapperInv, WrapperTypeOK, CallStates
<1> QED
  BY <1>1, WrapperInvariant, PTL

\* An agent run, its turns and what storage has of it keep to their types; a context is in
\* turns that there are.
THEOREM StreamTypes == StreamInit /\ [][StreamNext]_streamVars => []StreamTypeOK
<1>1. StreamInv => StreamTypeOK
  <2> SUFFICES ASSUME StreamInv PROVE StreamTypeOK
    OBVIOUS
  <2>1. turns \in Seq(TurnStates) /\ DOMAIN turns = 1..Len(turns) /\ Len(turns) \in Nat
    BY DEF StreamInv, AgentIsSound
  <2>2. \A t \in DOMAIN turns : turns[t] \in TurnStates
    BY <2>1
  <2>3. ASSUME NEW c \in Contexts
        PROVE  {ctx[c].active, ctx[c].call, ctx[c].batch.turn} \subseteq 0..Len(turns)
    <3>1. StateIsSound(c, ctx[c])
      BY DEF StreamInv, ContextIsSound
    <3>2. /\ ctx[c].active \in 0..Len(turns) /\ ctx[c].call \in 0..Len(turns)
          /\ BatchIsSound(ctx[c].batch)
      BY <3>1 DEF StateIsSound
    <3>3. ctx[c].batch.turn \in 0..Len(turns)
      BY <3>2 DEF BatchIsSound
    <3> QED
      BY <3>2, <3>3
  <2>4. 0..Len(turns) = {NoTurn} \cup DOMAIN turns
    BY <2>1 DEF NoTurn
  <2>5. agent \in AgentStates /\ StorageIsSound
    BY DEF StreamInv, AgentIsSound
  <2>6. central.run \in Statuses \cup {Absent} /\ central.refused \in BOOLEAN /\ delivered \in 0..Len(stream)
    BY <2>5 DEF StorageIsSound
  <2> QED
    BY <2>2, <2>3, <2>4, <2>5, <2>6 DEF StreamTypeOK, TurnStates, AgentStates
<1> QED
  BY <1>1, StreamInvariant, PTL

\* A history file and what is stored of it keep to their types; no scanner has a claim
\* that was not made.
THEOREM ScanTypes == ScanInit /\ [][ScanNext]_scanVars => []ScanTypeOK
<1>1. ScanInv => ScanTypeOK
  BY DEF ScanInv, ScanTypeOK, ScannerIsSound, ScanStates
<1> QED
  BY <1>1, ScanInvariant, PTL

\* The spool, agent runs, model calls and local histories of MCCapture each do what they do alone.
LEMMA CaptureHasParts ==
  Spec => /\ SpoolSpec /\ StreamInit /\ [][StreamNext]_streamVars
          /\ WrapperSpec /\ ScanInit /\ [][ScanNext]_scanVars
<1>1. Init => InitSpool /\ StreamInit /\ WrapperInit /\ ScanInit
  BY DEF Init
<1>2. [Next]_<<spoolVars, streamVars, wrapperVars, scanVars>> =>
        /\ [NextSpool]_spoolVars /\ [StreamNext]_streamVars
        /\ [WrapperNext]_wrapperVars /\ [ScanNext]_scanVars
  BY DEF Next
<1> QED
  BY <1>1, <1>2, PTL DEF Spec, SpoolSpec, WrapperSpec

\* Everything that is captured before it is shipped (CaptureIsWhole of MCCapture): producers,
\* agent runs, model calls and local histories keep to their types, and what was captured
\* is there in whole records.
THEOREM CaptureStaysWhole == Spec => []CaptureIsWhole
BY CaptureHasParts, SpoolTypes, CapturedRecordsAreWhole, StreamTypes, WrapperTypes, ScanTypes, PTL
   DEF CaptureIsWhole

\* So the theorems about the parts hold of MCCapture: what a spool, a run, a model call or a
\* history file leaves behind is sound, and no step harms what is there.
THEOREM CaptureIsSafe ==
  Spec => /\ [](StreamIsWhole /\ CallsAreTraced /\ EvidenceIsTheSource)
          /\ SegmentsAreOwned /\ KeptAndDecided
BY CaptureHasParts, RunsAreWhole, CallsHaveOneTrace, EvidenceIsSound, SegmentsHaveOwners, EvidenceIsKept, PTL

===========================================================================
