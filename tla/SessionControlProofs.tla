----------------------- MODULE SessionControlProofs -----------------------
(***************************************************************************)
(* Proofs about SessionControl: for any builder an application can write,  *)
(* any names, and any number of sessions that others start and stop.       *)
(***************************************************************************)
EXTENDS SessionControl, DataInduction, TLAPS

(* Records and sequences *)

LEMMA SequenceTypes ==
  ASSUME NEW s, IsSequence(s)
  PROVE  Len(s) \in Nat /\ DOMAIN s = 1 .. Len(s)
<1> DEFINE Elements == {s[i] : i \in DOMAIN s}
<1>1. s \in Seq(Elements)
  BY DEF IsSequence
<1> HIDE DEF Elements
<1> QED BY <1>1

\* A session is started with a flush timer that the OS takes, and all its masks.
LEMMA NewSessionTypes ==
  ASSUME NEW b, b.flush \in Nat
  PROVE  /\ NewSession(b).owner = Us
         /\ NewSession(b).flush \in 1 .. MaxSeconds
         /\ DOMAIN NewSession(b).masks = Masks
         /\ NewSession(b).stacks = {}
         /\ DOMAIN NewSession(b).enabled = {}
<1>1. FlushSeconds(b.flush) \in 1 .. MaxSeconds
  BY SetupAssumption DEF SetupAssumption, FlushSeconds
<1> QED BY <1>1 DEF NewSession

LEMMA NoRequestTypes ==
  /\ NoRequest.flush \in Nat
  /\ Len(NoRequest.providers) = 0
  /\ DOMAIN NoRequest.providers = {}
BY DEF NoRequest, NewBuilder, Named

\* Any builder starts with as many providers as it has.
LEMMA BuilderTypes ==
  ASSUME NEW b \in Requests
  PROVE  /\ b.flush \in Nat
         /\ Len(b.providers) \in Nat
         /\ DOMAIN b.providers = 1 .. Len(b.providers)
         /\ b.kernel \in BOOLEAN /\ b.existing \in BOOLEAN /\ b.replace \in BOOLEAN
         /\ IsSequence(b.name)
<1>1. b.flush \in Nat /\ {b.kernel, b.existing, b.replace} \subseteq BOOLEAN
      /\ IsSequence(b.name) /\ IsSequence(b.providers)
  BY RequestsAssumption DEF RequestsAssumption
<1> QED BY <1>1, SequenceTypes
\* The request is one that the assumption speaks of, or the empty one.
LEMMA RequestTypes ==
  ASSUME SetupIInv
  PROVE  /\ request.flush \in Nat
         /\ Len(request.providers) \in Nat
         /\ DOMAIN request.providers = 1 .. Len(request.providers)
         /\ phase # "builder" => request.kernel \in BOOLEAN /\ request.existing \in BOOLEAN
                                 /\ request.replace \in BOOLEAN /\ IsSequence(request.name)
<1>1. CASE request \in Requests
  BY <1>1, BuilderTypes
<1>2. CASE request = NoRequest
  BY <1>2, BuilderTypes, NoRequestTypes DEF SetupIInv, PhasesFollow
<1> QED BY <1>1, <1>2 DEF SetupIInv, SetupTypeOK

-----------------------------------------------------------------------------
(* Typing *)

\* An enable changes nothing of the session but what is enabled.
LEMMA EnableChanges ==
  ASSUME EnableNext, ~ UNCHANGED sessions
  PROVE  \E enabled : /\ Ours
                      /\ sessions' = [sessions EXCEPT ![Session] =
                                        [sessions[Session] EXCEPT !.enabled = enabled]]
BY DEF EnableNext, OnSession, Fail

\* Each step leaves the sessions records.
LEMMA SessionsStep ==
  ASSUME SetupIInv, [SetupNext]_setupVars
  PROVE  SessionsAreRecords'
<1> USE NewSessionTypes, RequestTypes, BuilderTypes DEF SetupIInv, SessionsAreRecords
<1>1. ASSUME Build PROVE SessionsAreRecords'
  BY <1>1 DEF Build
<1>2. ASSUME StopExisting PROVE SessionsAreRecords'
  BY <1>2 DEF StopExisting
<1>3. ASSUME StartTrace PROVE SessionsAreRecords'
  BY <1>3 DEF StartTrace, NewSession
<1>4. ASSUME SetStacks PROVE SessionsAreRecords'
  BY <1>4 DEF SetStacks, OnSession, Fail, Ours
<1>5. ASSUME QueryGroups PROVE SessionsAreRecords'
  BY <1>5 DEF QueryGroups, Fail, Ours
<1>6. ASSUME SetGroups PROVE SessionsAreRecords'
  BY <1>6 DEF SetGroups, OnSession, Fail, Ours
<1>7. ASSUME CheckFilters PROVE SessionsAreRecords'
  BY <1>7 DEF CheckFilters, Fail
<1>8. ASSUME EnableNext PROVE SessionsAreRecords'
  BY <1>8 DEF EnableNext, OnSession, Fail, Ours
<1>9. ASSUME AllEnabled PROVE SessionsAreRecords'
  BY <1>9 DEF AllEnabled
<1>10. ASSUME Open PROVE SessionsAreRecords'
  BY <1>10 DEF Open, Fail
<1>11. ASSUME CaptureNext PROVE SessionsAreRecords'
  BY <1>11 DEF CaptureNext, OnSession, Fail, Ours
<1>12. ASSUME HandOver PROVE SessionsAreRecords'
  BY <1>12 DEF HandOver
<1>13. ASSUME GuardClose PROVE SessionsAreRecords'
  BY <1>13 DEF GuardClose
<1>14. ASSUME GuardStop PROVE SessionsAreRecords'
  BY <1>14 DEF GuardStop, Ours
<1>15. ASSUME NEW n \in OthersNames, OtherStarts(n) PROVE SessionsAreRecords'
  BY <1>15 DEF OtherStarts, NewSession
<1>16. ASSUME NEW n \in DOMAIN sessions, OtherStops(n) PROVE SessionsAreRecords'
  BY <1>16 DEF OtherStops
<1>17. CASE UNCHANGED setupVars
  BY <1>17 DEF setupVars
<1> QED BY <1>1, <1>2, <1>3, <1>4, <1>5, <1>6, <1>7, <1>8, <1>9, <1>10, <1>11, <1>12, <1>13, <1>14, <1>15, <1>16, <1>17 DEF SetupNext, Configure

\* Each step keeps the types.
LEMMA TypeStep ==
  ASSUME SetupIInv, [SetupNext]_setupVars
  PROVE  SetupTypeOK'
<1> USE NewSessionTypes, RequestTypes, BuilderTypes, SetupAssumption
    DEF SetupIInv, SetupTypeOK, SessionsAreRecords, PhasesFollow, SetupAssumption, Broken, Attached, Grouping
<1>1. ASSUME Build PROVE SetupTypeOK'
  BY <1>1 DEF Build
<1>2. ASSUME StopExisting PROVE SetupTypeOK'
  BY <1>2 DEF StopExisting
<1>3. ASSUME StartTrace PROVE SetupTypeOK'
  BY <1>3 DEF StartTrace
<1>4. ASSUME SetStacks PROVE SetupTypeOK'
  <2>1. CASE UNCHANGED sessions
    BY <1>4, <2>1 DEF SetStacks, OnSession, Fail
  <2>2. CASE ~ UNCHANGED sessions
    <3>1. PICK stacks : Ours /\ sessions' = [sessions EXCEPT ![Session] = [sessions[Session] EXCEPT !.stacks = stacks]]
      BY <1>4, <2>2 DEF SetStacks, OnSession, Fail
    <3> QED BY <1>4, <3>1 DEF SetStacks, OnSession, Fail, Ours
  <2> QED BY <2>1, <2>2
<1>5. ASSUME QueryGroups PROVE SetupTypeOK'
  BY <1>5 DEF QueryGroups, Fail, Ours
<1>6. ASSUME SetGroups PROVE SetupTypeOK'
  <2>1. DOMAIN WithGroups(groupMask, request.groups) = Masks
    BY DEF WithGroups
  <2> QED BY <1>6, <2>1 DEF SetGroups, OnSession, Fail, Ours
<1>7. ASSUME CheckFilters PROVE SetupTypeOK'
  BY <1>7 DEF CheckFilters, Fail
<1>8. ASSUME EnableNext PROVE SetupTypeOK'
  <2>1. next' \in 1 .. Len(request.providers) + 1
    BY <1>8 DEF EnableNext
  <2>2. CASE UNCHANGED sessions
    BY <1>8, <2>1, <2>2 DEF EnableNext, OnSession, Fail
  <2>3. CASE ~ UNCHANGED sessions
    <3>1. PICK enabled : Ours /\ sessions' = [sessions EXCEPT ![Session] = [sessions[Session] EXCEPT !.enabled = enabled]]
      BY <1>8, <2>3, EnableChanges
    <3> QED BY <1>8, <2>1, <3>1 DEF EnableNext, OnSession, Fail, Ours
  <2> QED BY <2>2, <2>3
<1>9. ASSUME AllEnabled PROVE SetupTypeOK'
  BY <1>9 DEF AllEnabled
<1>10. ASSUME Open PROVE SetupTypeOK'
  BY <1>10 DEF Open, Fail
<1>11. ASSUME CaptureNext PROVE SetupTypeOK'
  BY <1>11 DEF CaptureNext, OnSession, Fail, Ours
<1>12. ASSUME HandOver PROVE SetupTypeOK'
  BY <1>12 DEF HandOver
<1>13. ASSUME GuardClose PROVE SetupTypeOK'
  BY <1>13 DEF GuardClose
<1>14. ASSUME GuardStop PROVE SetupTypeOK'
  BY <1>14 DEF GuardStop, Ours
<1>15. ASSUME NEW n \in OthersNames, OtherStarts(n) PROVE SetupTypeOK'
  BY <1>15 DEF OtherStarts
<1>16. ASSUME NEW n \in DOMAIN sessions, OtherStops(n) PROVE SetupTypeOK'
  BY <1>16 DEF OtherStops
<1>17. CASE UNCHANGED setupVars
  BY <1>17 DEF setupVars
<1> QED BY <1>1, <1>2, <1>3, <1>4, <1>5, <1>6, <1>7, <1>8, <1>9, <1>10, <1>11, <1>12, <1>13, <1>14, <1>15, <1>16, <1>17 DEF SetupNext, Configure

\* Each phase starts from what the one before it left.
LEMMA PhasesStep ==
  ASSUME SetupIInv, [SetupNext]_setupVars
  PROVE  PhasesFollow'
<1> USE RequestTypes, BuilderTypes
    DEF SetupIInv, SetupTypeOK, PhasesFollow, Broken, Attached, Grouping
<1>1. ASSUME Build PROVE PhasesFollow'
  BY <1>1 DEF Build
<1>2. ASSUME StopExisting PROVE PhasesFollow'
  BY <1>2 DEF StopExisting
<1>3. ASSUME StartTrace PROVE PhasesFollow'
  BY <1>3 DEF StartTrace
<1>4. ASSUME SetStacks PROVE PhasesFollow'
  BY <1>4 DEF SetStacks, OnSession, Fail, Ours
<1>5. ASSUME QueryGroups PROVE PhasesFollow'
  BY <1>5 DEF QueryGroups, Fail, Ours
<1>6. ASSUME SetGroups PROVE PhasesFollow'
  BY <1>6 DEF SetGroups, OnSession, Fail, Ours
<1>7. ASSUME CheckFilters PROVE PhasesFollow'
  BY <1>7 DEF CheckFilters, Fail
<1>8. ASSUME EnableNext PROVE PhasesFollow'
  BY <1>8 DEF EnableNext, OnSession, Fail, Ours
<1>9. ASSUME AllEnabled PROVE PhasesFollow'
  BY <1>9 DEF AllEnabled
<1>10. ASSUME Open PROVE PhasesFollow'
  BY <1>10 DEF Open, Fail
<1>11. ASSUME CaptureNext PROVE PhasesFollow'
  BY <1>11 DEF CaptureNext, OnSession, Fail, Ours
<1>12. ASSUME HandOver PROVE PhasesFollow'
  BY <1>12 DEF HandOver
<1>13. ASSUME GuardClose PROVE PhasesFollow'
  BY <1>13 DEF GuardClose
<1>14. ASSUME GuardStop PROVE PhasesFollow'
  BY <1>14 DEF GuardStop, Ours
<1>15. ASSUME NEW n \in OthersNames, OtherStarts(n) PROVE PhasesFollow'
  BY <1>15 DEF OtherStarts
<1>16. ASSUME NEW n \in DOMAIN sessions, OtherStops(n) PROVE PhasesFollow'
  BY <1>16 DEF OtherStops
<1>17. CASE UNCHANGED setupVars
  BY <1>17 DEF setupVars
<1> QED BY <1>1, <1>2, <1>3, <1>4, <1>5, <1>6, <1>7, <1>8, <1>9, <1>10, <1>11, <1>12, <1>13, <1>14, <1>15, <1>16, <1>17 DEF SetupNext, Configure
-----------------------------------------------------------------------------
(* The name *)

\* A name that holds no NUL and fits is started as it was given.
LEMMA WholeName ==
  ASSUME NEW name, IsSequence(name), ~ Has(name, NUL), ~ (Len(name) > MaxName)
  PROVE  Wide(name) = name
<1> DEFINE Characters == {name[i] : i \in DOMAIN name}
<1>1. name \in Seq(Characters)
  BY DEF IsSequence
<1> HIDE DEF Characters
<1>2. Wide(name) = SubSeq(name, 1, IF Len(name) < MaxName THEN Len(name) ELSE MaxName)
  BY DEF Wide, Has
<1>3. (IF Len(name) < MaxName THEN Len(name) ELSE MaxName) = Len(name)
  BY <1>1, SetupAssumption DEF SetupAssumption
<1>4. SubSeq(name, 1, Len(name)) = name
  BY <1>1
<1> QED BY <1>2, <1>3, <1>4

\* Each step but StartTrace leaves the owners alone.
LEMMA OwnershipStep ==
  ASSUME SetupIInv, [SetupNext]_setupVars
  PROVE  OursIsStarted'
<1> USE RequestTypes, BuilderTypes, SetupAssumption
    DEF SetupIInv, SessionsAreRecords, PhasesFollow, OursIsStarted, SetupAssumption, Unstarted, Broken, Attached, Grouping
<1>1. ASSUME Build PROVE OursIsStarted'
  BY <1>1 DEF Build
<1>2. ASSUME StopExisting PROVE OursIsStarted'
  BY <1>2 DEF StopExisting
<1>3. ASSUME StartTrace PROVE OursIsStarted'
  BY <1>3 DEF StartTrace
<1>4. ASSUME SetStacks PROVE OursIsStarted'
  BY <1>4 DEF SetStacks, OnSession, Fail, Ours
<1>5. ASSUME QueryGroups PROVE OursIsStarted'
  BY <1>5 DEF QueryGroups, Fail, Ours
<1>6. ASSUME SetGroups PROVE OursIsStarted'
  BY <1>6 DEF SetGroups, OnSession, Fail, Ours
<1>7. ASSUME CheckFilters PROVE OursIsStarted'
  BY <1>7 DEF CheckFilters, Fail
<1>8. ASSUME EnableNext PROVE OursIsStarted'
  BY <1>8 DEF EnableNext, OnSession, Fail, Ours
<1>9. ASSUME AllEnabled PROVE OursIsStarted'
  BY <1>9 DEF AllEnabled
<1>10. ASSUME Open PROVE OursIsStarted'
  BY <1>10 DEF Open, Fail
<1>11. ASSUME CaptureNext PROVE OursIsStarted'
  BY <1>11 DEF CaptureNext, OnSession, Fail, Ours
<1>12. ASSUME HandOver PROVE OursIsStarted'
  BY <1>12 DEF HandOver
<1>13. ASSUME GuardClose PROVE OursIsStarted'
  BY <1>13 DEF GuardClose
<1>14. ASSUME GuardStop PROVE OursIsStarted'
  BY <1>14 DEF GuardStop, Ours
<1>15. ASSUME NEW n \in OthersNames, OtherStarts(n) PROVE OursIsStarted'
  BY <1>15 DEF OtherStarts, NewSession
<1>16. ASSUME NEW n \in DOMAIN sessions, OtherStops(n) PROVE OursIsStarted'
  BY <1>16 DEF OtherStops
<1>17. CASE UNCHANGED setupVars
  BY <1>17 DEF setupVars
<1> QED BY <1>1, <1>2, <1>3, <1>4, <1>5, <1>6, <1>7, <1>8, <1>9, <1>10, <1>11, <1>12, <1>13, <1>14, <1>15, <1>16, <1>17 DEF SetupNext, Configure

\* Once the name is free, only others take it.
LEMMA NameStep ==
  ASSUME SetupIInv, [SetupNext]_setupVars
  PROVE  NameIsFree' /\ ReplacedUnlessRaced'
<1> USE RequestTypes, BuilderTypes, SetupAssumption
    DEF SetupIInv, SetupTypeOK, PhasesFollow, NameIsFree, ReplacedUnlessRaced, Session, SetupAssumption, Broken, Attached, Grouping
<1>1. ASSUME Build PROVE NameIsFree' /\ ReplacedUnlessRaced'
  BY <1>1 DEF Build
<1>2. ASSUME StopExisting PROVE NameIsFree' /\ ReplacedUnlessRaced'
  BY <1>2, WholeName DEF StopExisting
<1>3. ASSUME StartTrace PROVE NameIsFree' /\ ReplacedUnlessRaced'
  BY <1>3 DEF StartTrace
<1>4. ASSUME SetStacks PROVE NameIsFree' /\ ReplacedUnlessRaced'
  BY <1>4 DEF SetStacks, OnSession, Fail, Ours
<1>5. ASSUME QueryGroups PROVE NameIsFree' /\ ReplacedUnlessRaced'
  BY <1>5 DEF QueryGroups, Fail, Ours
<1>6. ASSUME SetGroups PROVE NameIsFree' /\ ReplacedUnlessRaced'
  BY <1>6 DEF SetGroups, OnSession, Fail, Ours
<1>7. ASSUME CheckFilters PROVE NameIsFree' /\ ReplacedUnlessRaced'
  BY <1>7 DEF CheckFilters, Fail
<1>8. ASSUME EnableNext PROVE NameIsFree' /\ ReplacedUnlessRaced'
  BY <1>8 DEF EnableNext, OnSession, Fail, Ours
<1>9. ASSUME AllEnabled PROVE NameIsFree' /\ ReplacedUnlessRaced'
  BY <1>9 DEF AllEnabled
<1>10. ASSUME Open PROVE NameIsFree' /\ ReplacedUnlessRaced'
  BY <1>10 DEF Open, Fail
<1>11. ASSUME CaptureNext PROVE NameIsFree' /\ ReplacedUnlessRaced'
  BY <1>11 DEF CaptureNext, OnSession, Fail, Ours
<1>12. ASSUME HandOver PROVE NameIsFree' /\ ReplacedUnlessRaced'
  BY <1>12 DEF HandOver
<1>13. ASSUME GuardClose PROVE NameIsFree' /\ ReplacedUnlessRaced'
  BY <1>13 DEF GuardClose
<1>14. ASSUME GuardStop PROVE NameIsFree' /\ ReplacedUnlessRaced'
  BY <1>14 DEF GuardStop, Ours
<1>15. ASSUME NEW n \in OthersNames, OtherStarts(n) PROVE NameIsFree' /\ ReplacedUnlessRaced'
  BY <1>15 DEF OtherStarts
<1>16. ASSUME NEW n \in DOMAIN sessions, OtherStops(n) PROVE NameIsFree' /\ ReplacedUnlessRaced'
  BY <1>16 DEF OtherStops
<1>17. CASE UNCHANGED setupVars
  BY <1>17 DEF setupVars
<1> QED BY <1>1, <1>2, <1>3, <1>4, <1>5, <1>6, <1>7, <1>8, <1>9, <1>10, <1>11, <1>12, <1>13, <1>14, <1>15, <1>16, <1>17 DEF SetupNext, Configure

\* A capture that is passed has been heard, or start has failed.
LEMMA RundownsStep ==
  ASSUME SetupIInv, [SetupNext]_setupVars
  PROVE  RundownsFollow'
<1> USE RequestTypes, BuilderTypes
    DEF SetupIInv, SetupTypeOK, PhasesFollow, RundownsFollow, ToCapture, Broken, Attached, Grouping
<1>1. ASSUME Build PROVE RundownsFollow'
  BY <1>1 DEF Build
<1>2. ASSUME StopExisting PROVE RundownsFollow'
  BY <1>2 DEF StopExisting
<1>3. ASSUME StartTrace PROVE RundownsFollow'
  BY <1>3 DEF StartTrace
<1>4. ASSUME SetStacks PROVE RundownsFollow'
  BY <1>4 DEF SetStacks, OnSession, Fail, Ours
<1>5. ASSUME QueryGroups PROVE RundownsFollow'
  BY <1>5 DEF QueryGroups, Fail, Ours
<1>6. ASSUME SetGroups PROVE RundownsFollow'
  BY <1>6 DEF SetGroups, OnSession, Fail, Ours
<1>7. ASSUME CheckFilters PROVE RundownsFollow'
  BY <1>7 DEF CheckFilters, Fail
<1>8. ASSUME EnableNext PROVE RundownsFollow'
  BY <1>8 DEF EnableNext, OnSession, Fail, Ours
<1>9. ASSUME AllEnabled PROVE RundownsFollow'
  BY <1>9 DEF AllEnabled
<1>10. ASSUME Open PROVE RundownsFollow'
  BY <1>10 DEF Open, Fail
<1>11. ASSUME CaptureNext PROVE RundownsFollow'
  BY <1>11 DEF CaptureNext, OnSession, Fail, Ours
<1>12. ASSUME HandOver PROVE RundownsFollow'
  BY <1>12 DEF HandOver
<1>13. ASSUME GuardClose PROVE RundownsFollow'
  BY <1>13 DEF GuardClose
<1>14. ASSUME GuardStop PROVE RundownsFollow'
  BY <1>14 DEF GuardStop, Ours
<1>15. ASSUME NEW n \in OthersNames, OtherStarts(n) PROVE RundownsFollow'
  BY <1>15 DEF OtherStarts
<1>16. ASSUME NEW n \in DOMAIN sessions, OtherStops(n) PROVE RundownsFollow'
  BY <1>16 DEF OtherStops
<1>17. CASE UNCHANGED setupVars
  BY <1>17 DEF setupVars
<1> QED BY <1>1, <1>2, <1>3, <1>4, <1>5, <1>6, <1>7, <1>8, <1>9, <1>10, <1>11, <1>12, <1>13, <1>14, <1>15, <1>16, <1>17 DEF SetupNext, Configure
-----------------------------------------------------------------------------
(* The settings *)

\* The groups of a mask that a builder asks for: on top, and for its providers.
OnTop(b, m) == UNION {g.bits : g \in {g \in b.groups : g.mask = m}}
Classic(b, m) ==
  UNION {b.providers[i].kernelFlags : i \in {i \in DOMAIN b.providers : b.kernel /\ m = 0}}

LEMMA FirstMasks ==
  ASSUME NEW b, b.kernel \in BOOLEAN, NEW m \in Masks
  PROVE  NewSession(b).masks[m] = Classic(b, m)
<1>1. CASE b.kernel /\ m = 0
  <2>1. {i \in DOMAIN b.providers : b.kernel /\ m = 0} = DOMAIN b.providers
    BY <1>1
  <2> QED BY <1>1, <2>1 DEF NewSession, EnableFlags, Classic
<1>2. CASE ~ (b.kernel /\ m = 0)
  <2>1. {i \in DOMAIN b.providers : b.kernel /\ m = 0} = {}
    BY <1>2
  <2>2. UNION {b.providers[i].kernelFlags : i \in {}} = {}
    OBVIOUS
  <2> QED BY <1>2, <2>1, <2>2 DEF NewSession, EnableFlags, Classic
<1> QED BY <1>1, <1>2

\* Without groups on top, those of the providers are all.
LEMMA NothingOnTop ==
  ASSUME NEW b, b.groups = {}, NEW m
  PROVE  OnTop(b, m) = {}
<1>1. {g \in b.groups : g.mask = m} = {}
  OBVIOUS
<1>2. UNION {g.bits : g \in {}} = {}
  OBVIOUS
<1> QED BY <1>1, <1>2 DEF OnTop

LEMMA AllGroups ==
  ASSUME NEW b, NEW mask, NEW m \in Masks
  PROVE  WithGroups(mask, b.groups)[m] = mask[m] \cup OnTop(b, m)
BY DEF WithGroups, OnTop

LEMMA GroupsMeaning ==
  /\ \A masks : GroupsAsRequested(masks) <=>
       \A m \in Masks : masks[m] = OnTop(request, m) \cup Classic(request, m)
  /\ GroupsAsRequested(sessions[Session].masks)' <=>
       \A m \in Masks : sessions'[Session'].masks[m] = OnTop(request', m) \cup Classic(request', m)
<1>1. ASSUME NEW masks
      PROVE  GroupsAsRequested(masks) <=>
               \A m \in Masks : masks[m] = OnTop(request, m) \cup Classic(request, m)
  BY DEF GroupsAsRequested, OnTop, Classic
<1>2. GroupsAsRequested(sessions[Session].masks)' <=>
        \A m \in Masks : sessions'[Session'].masks[m] = OnTop(request', m) \cup Classic(request', m)
  BY DEF GroupsAsRequested, OnTop, Classic
<1> QED BY <1>1, <1>2

\* The groups of the session are set once, on top of what it was started with.
LEMMA GroupsStep ==
  ASSUME SetupIInv, [SetupNext]_setupVars
  PROVE  GroupsFollow'
<1> USE RequestTypes, BuilderTypes, GroupsMeaning, SetupAssumption
    DEF SetupIInv, SessionsAreRecords, PhasesFollow, OursIsStarted, GroupsFollow, Ours, Session, Settled, SetupAssumption, Unstarted, Broken, Attached, Grouping
<1>1. ASSUME Build PROVE GroupsFollow'
  BY <1>1 DEF Build
<1>2. ASSUME StopExisting PROVE GroupsFollow'
  BY <1>2 DEF StopExisting
<1>3. ASSUME StartTrace PROVE GroupsFollow'
  BY <1>3, FirstMasks, NothingOnTop, RequestsAssumption DEF StartTrace, RequestsAssumption
<1>4. ASSUME SetStacks PROVE GroupsFollow'
  BY <1>4 DEF SetStacks, OnSession, Fail, Ours
<1>5. ASSUME QueryGroups PROVE GroupsFollow'
  BY <1>5, FirstMasks, NothingOnTop DEF QueryGroups, Fail
<1>6. ASSUME SetGroups PROVE GroupsFollow'
  <2>1. CASE UNCHANGED sessions /\ Fail("os")
    BY <1>6, <2>1 DEF SetGroups, Fail
  <2>2. CASE /\ Ours
             /\ sessions' = [sessions EXCEPT ![Session] =
                             [sessions[Session] EXCEPT !.masks = WithGroups(groupMask, request.groups)]]
    <3>1. Ours' /\ sessions'[Session].masks = WithGroups(NewSession(request).masks, request.groups)
      BY <1>6, <2>2 DEF SetGroups
    <3>2. request.kernel \in BOOLEAN
      BY <1>6 DEF SetGroups
    <3>3. ASSUME NEW m \in Masks
          PROVE  sessions'[Session].masks[m] = OnTop(request, m) \cup Classic(request, m)
      <4> HIDE GroupsMeaning, RequestTypes, BuilderTypes, SetupAssumption DEF SetupIInv
      <4>1. NewSession(request).masks[m] = Classic(request, m)
        BY <3>2, FirstMasks
      <4>2. WithGroups(NewSession(request).masks, request.groups)[m]
              = NewSession(request).masks[m] \cup OnTop(request, m)
        BY AllGroups
      <4> QED BY <3>1, <4>1, <4>2
    <3>4. phase' \notin Grouping \cup {"setGroups"}
      BY <1>6 DEF SetGroups, OnSession, Fail
    <3> HIDE DEF SetupIInv
    <3> QED BY <1>6, <3>3, <3>4 DEF SetGroups
  <2> QED BY <1>6, <2>1, <2>2 DEF SetGroups, OnSession
<1>7. ASSUME CheckFilters PROVE GroupsFollow'
  BY <1>7 DEF CheckFilters, Fail
<1>8. ASSUME EnableNext PROVE GroupsFollow'
  BY <1>8 DEF EnableNext, OnSession, Fail, Ours
<1>9. ASSUME AllEnabled PROVE GroupsFollow'
  BY <1>9 DEF AllEnabled
<1>10. ASSUME Open PROVE GroupsFollow'
  BY <1>10 DEF Open, Fail
<1>11. ASSUME CaptureNext PROVE GroupsFollow'
  BY <1>11 DEF CaptureNext, OnSession, Fail, Ours
<1>12. ASSUME HandOver PROVE GroupsFollow'
  BY <1>12 DEF HandOver
<1>13. ASSUME GuardClose PROVE GroupsFollow'
  BY <1>13 DEF GuardClose
<1>14. ASSUME GuardStop PROVE GroupsFollow'
  BY <1>14 DEF GuardStop, Ours
<1>15. ASSUME NEW n \in OthersNames, OtherStarts(n) PROVE GroupsFollow'
  BY <1>15 DEF OtherStarts
<1>16. ASSUME NEW n \in DOMAIN sessions, OtherStops(n) PROVE GroupsFollow'
  BY <1>16 DEF OtherStops
<1>17. CASE UNCHANGED setupVars
  BY <1>17 DEF setupVars
<1> QED BY <1>1, <1>2, <1>3, <1>4, <1>5, <1>6, <1>7, <1>8, <1>9, <1>10, <1>11, <1>12, <1>13, <1>14, <1>15, <1>16, <1>17 DEF SetupNext, Configure

\* So are the events with stacks.
LEMMA StacksStep ==
  ASSUME SetupIInv, [SetupNext]_setupVars
  PROVE  StacksFollow'
<1> USE RequestTypes, BuilderTypes, NewSessionTypes, SetupAssumption
    DEF SetupIInv, SessionsAreRecords, PhasesFollow, OursIsStarted, StacksFollow, Ours, Session, Settled, SetupAssumption, Unstarted, Broken, Attached, Grouping
<1>1. ASSUME Build PROVE StacksFollow'
  BY <1>1 DEF Build
<1>2. ASSUME StopExisting PROVE StacksFollow'
  BY <1>2 DEF StopExisting
<1>3. ASSUME StartTrace PROVE StacksFollow'
  <2>1. request \in Requests /\ ~ request.kernel => request.stacks = {}
    BY <1>3, RequestsAssumption DEF RequestsAssumption, StartTrace
  <2> QED BY <1>3, <2>1 DEF StartTrace
<1>4. ASSUME SetStacks PROVE StacksFollow'
  BY <1>4 DEF SetStacks, OnSession, Fail, Ours
<1>5. ASSUME QueryGroups PROVE StacksFollow'
  BY <1>5 DEF QueryGroups, Fail, Ours
<1>6. ASSUME SetGroups PROVE StacksFollow'
  BY <1>6 DEF SetGroups, OnSession, Fail, Ours
<1>7. ASSUME CheckFilters PROVE StacksFollow'
  BY <1>7 DEF CheckFilters, Fail
<1>8. ASSUME EnableNext PROVE StacksFollow'
  BY <1>8 DEF EnableNext, OnSession, Fail, Ours
<1>9. ASSUME AllEnabled PROVE StacksFollow'
  BY <1>9 DEF AllEnabled
<1>10. ASSUME Open PROVE StacksFollow'
  BY <1>10 DEF Open, Fail
<1>11. ASSUME CaptureNext PROVE StacksFollow'
  BY <1>11 DEF CaptureNext, OnSession, Fail, Ours
<1>12. ASSUME HandOver PROVE StacksFollow'
  BY <1>12 DEF HandOver
<1>13. ASSUME GuardClose PROVE StacksFollow'
  BY <1>13 DEF GuardClose
<1>14. ASSUME GuardStop PROVE StacksFollow'
  BY <1>14 DEF GuardStop, Ours
<1>15. ASSUME NEW n \in OthersNames, OtherStarts(n) PROVE StacksFollow'
  BY <1>15 DEF OtherStarts
<1>16. ASSUME NEW n \in DOMAIN sessions, OtherStops(n) PROVE StacksFollow'
  BY <1>16 DEF OtherStops
<1>17. CASE UNCHANGED setupVars
  BY <1>17 DEF setupVars
<1> QED BY <1>1, <1>2, <1>3, <1>4, <1>5, <1>6, <1>7, <1>8, <1>9, <1>10, <1>11, <1>12, <1>13, <1>14, <1>15, <1>16, <1>17 DEF SetupNext, Configure

\* A timer in whole seconds is at most half a second off, within its limits.
LEMMA FlushMeaning ==
  ASSUME request.flush \in Nat
  PROVE  FlushAsRequested(NewSession(request).flush)
<1>1. PICK ms \in Nat, r \in Nat : ms = request.flush /\ r = (ms + 500) \div 1000
  BY (request.flush + 500) \div 1000 \in Nat
<1>2. 1000 * r <= ms + 500 /\ ms + 500 < 1000 * r + 1000
  BY <1>1
<1>3. FlushSeconds(ms) = IF r < 1 THEN 1 ELSE IF r > MaxSeconds THEN MaxSeconds ELSE r
  BY <1>1, SetupAssumption DEF SetupAssumption, FlushSeconds
<1>4. FlushAsRequested(FlushSeconds(ms))
  BY <1>1, <1>2, <1>3, SetupAssumption DEF SetupAssumption, FlushAsRequested
<1> QED BY <1>1, <1>4 DEF NewSession

LEMMA FlushStays ==
  /\ \A seconds : FlushAsRequested(seconds) <=>
       \/ seconds = 1 /\ request.flush < 1000
       \/ seconds = MaxSeconds /\ request.flush > 1000 * MaxSeconds
       \/ 1000 * seconds - 500 <= request.flush /\ request.flush <= 1000 * seconds + 500
  /\ FlushAsRequested(sessions[Session].flush)' <=>
       \/ sessions'[Session'].flush = 1 /\ request'.flush < 1000
       \/ sessions'[Session'].flush = MaxSeconds /\ request'.flush > 1000 * MaxSeconds
       \/ 1000 * sessions'[Session'].flush - 500 <= request'.flush
            /\ request'.flush <= 1000 * sessions'[Session'].flush + 500
BY DEF FlushAsRequested

\* The flush timer is that of the start.
LEMMA FlushStep ==
  ASSUME SetupIInv, [SetupNext]_setupVars
  PROVE  FlushFollows'
<1> USE RequestTypes, BuilderTypes, FlushStays, SetupAssumption
    DEF SetupIInv, SessionsAreRecords, PhasesFollow, OursIsStarted, FlushFollows, Ours, Session, SetupAssumption, Unstarted, Broken, Attached, Grouping
<1>1. ASSUME Build PROVE FlushFollows'
  BY <1>1 DEF Build
<1>2. ASSUME StopExisting PROVE FlushFollows'
  BY <1>2 DEF StopExisting
<1>3. ASSUME StartTrace PROVE FlushFollows'
  <2>1. request' = request /\ FlushAsRequested(NewSession(request).flush)
    BY <1>3, FlushMeaning DEF StartTrace
  <2> QED BY <1>3, <2>1, FlushStays DEF StartTrace
<1>4. ASSUME SetStacks PROVE FlushFollows'
  BY <1>4 DEF SetStacks, OnSession, Fail, Ours
<1>5. ASSUME QueryGroups PROVE FlushFollows'
  BY <1>5 DEF QueryGroups, Fail, Ours
<1>6. ASSUME SetGroups PROVE FlushFollows'
  BY <1>6 DEF SetGroups, OnSession, Fail, Ours
<1>7. ASSUME CheckFilters PROVE FlushFollows'
  BY <1>7 DEF CheckFilters, Fail
<1>8. ASSUME EnableNext PROVE FlushFollows'
  <2>1. CASE UNCHANGED sessions
    BY <1>8, <2>1 DEF EnableNext
  <2>2. CASE ~ UNCHANGED sessions
    <3>1. PICK enabled : Ours /\ sessions' = [sessions EXCEPT ![Session] = [sessions[Session] EXCEPT !.enabled = enabled]]
      BY <1>8, <2>2, EnableChanges
    <3> QED BY <1>8, <3>1 DEF EnableNext
  <2> QED BY <2>1, <2>2
<1>9. ASSUME AllEnabled PROVE FlushFollows'
  BY <1>9 DEF AllEnabled
<1>10. ASSUME Open PROVE FlushFollows'
  BY <1>10 DEF Open, Fail
<1>11. ASSUME CaptureNext PROVE FlushFollows'
  BY <1>11 DEF CaptureNext, OnSession, Fail, Ours
<1>12. ASSUME HandOver PROVE FlushFollows'
  BY <1>12 DEF HandOver
<1>13. ASSUME GuardClose PROVE FlushFollows'
  BY <1>13 DEF GuardClose
<1>14. ASSUME GuardStop PROVE FlushFollows'
  BY <1>14 DEF GuardStop, Ours
<1>15. ASSUME NEW n \in OthersNames, OtherStarts(n) PROVE FlushFollows'
  BY <1>15 DEF OtherStarts
<1>16. ASSUME NEW n \in DOMAIN sessions, OtherStops(n) PROVE FlushFollows'
  BY <1>16 DEF OtherStops
<1>17. CASE UNCHANGED setupVars
  BY <1>17 DEF setupVars
<1> QED BY <1>1, <1>2, <1>3, <1>4, <1>5, <1>6, <1>7, <1>8, <1>9, <1>10, <1>11, <1>12, <1>13, <1>14, <1>15, <1>16, <1>17 DEF SetupNext, Configure

\* No provider, nothing enabled.
LEMMA NoneEnabled ==
  ASSUME NEW b, NEW enabled, DOMAIN enabled = {}
  PROVE  EnabledUpTo(0, b, enabled)
BY DEF EnabledUpTo

\* A provider that needs no enable of its own changes nothing.
LEMMA EnableSkipped ==
  ASSUME NEW b, NEW enabled, NEW n \in Nat, EnabledUpTo(n, b, enabled),
         b.kernel \in BOOLEAN, b.kernel, b.providers[n + 1].filters = <<>>
  PROVE  EnabledUpTo(n + 1, b, enabled)
<1>1. {i \in 1 .. n + 1 : ~ b.kernel \/ b.providers[i].filters # <<>>}
        = {i \in 1 .. n : ~ b.kernel \/ b.providers[i].filters # <<>>}
  OBVIOUS
<1> QED BY <1>1 DEF EnabledUpTo

\* One that does goes over those of its GUID.
LEMMA EnableOver ==
  ASSUME NEW b, NEW enabled, NEW n \in Nat, EnabledUpTo(n, b, enabled),
         b.kernel \in BOOLEAN, NEW last, last = n + 1, NEW p, p = b.providers[last],
         ~ b.kernel \/ p.filters # <<>>, ~ FiltersRejected(p), NEW after,
         DOMAIN after = DOMAIN enabled \cup {p.guid},
         after[p.guid] = EnableTraceParameters(p),
         \A g \in DOMAIN enabled : g # p.guid => after[g] = enabled[g]
  PROVE  EnabledUpTo(last, b, after)
<1> DEFINE earlier == {i \in 1 .. n : ~ b.kernel \/ b.providers[i].filters # <<>>}
           reached == {i \in 1 .. last : ~ b.kernel \/ b.providers[i].filters # <<>>}
<1>1. reached = earlier \cup {n + 1} /\ \A j \in earlier : j <= n
  OBVIOUS
<1>2. DOMAIN enabled = {b.providers[i].guid : i \in earlier}
  BY DEF EnabledUpTo
<1>3. DOMAIN after = {b.providers[i].guid : i \in reached}
  <2> HIDE DEF earlier, reached
  <2> QED BY <1>1, <1>2
<1>4. ASSUME NEW i \in reached,
             \A j \in reached : b.providers[j].guid = b.providers[i].guid => j <= i
      PROVE  /\ after[b.providers[i].guid] = EnableTraceParameters(b.providers[i])
             /\ ~ FiltersRejected(b.providers[i])
  <2>1. CASE i = n + 1
    BY <2>1
  <2>2. CASE i # n + 1
    <3>1. i \in earlier /\ b.providers[i].guid # p.guid
      BY <1>1, <1>4, <2>2
    <3>2. \A j \in earlier : b.providers[j].guid = b.providers[i].guid => j <= i
      BY <1>1, <1>4
    <3>3. enabled[b.providers[i].guid] = EnableTraceParameters(b.providers[i])
          /\ ~ FiltersRejected(b.providers[i])
      BY <3>1, <3>2 DEF EnabledUpTo
    <3>4. b.providers[i].guid \in DOMAIN enabled
      BY <1>2, <3>1
    <3> QED BY <3>1, <3>3, <3>4
  <2> QED BY <2>1, <2>2
<1> QED BY <1>3, <1>4 DEF EnabledUpTo

\* The enables go over one another, in the order of the providers.
LEMMA EnablesStep ==
  ASSUME SetupIInv, [SetupNext]_setupVars
  PROVE  EnablesFollow'
<1> USE RequestTypes, BuilderTypes, NewSessionTypes, SetupAssumption
    DEF SetupIInv, SetupTypeOK, SessionsAreRecords, PhasesFollow, OursIsStarted, EnablesFollow, Ours, Session, Settled, Reached, SetupAssumption, Unstarted, Broken, Attached, Grouping
<1>1. ASSUME Build PROVE EnablesFollow'
  BY <1>1 DEF Build
<1>2. ASSUME StopExisting PROVE EnablesFollow'
  BY <1>2 DEF StopExisting
<1>3. ASSUME StartTrace PROVE EnablesFollow'
  <2>1. CASE sessions' = sessions
    BY <1>3, <2>1 DEF StartTrace
  <2>2. CASE sessions' # sessions
    <3>1. sessions'[Session] = NewSession(request) /\ next = 1 /\ UNCHANGED <<request, next>>
          /\ phase' \in {"stacks", "enable"}
      BY <1>3, <2>2 DEF StartTrace
    <3>2. EnabledUpTo(0, request, NewSession(request).enabled)
      BY NoneEnabled, NewSessionTypes, RequestTypes
    <3>3. Reached' - 1 = 0
      BY <3>1
    <3> QED BY <3>1, <3>2, <3>3
  <2> QED BY <2>1, <2>2
<1>4. ASSUME SetStacks PROVE EnablesFollow'
  <2>1. Ours' => Ours /\ sessions'[Session].enabled = sessions[Session].enabled
    BY <1>4 DEF SetStacks, OnSession, Fail
  <2> HIDE DEF SessionsAreRecords
  <2> QED BY <1>4, <2>1 DEF SetStacks, OnSession, Fail
<1>5. ASSUME QueryGroups PROVE EnablesFollow'
  BY <1>5 DEF QueryGroups, Fail, Ours
<1>6. ASSUME SetGroups PROVE EnablesFollow'
  <2>1. Ours' => Ours /\ sessions'[Session].enabled = sessions[Session].enabled
    BY <1>6 DEF SetGroups, OnSession, Fail
  <2> HIDE DEF SessionsAreRecords
  <2> QED BY <1>6, <2>1 DEF SetGroups, OnSession, Fail
<1>7. ASSUME CheckFilters PROVE EnablesFollow'
  BY <1>7 DEF CheckFilters, Fail
<1>8. ASSUME EnableNext PROVE EnablesFollow'
  <2> DEFINE p == request.providers[next]
             enabled == sessions[Session].enabled
  <2>1. CASE UNCHANGED sessions /\ Fail("invalidFilter")
    BY <1>8, <2>1 DEF EnableNext, Fail
  <2>2. CASE UNCHANGED sessions /\ Fail("os")
    BY <1>8, <2>2 DEF EnableNext, Fail
  <2>3. CASE ~ ToEnable(p) /\ UNCHANGED <<phase, error, sessions>>
    <3>1. next - 1 \in Nat /\ next = (next - 1) + 1 /\ next' - 1 = next /\ request.kernel \in BOOLEAN
      BY <1>8 DEF EnableNext
    <3>2. Ours => EnabledUpTo(next - 1, request, enabled)
      BY <1>8 DEF EnableNext
    <3>3. Ours => EnabledUpTo(next, request, enabled)
      BY <2>3, <3>1, <3>2, EnableSkipped DEF ToEnable
    <3>4. Reached' = next' /\ (Ours' => Ours /\ sessions'[Session'].enabled = enabled) /\ request' = request
      BY <1>8, <2>3 DEF EnableNext
    <3> QED BY <3>1, <3>3, <3>4 DEF EnablesFollow
  <2>4. CASE /\ ToEnable(p) /\ ~ FiltersRejected(p)
             /\ OnSession("enable", [sessions[Session] EXCEPT !.enabled =
                  [g \in DOMAIN enabled \cup {p.guid} |->
                     IF g = p.guid THEN EnableTraceParameters(p) ELSE enabled[g]]])
             /\ phase' = "enable"
    <3>1. next - 1 \in Nat /\ next = (next - 1) + 1 /\ next' - 1 = next /\ request.kernel \in BOOLEAN
      BY <1>8 DEF EnableNext
    <3>2. Ours /\ EnabledUpTo(next - 1, request, enabled)
      BY <1>8, <2>4 DEF EnableNext, OnSession, Fail
    <3> DEFINE over == [g \in DOMAIN enabled \cup {p.guid} |->
                          IF g = p.guid THEN EnableTraceParameters(p) ELSE enabled[g]]
    <3>3. EnabledUpTo(next, request, over)
      <4>1. ~ request.kernel \/ p.filters # <<>>
        BY <2>4 DEF ToEnable
      <4>2. /\ DOMAIN over = DOMAIN enabled \cup {p.guid}
            /\ over[p.guid] = EnableTraceParameters(p)
            /\ \A g \in DOMAIN enabled : g # p.guid => over[g] = enabled[g]
            /\ p = request.providers[next]
        OBVIOUS
      <4>3. PICK n \in Nat : next = n + 1 /\ EnabledUpTo(n, request, enabled)
        BY <3>1, <3>2
      <4>4. ~ FiltersRejected(p) /\ request.kernel \in BOOLEAN
        BY <2>4, <3>1
      <4> HIDE RequestTypes, BuilderTypes, NewSessionTypes, SetupAssumption
             DEF over, enabled, p, SetupIInv, SetupTypeOK, SessionsAreRecords, PhasesFollow, OursIsStarted, EnablesFollow, Reached, Settled
      <4> QED BY <4>1, <4>2, <4>3, <4>4, EnableOver
    <3>4. sessions'[Session].enabled = over
      <4>1. sessions' = [sessions EXCEPT ![Session] = [sessions[Session] EXCEPT !.enabled = over]]
        BY <2>4 DEF OnSession, Fail
      <4> HIDE DEF over
      <4> QED BY <3>2, <4>1
    <3>5. Reached' = next' /\ request' = request
      BY <1>8, <2>4 DEF EnableNext
    <3> HIDE DEF over
    <3> QED BY <3>1, <3>3, <3>4, <3>5 DEF EnablesFollow
  <2> QED BY <1>8, <2>1, <2>2, <2>3, <2>4 DEF EnableNext, OnSession, Fail
<1>9. ASSUME AllEnabled PROVE EnablesFollow'
  BY <1>9 DEF AllEnabled
<1>10. ASSUME Open PROVE EnablesFollow'
  BY <1>10 DEF Open, Fail
<1>11. ASSUME CaptureNext PROVE EnablesFollow'
  BY <1>11 DEF CaptureNext, OnSession, Fail, Ours
<1>12. ASSUME HandOver PROVE EnablesFollow'
  BY <1>12 DEF HandOver
<1>13. ASSUME GuardClose PROVE EnablesFollow'
  BY <1>13 DEF GuardClose
<1>14. ASSUME GuardStop PROVE EnablesFollow'
  BY <1>14 DEF GuardStop, Ours
<1>15. ASSUME NEW n \in OthersNames, OtherStarts(n) PROVE EnablesFollow'
  BY <1>15 DEF OtherStarts
<1>16. ASSUME NEW n \in DOMAIN sessions, OtherStops(n) PROVE EnablesFollow'
  BY <1>16 DEF OtherStops
<1>17. CASE UNCHANGED setupVars
  BY <1>17 DEF setupVars
<1> QED BY <1>1, <1>2, <1>3, <1>4, <1>5, <1>6, <1>7, <1>8, <1>9, <1>10, <1>11, <1>12, <1>13, <1>14, <1>15, <1>16, <1>17 DEF SetupNext, Configure
-----------------------------------------------------------------------------
(* What Windows reads back from a filter *)

\* Items that lie one after the other in the cells of a buffer, each up to a mark: NUL
\* after the last one, sep after the others.  No mark is in an item.
Laid(data, items, start, sep) ==
  /\ start[1] = 0
  /\ start[Len(items) + 1] = Len(data)
  /\ \A i \in 1 .. Len(items) + 1 : start[i] \in Nat
  /\ \A i \in 1 .. Len(items) :
       /\ start[i + 1] = start[i] + Len(items[i]) + 1
       /\ \A c \in 1 .. Len(items[i]) :
            data[start[i] + c] = items[i][c] /\ items[i][c] \notin {sep, NUL}
       /\ data[start[i + 1]] = IF i = Len(items) THEN NUL ELSE sep

LEMMA LaidTypes ==
  ASSUME NEW S, NEW items, ListOf(items, S), NEW data, NEW start, NEW sep, Laid(data, items, start, sep)
  PROVE  /\ Len(items) \in Nat
         /\ \A i \in 1 .. Len(items) : Len(items[i]) \in Nat /\ items[i] \in Seq(S)
         /\ \A i \in 1 .. Len(items) + 1 : start[i] \in Nat
         /\ \A i \in 1 .. Len(items) : start[i] < start[i + 1]
<1>1. PICK N \in Nat : N = Len(items)
  BY DEF ListOf
<1>2. ASSUME NEW i \in 1 .. N
      PROVE  Len(items[i]) \in Nat /\ items[i] \in Seq(S) /\ start[i] < start[i + 1]
  <2>1. PICK item \in Seq(S) : item = items[i]
    BY <1>1 DEF ListOf
  <2>2. Len(item) \in Nat
    OBVIOUS
  <2>3. start[i + 1] = start[i] + Len(item) + 1 /\ start[i] \in Nat
    BY <1>1, <2>1 DEF Laid
  <2> QED BY <2>1, <2>2, <2>3
<1> QED BY <1>1, <1>2 DEF Laid

\* Each starts after those before it.
LEMMA LaidInOrder ==
  ASSUME NEW S, NEW items, ListOf(items, S), NEW data, NEW start, NEW sep, Laid(data, items, start, sep),
         NEW i \in 1 .. Len(items) + 1, NEW j \in 1 .. Len(items) + 1
  PROVE  i < j <=> start[i] < start[j]
<1>1. PICK N \in Nat : N = Len(items)
  BY DEF ListOf
<1>2. /\ \A k \in 1 .. N + 1 : start[k] \in Nat
      /\ \A k \in 1 .. N : start[k] < start[k + 1]
  BY <1>1, LaidTypes
<1>3. ASSUME NEW a \in 1 .. N + 1, NEW b \in 1 .. N + 1, a < b PROVE start[a] < start[b]
  <2> DEFINE T == {k \in 0 .. N : a + 1 + k <= N + 1 => start[a] < start[a + 1 + k]}
  <2>1. 0 \in T
    BY <1>2
  <2>2. ASSUME NEW k \in 0 .. N - 1, k \in T PROVE k + 1 \in T
    <3>1. CASE a + 1 + (k + 1) <= N + 1
      <4>1. PICK m \in 1 .. N : m = a + 1 + k /\ m + 1 = a + 1 + (k + 1)
        BY <3>1
      <4>2. start[a] < start[m] /\ start[m] < start[m + 1]
        BY <1>2, <2>2, <4>1
      <4>3. start[a] \in Nat /\ start[m] \in Nat /\ start[m + 1] \in Nat
        BY <1>2
      <4> QED BY <4>1, <4>2, <4>3
    <3> QED BY <3>1
  <2>3. \A k \in 0 .. N : k \in T
    <3> HIDE DEF T
    <3> QED BY <2>1, <2>2, Induction
  <2>4. PICK k \in 0 .. N : b = a + 1 + k
    <3>1. b - a - 1 \in 0 .. N /\ b = a + 1 + (b - a - 1)
      BY <1>3
    <3> QED BY <3>1
  <2>5. start[a] < start[a + 1 + k]
    <3>1. k \in T /\ a + 1 + k <= N + 1
      BY <2>3, <2>4
    <3> QED BY <3>1
  <2> QED BY <2>4, <2>5
<1>4. i \in 1 .. N + 1 /\ j \in 1 .. N + 1
  BY <1>1
<1>5. start[i] \in Nat /\ start[j] \in Nat
  BY <1>2, <1>4
<1>6. i < j => start[i] < start[j]
  BY <1>3, <1>4
<1>7. j < i => start[j] < start[i]
  BY <1>3, <1>4
<1>8. i < j \/ j < i \/ i = j
  BY <1>4
<1> QED BY <1>5, <1>6, <1>7, <1>8

\* Each cell belongs to an item or is the mark after it.
LEMMA LaidThroughout ==
  ASSUME NEW S, NEW items, ListOf(items, S), NEW data, NEW start, NEW sep, Laid(data, items, start, sep),
         NEW k \in 1 .. Len(data)
  PROVE  \E i \in 1 .. Len(items) : start[i] < k /\ k <= start[i + 1]
<1>1. PICK N \in Nat : N = Len(items)
  BY DEF ListOf
<1>2. /\ \A j \in 1 .. N + 1 : start[j] \in Nat
      /\ start[1] = 0 /\ start[N + 1] = Len(data)
  BY <1>1, LaidTypes DEF Laid
<1> DEFINE T == {j \in 1 .. N + 1 : k <= start[j]}
<1>3. N + 1 \in T
  BY <1>2
<1>4. T \in SUBSET Nat /\ T # {}
  BY <1>3
<1>5. PICK j \in T : \A y \in T : j <= y
  <2> HIDE DEF T
  <2> QED BY <1>4, LeastNumber
<1>6. j # 1
  BY <1>2, <1>5
<1>7. PICK i \in 1 .. N : j = i + 1
  <2>1. j - 1 \in 1 .. N /\ j = (j - 1) + 1
    BY <1>5, <1>6
  <2> QED BY <2>1
<1>8. i \notin T
  BY <1>5, <1>7
<1>9. start[i] < k
  BY <1>2, <1>8
<1> QED BY <1>1, <1>5, <1>7, <1>9

\* So the marks are where the items end, and nowhere else.
LEMMA LaidMarks ==
  ASSUME NEW S, NEW items, ListOf(items, S), NEW data, NEW start, NEW sep, Laid(data, items, start, sep),
         NEW k \in 1 .. Len(data)
  PROVE  /\ data[k] \in {sep, NUL} <=> \E i \in 1 .. Len(items) : k = start[i + 1]
         /\ sep # NUL => (data[k] = NUL <=> k = Len(data))
<1>1. PICK N \in Nat : N = Len(items)
  BY DEF ListOf
<1>2. PICK i \in 1 .. N : start[i] < k /\ k <= start[i + 1]
  BY <1>1, LaidThroughout
<1>3. /\ start[i + 1] = start[i] + Len(items[i]) + 1
      /\ \A c \in 1 .. Len(items[i]) :
           data[start[i] + c] = items[i][c] /\ items[i][c] \notin {sep, NUL}
      /\ data[start[i + 1]] = IF i = N THEN NUL ELSE sep
  BY <1>1, <1>2 DEF Laid
<1>4. start[i] \in Nat /\ Len(items[i]) \in Nat /\ start[i + 1] \in Nat /\ start[N + 1] = Len(data)
  BY <1>1, LaidTypes DEF Laid
<1>5. CASE k = start[i + 1]
  <2>1. i < N => k < start[N + 1]
    <3>1. i + 1 \in 1 .. N + 1 /\ N + 1 \in 1 .. N + 1
      OBVIOUS
    <3>2. i + 1 < N + 1 => start[i + 1] < start[N + 1]
      BY <1>1, <3>1, LaidInOrder
    <3> QED BY <1>5, <3>2
  <2>2. i = N => k = Len(data)
    BY <1>4, <1>5
  <2>3. i = N \/ (i < N /\ i # N)
    OBVIOUS
  <2> QED BY <1>1, <1>3, <1>4, <1>5, <2>1, <2>2, <2>3
<1>6. CASE k # start[i + 1]
  <2>1. PICK c \in 1 .. Len(items[i]) : k = start[i] + c
    <3>1. k - start[i] \in 1 .. Len(items[i]) /\ k = start[i] + (k - start[i])
      BY <1>2, <1>3, <1>4, <1>6
    <3> QED BY <3>1
  <2>2. data[k] \notin {sep, NUL}
    BY <1>3, <2>1
  <2>3. ASSUME NEW j \in 1 .. N, k = start[j + 1] PROVE FALSE
    <3>1. i \in 1 .. N + 1 /\ i + 1 \in 1 .. N + 1 /\ j + 1 \in 1 .. N + 1
      OBVIOUS
    <3>2. start[i] < start[j + 1] /\ start[j + 1] < start[i + 1]
      BY <1>2, <1>4, <1>6, <2>3
    <3>3. i < j + 1 /\ j + 1 < i + 1
      BY <1>1, <3>1, <3>2, LaidInOrder
    <3> QED BY <3>3
  <2>4. k # Len(data)
    <3>1. N \in 1 .. N
      OBVIOUS
    <3> QED BY <1>4, <2>3, <3>1
  <2> QED BY <1>1, <2>2, <2>3, <2>4
<1> QED BY <1>5, <1>6

LEMMA PartTypes ==
  ASSUME NEW S, NEW s \in Seq(S), NEW a \in Nat, NEW b \in Nat, 1 <= a, a <= b + 1, b <= Len(s)
  PROVE  /\ SubSeq(s, a, b) \in Seq(S)
         /\ Len(SubSeq(s, a, b)) = b + 1 - a
         /\ \A c \in 1 .. b + 1 - a : SubSeq(s, a, b)[c] = s[a + c - 1]
OBVIOUS

\* What is between two marks is an item.
LEMMA LaidPiece ==
  ASSUME NEW S, NEW items, ListOf(items, S), NEW data, data \in Seq(S), NEW start, NEW sep,
         Laid(data, items, start, sep), NEW i \in 1 .. Len(items)
  PROVE  SubSeq(data, start[i] + 1, start[i + 1] - 1) = items[i]
<1>1. PICK N \in Nat : N = Len(items)
  BY DEF ListOf
<1>2. PICK a \in Nat, b \in Nat, l \in Nat, item \in Seq(S) :
        a = start[i] /\ b = start[i + 1] /\ item = items[i] /\ l = Len(item)
  <2>1. start[i] \in Nat /\ start[i + 1] \in Nat /\ items[i] \in Seq(S)
    BY <1>1, LaidTypes
  <2>2. Len(items[i]) \in Nat
    BY <1>1, LaidTypes
  <2> QED BY <2>1, <2>2
<1>3. b = a + l + 1 /\ \A c \in 1 .. l : data[a + c] = item[c]
  BY <1>1, <1>2 DEF Laid
<1>4. b <= Len(data)
  <2>1. start[N + 1] = Len(data) /\ i + 1 \in 1 .. N + 1 /\ N + 1 \in 1 .. N + 1
    BY <1>1 DEF Laid
  <2>2. i + 1 < N + 1 => b < start[N + 1]
    BY <1>1, <1>2, <2>1, LaidInOrder
  <2>3. i + 1 = N + 1 => b = start[N + 1]
    BY <1>2
  <2> QED BY <1>1, <2>1, <2>2, <2>3
<1>5. /\ SubSeq(data, a + 1, a + l) \in Seq(S) /\ Len(SubSeq(data, a + 1, a + l)) = l
      /\ \A c \in 1 .. l : SubSeq(data, a + 1, a + l)[c] = data[a + c]
  <2>1. PICK from \in Nat, to \in Nat : from = a + 1 /\ to = a + l /\ to <= Len(data) /\ from <= to + 1
    BY <1>3, <1>4
  <2>2. /\ SubSeq(data, from, to) \in Seq(S) /\ Len(SubSeq(data, from, to)) = to + 1 - from
        /\ \A c \in 1 .. to + 1 - from : SubSeq(data, from, to)[c] = data[from + c - 1]
    BY <2>1, PartTypes
  <2>3. to + 1 - from = l /\ \A c \in 1 .. l : from + c - 1 = a + c
    BY <2>1
  <2> QED BY <2>1, <2>2, <2>3
<1>6. SubSeq(data, a + 1, a + l) = item
  <2> DEFINE piece == SubSeq(data, a + 1, a + l)
  <2> HIDE DEF piece
  <2>1. piece \in Seq(S) /\ Len(piece) = l /\ \A c \in 1 .. l : piece[c] = item[c]
    BY <1>3, <1>5 DEF piece
  <2>2. piece = item
    BY <1>2, <2>1
  <2> QED BY <2>2 DEF piece
<1>7. b - 1 = a + l
  BY <1>3
<1> QED BY <1>2, <1>6, <1>7

\* A buffer laid out so is read back item by item.
LEMMA LaidReadBack ==
  ASSUME NEW S, NEW items, ListOf(items, S), Len(items) > 0, NEW data, data \in Seq(S), NEW start,
         NEW sep, Laid(data, items, start, sep), NEW final, final = IF sep = NUL THEN {} ELSE {NUL}
  PROVE  Pieces(data, {sep, NUL}, final) = {items[i] : i \in 1 .. Len(items)}
<1>1. PICK N \in Nat : N = Len(items) /\ N > 0
  BY DEF ListOf
<1>2. PICK n \in Nat : n = Len(data) /\ n = start[N + 1] /\ n > 0 /\ DOMAIN data = 1 .. n
  <2>1. start[N + 1] = Len(data) /\ start[1] = 0 /\ start[N + 1] \in Nat
    BY <1>1 DEF Laid
  <2>2. 1 < N + 1 /\ 1 \in 1 .. N + 1 /\ N + 1 \in 1 .. N + 1
    BY <1>1
  <2>3. start[1] < start[N + 1]
    BY <1>1, <2>2, LaidInOrder
  <2>4. DOMAIN data = 1 .. Len(data)
    OBVIOUS
  <2> QED BY <2>1, <2>3, <2>4
<1>3. \A i \in 1 .. N + 1 : start[i] \in Nat
  BY <1>1, LaidTypes
<1>4. \A i, j \in 1 .. N + 1 : i < j <=> start[i] < start[j]
  BY <1>1, LaidInOrder
<1>5. \A i \in 1 .. N : start[i + 1] \in 1 .. n
  <2> TAKE i \in 1 .. N
  <2>1. i + 1 \in 1 .. N + 1 /\ N + 1 \in 1 .. N + 1 /\ 1 \in 1 .. N + 1 /\ 1 < i + 1 /\ ~ (N + 1 < i + 1)
    BY <1>1
  <2>2. start[1] < start[i + 1] /\ ~ (start[N + 1] < start[i + 1])
    BY <1>4, <2>1
  <2>3. start[1] \in Nat /\ start[i + 1] \in Nat
    BY <1>3, <2>1
  <2> QED BY <1>2, <2>2, <2>3
<1> DEFINE stops == {i \in DOMAIN data : data[i] \in final}
           last == IF stops = {} THEN Len(data) ELSE CHOOSE i \in stops : \A j \in stops : i <= j
           ends == {i \in 1 .. last : data[i] \in {sep, NUL}}
           begins == {1} \cup {i + 1 : i \in ends}
           cuts == {p \in begins \X ends : p[1] <= p[2] /\ p[1] .. p[2] - 1 \cap ends = {}}
<1>6. Pieces(data, {sep, NUL}, final) = {SubSeq(data, p[1], p[2] - 1) : p \in cuts}
  BY DEF Pieces
<1>7. last = n
  <2>1. CASE sep = NUL
    BY <1>2, <2>1
  <2>2. CASE sep # NUL
    <3>1. \A i \in 1 .. n : data[i] = NUL <=> i = n
      BY <1>2, <2>2, LaidMarks
    <3>2. stops = {n}
      BY <1>2, <2>2, <3>1
    <3> HIDE DEF stops
    <3> QED BY <3>2
  <2> QED BY <2>1, <2>2
<1> HIDE DEF last
<1>8. ends = {start[i + 1] : i \in 1 .. N}
  <2>1. \A k \in 1 .. n : data[k] \in {sep, NUL} <=> \E i \in 1 .. N : k = start[i + 1]
    BY <1>1, <1>2, LaidMarks
  <2> QED BY <1>5, <1>7, <2>1
<1> HIDE DEF ends
<1>9. ASSUME NEW p \in cuts PROVE \E i \in 1 .. N : p = <<start[i] + 1, start[i + 1]>>
  <2>1. PICK x \in begins, y \in ends : p = <<x, y>> /\ x <= y /\ x .. y - 1 \cap ends = {}
    <3>1. p \in begins \X ends /\ p[1] <= p[2] /\ p[1] .. p[2] - 1 \cap ends = {}
      BY <1>9
    <3> HIDE DEF begins, cuts
    <3>2. PICK x \in begins, y \in ends : p = <<x, y>>
      BY <3>1
    <3> QED BY <3>1, <3>2
  <2>2. PICK i \in 1 .. N + 1 : x = start[i] + 1
    <3>1. CASE x = 1
      <4>1. 1 \in 1 .. N + 1 /\ start[1] = 0
        BY <1>1 DEF Laid
      <4> QED BY <3>1, <4>1
    <3>2. CASE \E e \in ends : x = e + 1
      <4>1. PICK j \in 1 .. N : x = start[j + 1] + 1
        BY <1>8, <3>2
      <4>2. j + 1 \in 1 .. N + 1
        OBVIOUS
      <4> QED BY <4>1, <4>2
    <3> QED BY <2>1, <3>1, <3>2
  <2>3. PICK j \in 1 .. N : y = start[j + 1]
    BY <1>8
  <2>4. start[i] \in Nat /\ start[j + 1] \in Nat /\ j + 1 \in 1 .. N + 1
    BY <1>3
  <2>5. i < j + 1
    BY <1>4, <2>1, <2>2, <2>3, <2>4
  <2>6. CASE i = j
    BY <2>1, <2>2, <2>3, <2>6
  <2>7. CASE i < j
    <3>1. i \in 1 .. N /\ i + 1 \in 1 .. N + 1
      BY <2>7
    <3>2. start[i] < start[i + 1] /\ start[i + 1] < start[j + 1] /\ start[i + 1] \in Nat
      BY <1>3, <1>4, <2>4, <2>7, <3>1
    <3>3. start[i + 1] \in x .. y - 1
      BY <2>2, <2>3, <2>4, <3>2
    <3>4. start[i + 1] \in ends
      BY <1>8, <3>1
    <3> QED BY <2>1, <3>3, <3>4
  <2> QED BY <2>5, <2>6, <2>7
<1>10. ASSUME NEW i \in 1 .. N PROVE <<start[i] + 1, start[i + 1]>> \in cuts
  <2>1. i \in 1 .. N + 1 /\ i + 1 \in 1 .. N + 1 /\ start[i] \in Nat /\ start[i + 1] \in Nat
        /\ start[i] < start[i + 1]
    BY <1>3, <1>4
  <2>2. start[i + 1] \in ends
    BY <1>8
  <2>3. start[i] + 1 \in begins
    <3>1. CASE i = 1
      <4>1. start[i] + 1 = 1
        BY <3>1 DEF Laid
      <4> QED BY <4>1
    <3>2. CASE i # 1
      <4>1. PICK j \in 1 .. N : i = j + 1
        <5>1. i - 1 \in 1 .. N /\ i = (i - 1) + 1
          BY <3>2
        <5> QED BY <5>1
      <4>2. start[i] \in ends
        BY <1>8, <4>1
      <4> QED BY <4>2
    <3> QED BY <3>1, <3>2
  <2>4. ASSUME NEW e \in start[i] + 1 .. start[i + 1] - 1, e \in ends PROVE FALSE
    <3>1. PICK j \in 1 .. N : e = start[j + 1]
      BY <1>8, <2>4
    <3>2. j + 1 \in 1 .. N + 1 /\ start[i] < start[j + 1] /\ start[j + 1] < start[i + 1]
      BY <2>1, <3>1
    <3>3. i < j + 1 /\ j + 1 < i + 1
      BY <1>4, <2>1, <3>2
    <3> QED BY <3>3
  <2>5. start[i] + 1 <= start[i + 1]
    BY <2>1
  <2> HIDE DEF begins
  <2> QED BY <2>2, <2>3, <2>4, <2>5
<1> HIDE DEF cuts
<1>11. \A i \in 1 .. N : SubSeq(data, start[i] + 1, start[i + 1] - 1) = items[i]
  BY <1>1, LaidPiece
<1>12. ASSUME NEW p \in cuts PROVE SubSeq(data, p[1], p[2] - 1) \in {items[i] : i \in 1 .. N}
  <2>1. PICK i \in 1 .. N : p = <<start[i] + 1, start[i + 1]>>
    BY <1>9
  <2>2. p[1] = start[i] + 1 /\ p[2] = start[i + 1]
    BY <2>1
  <2> QED BY <1>11, <2>2
<1>13. ASSUME NEW i \in 1 .. N PROVE items[i] \in {SubSeq(data, p[1], p[2] - 1) : p \in cuts}
  <2>1. PICK p \in cuts : p = <<start[i] + 1, start[i + 1]>>
    BY <1>10
  <2>2. p[1] = start[i] + 1 /\ p[2] = start[i + 1]
    BY <2>1
  <2>3. items[i] = SubSeq(data, p[1], p[2] - 1)
    BY <1>11, <2>2
  <2> QED BY <2>3
<1> QED BY <1>1, <1>6, <1>12, <1>13
-----------------------------------------------------------------------------
LEMMA MoreCells ==
  ASSUME NEW A, NEW B, A \subseteq B, NEW s, s \in Seq(A)
  PROVE  s \in Seq(B)
OBVIOUS

\* What a filter lists, over cells that can also be marks.
LEMMA FilterCells ==
  ASSUME NEW filter, IsFilter(filter)
  PROVE  \E S : ListOf(filter.items, S) /\ NUL \in S /\ Separator \in S
<1> DEFINE C == UNION {{name[c] : c \in DOMAIN name} : name \in
                        {filter.items[i] : i \in DOMAIN filter.items}}
           S == C \cup {NUL, Separator}
<1>1. filter.items \in Seq(Seq(C))
  BY DEF IsFilter
<1>2. C \subseteq S /\ NUL \in S /\ Separator \in S
  OBVIOUS
<1> HIDE DEF S, C
<1>3. Seq(C) \subseteq Seq(S)
  BY <1>2, MoreCells
<1>4. filter.items \in Seq(Seq(S))
  BY <1>1, <1>3, MoreCells
<1> QED BY <1>2, <1>4 DEF ListOf

\* The names, each with its terminator.
Terminated(names) == [i \in DOMAIN names |-> names[i] \o <<NUL>>]

LEMMA NamesLaid ==
  ASSUME NEW S, NUL \in S, NEW names, ListOf(names, S),
         \A i \in DOMAIN names : ~ Has(names[i], NUL)
  PROVE  /\ Flat(Terminated(names)) \in Seq(S)
         /\ \E start : Laid(Flat(Terminated(names)), names, start, NUL)
<1>0. PICK data : data = Flat(Terminated(names))
  OBVIOUS
<1> DEFINE pieces == [i \in DOMAIN names |-> names[i] \o <<NUL>>]
<1>1. PICK N \in Nat : N = Len(names) /\ DOMAIN names = 1 .. N
  BY DEF ListOf
<1>2. ASSUME NEW i \in 1 .. N
      PROVE  /\ pieces[i] \in Seq(S) /\ Len(pieces[i]) = Len(names[i]) + 1 /\ Len(names[i]) \in Nat
             /\ \A c \in 1 .. Len(names[i]) : pieces[i][c] = names[i][c] /\ names[i][c] # NUL
             /\ pieces[i][Len(names[i]) + 1] = NUL
  <2>1. PICK name \in Seq(S), l \in Nat : name = names[i] /\ l = Len(name)
    <3>1. names[i] \in Seq(S)
      BY <1>1 DEF ListOf
    <3> QED BY <3>1
  <2>2. /\ name \o <<NUL>> \in Seq(S) /\ Len(name \o <<NUL>>) = l + 1
        /\ (name \o <<NUL>>)[l + 1] = NUL /\ \A c \in 1 .. l : (name \o <<NUL>>)[c] = name[c]
    BY <2>1
  <2>3. \A c \in 1 .. l : name[c] # NUL
    BY <1>1, <2>1 DEF Has
  <2>4. pieces[i] = name \o <<NUL>>
    BY <1>1, <2>1
  <2> QED BY <2>1, <2>2, <2>3, <2>4
<1>3. ListOf(pieces, S) /\ Len(pieces) = N
  <2>1. \A i \in 1 .. N : pieces[i] \in Seq(S)
    BY <1>2
  <2>2. pieces = [i \in 1 .. N |-> pieces[i]]
    BY <1>1
  <2> HIDE DEF pieces
  <2> QED BY <1>1, <2>1, <2>2 DEF ListOf
<1>4. data = Flat(pieces)
  BY <1>0 DEF Terminated
<1> HIDE DEF pieces
<1>5. PICK start : Starts(start, pieces) /\ Flat(pieces) \in Seq(S)
  BY <1>3, FlatLayout
<1>6. ASSUME NEW i \in 1 .. N
      PROVE  /\ start[i + 1] = start[i] + Len(names[i]) + 1
             /\ \A c \in 1 .. Len(names[i]) :
                  data[start[i] + c] = names[i][c] /\ names[i][c] \notin {NUL, NUL}
             /\ data[start[i + 1]] = NUL
  <2>1. /\ start[i] \in Nat /\ start[i + 1] = start[i] + Len(pieces[i])
        /\ \A c \in 1 .. Len(pieces[i]) : data[start[i] + c] = pieces[i][c]
    <3>1. i \in 1 .. Len(pieces) /\ i \in 1 .. Len(pieces) + 1
      BY <1>3
    <3> QED BY <1>4, <1>5, <3>1 DEF Starts
  <2>2. PICK l \in Nat : l = Len(names[i])
    BY <1>2
  <2>3. /\ Len(pieces[i]) = l + 1 /\ pieces[i][l + 1] = NUL
        /\ \A c \in 1 .. l : pieces[i][c] = names[i][c] /\ names[i][c] # NUL
    BY <1>2, <2>2
  <2>4. start[i + 1] = start[i] + (l + 1) /\ start[i] + (l + 1) = start[i] + l + 1
    <3>1. start[i + 1] = start[i] + (l + 1) /\ start[i] \in Nat
      BY <2>1, <2>3
    <3> QED BY <2>2, <3>1
  <2>5. l + 1 \in 1 .. l + 1 /\ \A c \in 1 .. l : c \in 1 .. l + 1
    OBVIOUS
  <2>6. data[start[i + 1]] = NUL
    BY <2>1, <2>3, <2>4, <2>5
  <2>7. \A c \in 1 .. l : data[start[i] + c] = names[i][c] /\ names[i][c] \notin {NUL, NUL}
    BY <2>1, <2>3, <2>5
  <2> QED BY <2>2, <2>4, <2>6, <2>7
<1>7. start[1] = 0 /\ start[N + 1] = Len(data) /\ \A i \in 1 .. N + 1 : start[i] \in Nat
  BY <1>3, <1>4, <1>5 DEF Starts
<1>8. Laid(data, names, start, NUL)
  BY <1>1, <1>6, <1>7 DEF Laid
<1> QED BY <1>0, <1>4, <1>5, <1>8

\* One string for all the names, separated.
LEMMA JoinedLaid ==
  ASSUME NEW S, NUL \in S, Separator \in S, NEW names, ListOf(names, S), Len(names) > 0,
         \A i \in DOMAIN names : ~ Has(names[i], NUL) /\ ~ Has(names[i], Separator)
  PROVE  Joined(names) \in Seq(S) /\ \E start : Laid(Joined(names), names, start, Separator)
<1>0. PICK data : data = Joined(names)
  OBVIOUS
<1> DEFINE pieces == [i \in DOMAIN names |-> IF i = 1 THEN names[i] ELSE <<Separator>> \o names[i]]
           lead(i) == IF i = 1 THEN 0 ELSE 1
<1>1. PICK N \in Nat : N = Len(names) /\ DOMAIN names = 1 .. N /\ N > 0
  BY DEF ListOf
<1>2. ASSUME NEW i \in 1 .. N
      PROVE  /\ pieces[i] \in Seq(S) /\ Len(pieces[i]) = lead(i) + Len(names[i]) /\ Len(names[i]) \in Nat
             /\ \A c \in 1 .. Len(names[i]) :
                  pieces[i][lead(i) + c] = names[i][c] /\ names[i][c] \notin {Separator, NUL}
             /\ i # 1 => pieces[i][1] = Separator
  <2>1. PICK name \in Seq(S), l \in Nat : name = names[i] /\ l = Len(name)
    <3>1. names[i] \in Seq(S)
      BY <1>1 DEF ListOf
    <3> QED BY <3>1
  <2>2. /\ <<Separator>> \o name \in Seq(S) /\ Len(<<Separator>> \o name) = 1 + l
        /\ (<<Separator>> \o name)[1] = Separator
        /\ \A c \in 1 .. l : (<<Separator>> \o name)[1 + c] = name[c]
    BY <2>1
  <2>3. \A c \in 1 .. l : name[c] \notin {Separator, NUL}
    BY <1>1, <2>1 DEF Has
  <2>4. CASE i = 1
    <3>1. pieces[i] = name /\ lead(i) = 0 /\ \A c \in 1 .. l : 0 + c = c
      BY <1>1, <2>1, <2>4
    <3> HIDE DEF pieces, lead
    <3> QED BY <2>1, <2>3, <2>4, <3>1
  <2>5. CASE i # 1
    <3>1. pieces[i] = <<Separator>> \o name /\ lead(i) = 1
      BY <1>1, <2>1, <2>5
    <3> HIDE DEF pieces, lead
    <3> QED BY <2>1, <2>2, <2>3, <3>1
  <2> QED BY <2>4, <2>5
<1>3. ListOf(pieces, S) /\ Len(pieces) = N
  <2>1. \A i \in 1 .. N : pieces[i] \in Seq(S)
    BY <1>2
  <2>2. pieces = [i \in 1 .. N |-> pieces[i]]
    BY <1>1
  <2> HIDE DEF pieces
  <2> QED BY <1>1, <2>1, <2>2 DEF ListOf
<1>4. data = Flat(pieces) \o <<NUL>>
  BY <1>0 DEF Joined
<1> HIDE DEF pieces
<1>5. PICK from : Starts(from, pieces) /\ Flat(pieces) \in Seq(S)
  BY <1>3, FlatLayout
<1>6. PICK flat \in Seq(S), n \in Nat : flat = Flat(pieces) /\ n = Len(flat)
  BY <1>5
<1>7. /\ data \in Seq(S) /\ Len(data) = n + 1 /\ data[n + 1] = NUL
      /\ \A k \in 1 .. n : data[k] = flat[k]
  BY <1>4, <1>6
<1>8. /\ from[1] = 0 /\ from[N + 1] = n
      /\ \A i \in 1 .. N + 1 : from[i] \in Nat /\ from[i] <= n
  <2>1. \A i \in 1 .. N + 1 : from[i] <= n
    BY <1>3, <1>5, <1>6, StartsGrow
  <2> QED BY <1>3, <1>5, <1>6, <2>1 DEF Starts
<1>9. ASSUME NEW i \in 1 .. N
      PROVE  /\ from[i + 1] = from[i] + Len(pieces[i])
             /\ \A c \in 1 .. Len(pieces[i]) : data[from[i] + c] = pieces[i][c]
  <2>1. /\ from[i + 1] = from[i] + Len(pieces[i])
        /\ \A c \in 1 .. Len(pieces[i]) : flat[from[i] + c] = pieces[i][c]
    BY <1>3, <1>5, <1>6 DEF Starts
  <2>2. from[i] \in Nat /\ from[i + 1] \in Nat /\ from[i + 1] <= n
    BY <1>8
  <2>3. Len(pieces[i]) \in Nat
    <3>1. lead(i) \in Nat /\ Len(names[i]) \in Nat /\ Len(pieces[i]) = lead(i) + Len(names[i])
      BY <1>2
    <3> HIDE DEF lead
    <3> QED BY <3>1
  <2>4. \A c \in 1 .. Len(pieces[i]) : from[i] + c \in 1 .. n
    BY <2>1, <2>2, <2>3
  <2> QED BY <1>7, <2>1, <2>4
<1> DEFINE start == [i \in 1 .. N + 1 |-> from[i] + lead(i)]
<1>10. \A i \in 1 .. N + 1 : start[i] = from[i] + lead(i) /\ start[i] \in Nat
  BY <1>8
<1> HIDE DEF start
<1>11. start[1] = 0 /\ start[N + 1] = Len(data)
  <2>1. 1 \in 1 .. N + 1 /\ N + 1 \in 1 .. N + 1 /\ N + 1 # 1
    BY <1>1
  <2>2. lead(1) = 0 /\ lead(N + 1) = 1
    BY <2>1
  <2> HIDE DEF lead
  <2>3. start[1] = 0 + 0 /\ start[N + 1] = n + 1
    BY <1>8, <1>10, <2>1, <2>2
  <2> QED BY <1>7, <2>3
<1>12. ASSUME NEW i \in 1 .. N
       PROVE  /\ start[i + 1] = start[i] + Len(names[i]) + 1
              /\ \A c \in 1 .. Len(names[i]) :
                   data[start[i] + c] = names[i][c] /\ names[i][c] \notin {Separator, NUL}
              /\ data[start[i + 1]] = IF i = N THEN NUL ELSE Separator
  <2>1. PICK l \in Nat, h \in Nat, a \in Nat : l = Len(names[i]) /\ h = lead(i) /\ a = from[i]
    <3>1. Len(names[i]) \in Nat /\ lead(i) \in Nat /\ from[i] \in Nat
      BY <1>2, <1>8
    <3> QED BY <3>1
  <2>2. from[i + 1] = a + (h + l) /\ start[i] = a + h /\ start[i + 1] = a + (h + l) + 1
    <3>1. i \in 1 .. N + 1 /\ i + 1 \in 1 .. N + 1 /\ lead(i + 1) = 1
      OBVIOUS
    <3>2. Len(pieces[i]) = h + l
      BY <1>2, <2>1
    <3>3. from[i + 1] = a + (h + l)
      BY <1>9, <2>1, <3>2
    <3> HIDE DEF lead
    <3> QED BY <1>10, <2>1, <3>1, <3>3
  <2>3. ASSUME NEW c \in 1 .. l
        PROVE  data[start[i] + c] = names[i][c] /\ names[i][c] \notin {Separator, NUL}
    <3>1. PICK k \in Nat : k = h + c /\ k \in 1 .. h + l /\ start[i] + c = a + k
      BY <2>2
    <3>2. pieces[i][k] = names[i][c] /\ names[i][c] \notin {Separator, NUL} /\ Len(pieces[i]) = h + l
      BY <1>2, <2>1, <3>1
    <3>3. data[a + k] = pieces[i][k]
      BY <1>9, <2>1, <3>1, <3>2
    <3> QED BY <3>1, <3>2, <3>3
  <2>4. start[i + 1] = start[i] + l + 1
    <3> HIDE DEF lead
    <3>1. a + (h + l) + 1 = (a + h) + l + 1
      OBVIOUS
    <3> QED BY <2>2, <3>1
  <2>5. CASE i = N
    <3>1. start[i + 1] = n + 1
      BY <1>8, <2>2, <2>5
    <3>2. data[start[i + 1]] = NUL
      BY <1>7, <3>1
    <3> QED BY <2>1, <2>3, <2>5, <2>4, <3>2
  <2>6. CASE i # N
    <3>1. PICK j \in 1 .. N : j = i + 1 /\ j # 1
      BY <2>6
    <3>2. pieces[j][1] = Separator /\ Len(pieces[j]) = lead(j) + Len(names[j])
          /\ Len(names[j]) \in Nat /\ lead(j) = 1
      BY <1>2, <3>1
    <3> HIDE DEF lead
    <3>3. 1 \in 1 .. Len(pieces[j])
      BY <3>2
    <3>4. data[from[j] + 1] = Separator
      BY <1>9, <3>2, <3>3
    <3>5. start[i + 1] = from[j] + 1
      BY <2>2, <3>1
    <3>6. data[start[i + 1]] = Separator
      BY <3>4, <3>5
    <3> QED BY <2>1, <2>3, <2>6, <2>4, <3>6
  <2> QED BY <2>5, <2>6
<1>13. Laid(data, names, start, Separator)
  BY <1>1, <1>10, <1>11, <1>12 DEF Laid
<1> QED BY <1>0, <1>7, <1>13
\* One cell per item: each is where its number says.
LEMMA CellsLaid ==
  ASSUME NEW S, NEW items, ListOf(items, S), \A i \in 1 .. Len(items) : Len(items[i]) = 1
  PROVE  {<<Flat(items)[i]>> : i \in 1 .. Len(items)} = {items[i] : i \in 1 .. Len(items)}
<1>1. PICK N \in Nat : N = Len(items)
  BY DEF ListOf
<1>2. PICK start : Starts(start, items)
  BY FlatLayout
<1> DEFINE T == {k \in 0 .. N : start[k + 1] = k}
<1>3. 0 \in T
  BY <1>2 DEF Starts
<1>4. ASSUME NEW k \in 0 .. N - 1, k \in T PROVE k + 1 \in T
  <2>1. PICK j \in 1 .. N : j = k + 1
    BY <1>1
  <2>2. start[j + 1] = start[j] + Len(items[j]) /\ Len(items[j]) = 1
    BY <1>1, <1>2 DEF Starts
  <2>3. start[j] = k
    BY <1>4, <2>1
  <2> QED BY <2>1, <2>2, <2>3
<1>5. \A k \in 0 .. N : k \in T
  <2> HIDE DEF T
  <2> QED BY <1>3, <1>4, Induction
<1>6. ASSUME NEW i \in 1 .. N PROVE <<Flat(items)[i]>> = items[i]
  <2>1. PICK k \in 0 .. N : i = k + 1
    <3>1. i - 1 \in 0 .. N /\ i = (i - 1) + 1
      OBVIOUS
    <3> QED BY <3>1
  <2>2. start[i] = k
    <3>1. k \in T
      BY <1>5
    <3> QED BY <2>1, <3>1
  <2>3. PICK item \in Seq(S) : item = items[i] /\ Len(item) = 1
    BY <1>1 DEF ListOf
  <2>4. Flat(items)[start[i] + 1] = item[1]
    <3>1. 1 \in 1 .. Len(items[i])
      BY <2>3
    <3> QED BY <1>1, <1>2, <2>3, <3>1 DEF Starts
  <2>5. item = <<item[1]>>
    BY <2>3
  <2>6. Flat(items)[i] = item[1]
    BY <2>1, <2>2, <2>4
  <2> QED BY <2>3, <2>5, <2>6
<1> QED BY <1>1, <1>6

\* Windows reads back from a descriptor what the filter asked for, whatever it lists: no
\* name is split, joined to another or cut, and none is added.
LEMMA FilterReadBack ==
  ASSUME NEW filter, IsFilter(filter), Descriptor(filter) # Rejected
  PROVE  ReadBack(Descriptor(filter)) = Asked(filter) /\ Descriptor(filter).type = filter.by
<1> DEFINE items == filter.items
           Taken(count, data) == [type |-> filter.by, keep |-> filter.keep, match |-> filter.match,
                                  count |-> count, data |-> data]
           Listed == {items[i] : i \in DOMAIN items}
<1>1. PICK S : ListOf(items, S) /\ NUL \in S /\ Separator \in S
  BY FilterCells
<1>2. Len(items) \in Nat /\ DOMAIN items = 1 .. Len(items) /\ (items # <<>> => Len(items) > 0)
  <2> HIDE DEF items
  <2> QED BY <1>1 DEF ListOf
<1>3. ASSUME NEW count, NEW data, NEW max, TryNew(filter, count, data, max) # Rejected
      PROVE  TryNew(filter, count, data, max) = Taken(count, data)
  BY <1>3 DEF TryNew
<1>4. ASSUME NEW n, NEW data,
             Listed = CASE filter.by = "executables" -> Pieces(data, {Separator, NUL}, {NUL})
                        [] filter.by = "names" -> Pieces(data, {NUL}, {})
                        [] OTHER -> {<<data[i]>> : i \in 1 .. n}
      PROVE  ReadBack(Taken(n, data)) = Asked(filter) /\ Taken(n, data).type = filter.by
  BY <1>4 DEF ReadBack, Asked
<1>5. CASE filter.by \in {"pids", "ids", "stacks"}
  <2>1. Descriptor(filter) = Taken(Len(items), Flat(items))
    BY <1>3, <1>5 DEF Descriptor, Pids, Ids
  <2>2. \A i \in 1 .. Len(items) : Len(items[i]) = 1
    BY <1>2, <1>5 DEF IsFilter
  <2>3. {<<Flat(items)[i]>> : i \in 1 .. Len(items)} = {items[i] : i \in 1 .. Len(items)}
    <3> HIDE DEF items
    <3> QED BY <1>1, <2>2, CellsLaid
  <2>4. PICK n, data : n = Len(items) /\ data = Flat(items)
    OBVIOUS
  <2>5. {<<data[i]>> : i \in 1 .. n} = Listed
    BY <1>2, <2>3, <2>4
  <2> QED BY <1>5, <1>4, <2>1, <2>4, <2>5
<1>6. CASE filter.by = "executables"
  <2>1. Descriptor(filter) = Taken(1, Joined(items))
    BY <1>3, <1>6 DEF Descriptor, Executables
  <2>2. items # <<>> /\ \A i \in DOMAIN items : ~ Has(items[i], NUL) /\ ~ Has(items[i], Separator)
    BY <1>6 DEF Descriptor, Executables
  <2>3. Pieces(Joined(items), {Separator, NUL}, {NUL}) = Listed
    <3>1. PICK data, start : data = Joined(items) /\ data \in Seq(S) /\ Laid(data, items, start, Separator)
      BY <1>1, <1>2, <2>2, JoinedLaid
    <3>2. {NUL} = IF Separator = NUL THEN {} ELSE {NUL}
      BY DEF Separator, NUL
    <3> HIDE DEF items, Listed
    <3>3. Pieces(data, {Separator, NUL}, {NUL}) = {items[i] : i \in 1 .. Len(items)}
      BY <1>1, <1>2, <2>2, <3>1, <3>2, LaidReadBack
    <3> QED BY <1>2, <3>1, <3>3 DEF Listed
  <2> QED BY <1>6, <1>4, <2>1, <2>3
<1>7. CASE filter.by = "names"
  <2>1. Descriptor(filter) = Taken(Len(items), Flat(Terminated(items)))
    BY <1>3, <1>7 DEF Descriptor, EventNames, Terminated
  <2>2. items # <<>> /\ \A i \in DOMAIN items : ~ Has(items[i], NUL)
    BY <1>7 DEF Descriptor, EventNames
  <2>3. Pieces(Flat(Terminated(items)), {NUL}, {}) = Listed
    <3>1. PICK data, start : data = Flat(Terminated(items)) /\ data \in Seq(S) /\ Laid(data, items, start, NUL)
      BY <1>1, <2>2, NamesLaid
    <3>2. {} = (IF NUL = NUL THEN {} ELSE {NUL}) /\ {NUL, NUL} = {NUL}
      OBVIOUS
    <3> HIDE DEF items, Listed
    <3>3. Pieces(data, {NUL}, {}) = {items[i] : i \in 1 .. Len(items)}
      BY <1>1, <1>2, <2>2, <3>1, <3>2, LaidReadBack
    <3> QED BY <1>2, <3>1, <3>3 DEF Listed
  <2> QED BY <1>7, <1>4, <2>1, <2>3
<1> QED BY <1>5, <1>6, <1>7 DEF IsFilter
-----------------------------------------------------------------------------
(* What the providers are enabled with *)

\* A provider whose filters could all be built is enabled as it asks.
LEMMA EnableMeaning ==
  ASSUME NEW p, \A i \in DOMAIN p.filters : IsFilter(p.filters[i]), ~ FiltersRejected(p)
  PROVE  EnabledAsRequested(EnableTraceParameters(p), p)
<1> DEFINE D == DOMAIN p.filters
<1>1. Descriptors(p) = [i \in D |-> Descriptor(p.filters[i])]
  BY DEF Descriptors
<1>2. ASSUME NEW i \in D
      PROVE  /\ ReadBack(Descriptors(p)[i]) = Asked(p.filters[i])
             /\ Descriptors(p)[i].type = p.filters[i].by
  <2>1. Descriptors(p)[i] = Descriptor(p.filters[i]) /\ Descriptors(p)[i] # Rejected
    BY <1>1 DEF FiltersRejected
  <2> QED BY <2>1, FilterReadBack
<1>3. DOMAIN Descriptors(p) = D
  BY <1>1
<1>4. {ReadBack(Descriptors(p)[i]) : i \in DOMAIN Descriptors(p)} = {Asked(p.filters[i]) : i \in D}
  BY <1>2, <1>3
<1>5. StackTrace \in EnableTraceParameters(p).properties <=>
        StackTrace \in p.traceFlags \/ \E i \in D : p.filters[i].by = "stacks"
  <2>1. EnableTraceParameters(p).properties =
          p.traceFlags \cup {StackTrace : i \in {i \in D : Descriptors(p)[i].type = "stacks"}}
    BY DEF EnableTraceParameters
  <2> QED BY <1>2, <2>1
<1> QED BY <1>4, <1>5 DEF EnabledAsRequested, EnableTraceParameters

\* A set of numbers below a bound has a greatest one.
LEMMA GreatestNumber ==
  ASSUME NEW n \in Nat, NEW T \in SUBSET (1 .. n), T # {}
  PROVE  \E x \in T : \A y \in T : y <= x
<1> DEFINE U == {n - x : x \in T}
<1>1. U \in SUBSET Nat /\ U # {}
  <2>1. \A x \in T : x \in 1 .. n
    OBVIOUS
  <2>2. \A x \in 1 .. n : n - x \in Nat
    OBVIOUS
  <2>3. \A x \in T : n - x \in Nat
    BY <2>1, <2>2
  <2> QED BY <2>3
<1>2. PICK u \in U : \A v \in U : u <= v
  <2> HIDE DEF U
  <2> QED BY <1>1, LeastNumber
<1>3. PICK x \in T : u = n - x
  BY <1>2
<1>4. \A y \in T : n - x <= n - y
  BY <1>2, <1>3
<1> QED BY <1>3, <1>4

\* When all have been gone through, each GUID is enabled by the one that decides it.
LEMMA DecidingEnabled ==
  ASSUME NEW enabled, request \in Requests, EnabledUpTo(Len(request.providers), request, enabled)
  PROVE  /\ DOMAIN enabled = {p.guid : p \in Deciding}
         /\ \A p \in Deciding : /\ enabled[p.guid] = EnableTraceParameters(p)
                                /\ ~ FiltersRejected(p)
                                /\ \A i \in DOMAIN p.filters : IsFilter(p.filters[i])
<1>1. PICK n, list :
        n \in Nat /\ n = Len(request.providers) /\ DOMAIN list = 1 .. n /\ list = request.providers
  BY BuilderTypes
<1>2. \A i \in 1 .. n : /\ list[i].filters # <<>> <=> Len(list[i].filters) > 0
                         /\ \A j \in DOMAIN list[i].filters : IsFilter(list[i].filters[j])
  <2> TAKE i \in 1 .. n
  <2>1. IsSequence(list[i].filters) /\ \A j \in DOMAIN list[i].filters : IsFilter(list[i].filters[j])
    BY <1>1, RequestsAssumption DEF RequestsAssumption
  <2>2. PICK filters : filters = list[i].filters /\ IsSequence(filters)
    BY <2>1
  <2>3. filters # <<>> <=> Len(filters) > 0
    <3> DEFINE Elements == {filters[j] : j \in DOMAIN filters}
    <3>1. filters \in Seq(Elements)
      BY <2>2 DEF IsSequence
    <3> HIDE DEF Elements
    <3> QED BY <3>1
  <2> QED BY <2>1, <2>2, <2>3
<1> DEFINE own == {i \in 1 .. n : request.kernel => Len(list[i].filters) > 0}
           reached == {i \in 1 .. n : ~ request.kernel \/ list[i].filters # <<>>}
           last == {i \in own : \A j \in own : list[j].guid = list[i].guid => j <= i}
<1>3. Deciding = {list[i] : i \in last}
  BY <1>1 DEF Deciding
<1>4. reached = own
  <2>1. request.kernel \in BOOLEAN
    BY BuilderTypes
  <2> QED BY <1>2, <2>1
<1>5. /\ DOMAIN enabled = {list[i].guid : i \in reached}
      /\ \A i \in reached :
           (\A j \in reached : list[j].guid = list[i].guid => j <= i) =>
             enabled[list[i].guid] = EnableTraceParameters(list[i]) /\ ~ FiltersRejected(list[i])
  BY <1>1 DEF EnabledUpTo
<1>6. own \in SUBSET (1 .. n)
  OBVIOUS
<1> HIDE DEF own, reached
<1>7. ASSUME NEW i \in own PROVE \E k \in last : list[k].guid = list[i].guid
  <2> DEFINE T == {j \in own : list[j].guid = list[i].guid}
  <2>1. T \in SUBSET (1 .. n) /\ T # {}
    BY <1>6
  <2>2. PICK k \in T : \A y \in T : y <= k
    <3> HIDE DEF T
    <3> QED BY <1>1, <2>1, GreatestNumber
  <2> QED BY <2>2
<1>8. DOMAIN enabled = {p.guid : p \in Deciding}
  BY <1>3, <1>4, <1>5, <1>7
<1>9. ASSUME NEW p \in Deciding
      PROVE  /\ enabled[p.guid] = EnableTraceParameters(p)
             /\ ~ FiltersRejected(p)
             /\ \A i \in DOMAIN p.filters : IsFilter(p.filters[i])
  <2>1. PICK i \in last : p = list[i]
    BY <1>3
  <2>2. i \in own /\ i \in 1 .. n /\ \A j \in own : list[j].guid = list[i].guid => j <= i
    BY <1>6
  <2>3. enabled[list[i].guid] = EnableTraceParameters(list[i]) /\ ~ FiltersRejected(list[i])
    BY <1>4, <1>5, <2>2
  <2> QED BY <1>2, <2>1, <2>2, <2>3
<1> QED BY <1>8, <1>9
-----------------------------------------------------------------------------
(* SessionSetup *)

LEMMA SetupHoldsAtFirst == SetupInit => SetupIInv
<1> SUFFICES ASSUME SetupInit PROVE SetupIInv
  OBVIOUS
<1>1. SetupTypeOK
  <2>1. next \in 1 .. Len(request.providers) + 1 /\ request = NoRequest /\ rundown = {}
    BY NoRequestTypes DEF SetupInit
  <2>2. outside \in 0 .. MaxOutside /\ DOMAIN sessions = {} /\ DOMAIN groupMask = Masks
    BY SetupAssumption DEF SetupInit, SetupAssumption
  <2> QED BY <2>1, <2>2 DEF SetupInit, SetupTypeOK
<1>2. SessionsAreRecords /\ PhasesFollow /\ OursIsStarted /\ NameIsFree /\ ReplacedUnlessRaced
  BY DEF SetupInit, SessionsAreRecords, PhasesFollow, OursIsStarted, NameIsFree, ReplacedUnlessRaced,
         Unstarted, Grouping, Attached, Broken
<1>3. FlushFollows /\ GroupsFollow /\ StacksFollow /\ EnablesFollow /\ RundownsFollow
  BY DEF SetupInit, FlushFollows, GroupsFollow, StacksFollow, EnablesFollow, RundownsFollow, Ours, Attached
<1> QED BY <1>1, <1>2, <1>3 DEF SetupIInv

LEMMA SetupIsKept ==
  ASSUME SetupIInv, [SetupNext]_setupVars
  PROVE  SetupIInv'
BY SessionsStep, TypeStep, PhasesStep, OwnershipStep, NameStep, FlushStep, GroupsStep, StacksStep,
   EnablesStep, RundownsStep DEF SetupIInv

\* What the settings rest on: in a session of its own, a builder's groups, stacks and
\* providers are in place as far as the phase has come.
THEOREM SetupInvariant == Spec => []SetupIInv
<1>1. Init => SetupIInv
  BY SetupHoldsAtFirst DEF Init
<1>2. SetupIInv /\ [Next]_controlVars => SetupIInv'
  BY SetupIsKept DEF Next, Returned, controlVars, setupVars
<1> QED BY <1>1, <1>2, PTL DEF Spec

\* The types hold for any builder: a start that fails leaves no index, mask or flush
\* timer out of its range.
THEOREM SetupTypeCorrect == Spec => []SetupTypeOK
<1>1. SetupIInv => SetupTypeOK
  BY DEF SetupIInv
<1> QED BY <1>1, SetupInvariant, PTL

\* No consumer is ever attached to a session whose groups, stacks or providers are not
\* all in place, and start only returns when every rundown has been heard.
THEOREM SettingsAlwaysBeforeEvents == Spec => []SettingsBeforeEvents
<1>1. SetupIInv => SettingsBeforeEvents
  <2> SUFFICES ASSUME SetupIInv PROVE SettingsBeforeEvents
    OBVIOUS
  <2>1. ASSUME consumer = "open", Ours
        PROVE  /\ GroupsAsRequested(sessions[Session].masks)
               /\ sessions[Session].stacks = request.stacks
               /\ \A p \in Deciding : p.guid \in DOMAIN sessions[Session].enabled
    <3>1. Settled /\ phase \notin Grouping \cup {"checkFilters", "enable"} /\ phase # "builder"
      BY <2>1 DEF Settled, SetupIInv, PhasesFollow, Attached, Broken, Grouping
    <3>2. EnabledUpTo(Len(request.providers), request, sessions[Session].enabled)
      BY <2>1, <3>1, RequestTypes DEF SetupIInv, EnablesFollow, Reached
    <3>3. ASSUME NEW i \in DOMAIN request.providers,
                 request.kernel => Len(request.providers[i].filters) > 0
          PROVE  request.providers[i].guid \in DOMAIN sessions[Session].enabled
      <4>1. ~ request.kernel \/ request.providers[i].filters # <<>>
        BY <3>3
      <4>2. i \in 1 .. Len(request.providers)
        BY RequestTypes
      <4> QED BY <3>2, <4>1, <4>2 DEF EnabledUpTo
    <3>4. \A p \in Deciding : p.guid \in DOMAIN sessions[Session].enabled
      BY <3>3 DEF Deciding
    <3> QED BY <2>1, <3>1, <3>4 DEF SetupIInv, GroupsFollow, StacksFollow
  <2>2. ASSUME phase = "live", ~ request.existing, ~ request.kernel,
               NEW i \in DOMAIN request.providers, request.providers[i].capture
        PROVE  request.providers[i].guid \in rundown
    BY <2>2 DEF SetupIInv, RundownsFollow, ToCapture, Attached
  <2> QED BY <2>1, <2>2 DEF SettingsBeforeEvents
<1> QED BY <1>1, SetupInvariant, PTL

\* Whatever the builder asks for, a session that start hands out has it: the flush timer,
\* every group and stack, and each provider enabled as the last one of its GUID says, with
\* filters that Windows reads back as they were asked for.
THEOREM AlwaysConfiguredAsRequested == Spec => []ConfiguredAsRequested
<1>1. SetupIInv => ConfiguredAsRequested
  <2> SUFFICES ASSUME SetupIInv, phase = "live", Ours
               PROVE  /\ FlushAsRequested(sessions[Session].flush)
                      /\ GroupsAsRequested(sessions[Session].masks)
                      /\ sessions[Session].stacks = request.stacks
                      /\ DOMAIN sessions[Session].enabled = {p.guid : p \in Deciding}
                      /\ \A p \in Deciding :
                           EnabledAsRequested(sessions[Session].enabled[p.guid], p)
    BY DEF ConfiguredAsRequested
  <2>1. Settled /\ phase \notin Grouping \cup {"checkFilters", "enable"} /\ request \in Requests
    BY DEF Settled, SetupIInv, PhasesFollow, Attached, Grouping
  <2>2. EnabledUpTo(Len(request.providers), request, sessions[Session].enabled)
    BY <2>1, RequestTypes DEF SetupIInv, EnablesFollow, Reached
  <2>3. FlushAsRequested(sessions[Session].flush) /\ GroupsAsRequested(sessions[Session].masks)
        /\ sessions[Session].stacks = request.stacks
    BY <2>1 DEF SetupIInv, FlushFollows, GroupsFollow, StacksFollow
  <2>4. /\ DOMAIN sessions[Session].enabled = {p.guid : p \in Deciding}
        /\ \A p \in Deciding : /\ sessions[Session].enabled[p.guid] = EnableTraceParameters(p)
                               /\ ~ FiltersRejected(p)
                               /\ \A i \in DOMAIN p.filters : IsFilter(p.filters[i])
    BY <2>1, <2>2, DecidingEnabled
  <2>5. \A p \in Deciding : EnabledAsRequested(sessions[Session].enabled[p.guid], p)
    BY <2>4, EnableMeaning
  <2> QED BY <2>3, <2>4, <2>5
<1> QED BY <1>1, SetupInvariant, PTL

\* With stop_if_exist, a start whose name fits only finds it taken when another process
\* took it after the STOP.
THEOREM AlwaysReplacedUnlessRaced == Spec => []ReplacedUnlessRaced
<1>1. SetupIInv => ReplacedUnlessRaced
  BY DEF SetupIInv
<1> QED BY <1>1, SetupInvariant, PTL
-----------------------------------------------------------------------------
(* The arrays of the OS *)

Text == Seq(Nat \ {0})

\* What the cells of a list's array say, source by source.
Lists(cells, list, start) ==
  \A i \in 1 .. Len(list) :
    /\ start[i] \in Nat
    /\ start[i + 1] \in Nat
    /\ start[i + 1] = start[i] + Len(list[i]) + FixedCells + 1
    /\ start[i + 1] <= Len(cells)
    /\ cells[start[i] + 1] = IF i = Len(list) THEN 0 ELSE start[i + 1] - start[i]
    /\ cells[start[i] + 2] = i
    /\ \A c \in 1 .. Len(list[i]) : cells[start[i] + FixedCells + c] = list[i][c]
    /\ cells[start[i + 1]] = End

LEMMA EntryTypes ==
  ASSUME NEW list, list \in Seq(Text), NEW i \in 1 .. Len(list)
  PROVE  /\ Entry(list, i) \in Seq(Nat)
         /\ Len(Entry(list, i)) = Len(list[i]) + FixedCells + 1
         /\ Entry(list, i)[1] = IF i = Len(list) THEN 0 ELSE Len(list[i]) + FixedCells + 1
         /\ Entry(list, i)[2] = i
         /\ \A c \in 1 .. Len(list[i]) : Entry(list, i)[FixedCells + c] = list[i][c]
         /\ Entry(list, i)[Len(list[i]) + FixedCells + 1] = End
         /\ Len(list[i]) \in Nat
<1>1. PICK text : text = list[i] /\ text \in Seq(Nat) /\ Len(text) \in Nat
  BY DEF Text
<1> DEFINE distance == IF i = Len(list) THEN 0 ELSE FixedCells + Len(text) + 1
           head == <<distance, i>>
           tail == Append(text, End)
<1>2. distance \in Nat /\ i \in Nat
  BY <1>1 DEF FixedCells
<1> HIDE DEF distance
<1>3. head \in Seq(Nat) /\ Len(head) = 2 /\ head[1] = distance /\ head[2] = i
  BY <1>2
<1>4. /\ tail \in Seq(Nat) /\ Len(tail) = Len(text) + 1
      /\ tail[Len(text) + 1] = 0
      /\ \A c \in 1 .. Len(text) : tail[c] = text[c]
  BY <1>1 DEF End
<1> HIDE DEF head, tail
<1>5. Entry(list, i) = head \o tail
  BY <1>1 DEF Entry, head, tail, distance
<1>6. /\ head \o tail \in Seq(Nat)
      /\ Len(head \o tail) = 2 + Len(tail)
      /\ \A k \in 1 .. 2 : (head \o tail)[k] = head[k]
      /\ \A k \in 1 .. Len(tail) : (head \o tail)[2 + k] = tail[k]
  <2>1. PICK x \in Seq(Nat), y \in Seq(Nat) : x = head /\ y = tail /\ Len(x) = 2
    BY <1>3, <1>4
  <2>2. /\ x \o y \in Seq(Nat)
        /\ Len(x \o y) = Len(x) + Len(y)
        /\ \A k \in 1 .. Len(x) : (x \o y)[k] = x[k]
        /\ \A k \in 1 .. Len(y) : (x \o y)[Len(x) + k] = y[k]
    OBVIOUS
  <2> QED BY <2>1, <2>2
<1>7. Len(text) + 1 \in 1 .. Len(tail) /\ \A c \in 1 .. Len(text) : c \in 1 .. Len(tail)
  BY <1>1, <1>4
<1>8. distance = IF i = Len(list) THEN 0 ELSE Len(list[i]) + FixedCells + 1
  BY <1>1 DEF distance, FixedCells
<1>9. \A c \in 1 .. Len(text) : Entry(list, i)[FixedCells + c] = text[c]
  BY <1>4, <1>5, <1>6, <1>7 DEF FixedCells
<1>10. Entry(list, i)[Len(text) + FixedCells + 1] = End
  <2>1. 2 + (Len(text) + 1) = Len(text) + FixedCells + 1
    BY <1>1 DEF FixedCells
  <2>2. (head \o tail)[2 + (Len(text) + 1)] = 0
    BY <1>4, <1>6, <1>7
  <2> QED BY <1>5, <2>1, <2>2 DEF End
<1>11. Len(Entry(list, i)) = Len(text) + FixedCells + 1
  BY <1>1, <1>4, <1>5, <1>6 DEF FixedCells
<1>12. 1 \in 1 .. 2 /\ 2 \in 1 .. 2
  OBVIOUS
<1>13. Entry(list, i)[1] = distance /\ Entry(list, i)[2] = i
  BY <1>3, <1>5, <1>6, <1>12
<1>14. Entry(list, i) \in Seq(Nat)
  BY <1>5, <1>6
<1> QED BY <1>1, <1>8, <1>9, <1>10, <1>11, <1>13, <1>14

\* The array is made of numbers, and lists what it is the array of.
LEMMA ArrayLayout ==
  ASSUME NEW list, list \in Seq(Text)
  PROVE  /\ Array(list) \in Seq(Nat)
         /\ \E start : /\ Lists(Array(list), list, start)
                       /\ start[1] = 0 /\ start[Len(list) + 1] = Len(Array(list))
<1> DEFINE items == [i \in DOMAIN list |-> Entry(list, i)]
<1>1. PICK n : n = Len(list) /\ n \in Nat /\ DOMAIN list = 1 .. n
  OBVIOUS
<1>2. ASSUME NEW i \in 1 .. n PROVE items[i] = Entry(list, i) /\ items[i] \in Seq(Nat)
  BY <1>1, EntryTypes
<1>3. ListOf(items, Nat) /\ Len(items) = n
  BY <1>1, <1>2 DEF ListOf
<1>4. Array(list) = Flat(items)
  BY DEF Array
<1> HIDE DEF items
<1>5. Flat(items) \in Seq(Nat)
  BY <1>3, FlatLayout
<1>6. PICK start : Starts(start, items)
  BY <1>3, FlatLayout
<1>7. Lists(Array(list), list, start)
  <2> DEFINE cells == Array(list)
  <2> SUFFICES ASSUME NEW i \in 1 .. n
      PROVE  /\ start[i] \in Nat
             /\ start[i + 1] \in Nat
             /\ start[i + 1] = start[i] + Len(list[i]) + FixedCells + 1
             /\ start[i + 1] <= Len(cells)
             /\ cells[start[i] + 1] = IF i = Len(list) THEN 0 ELSE start[i + 1] - start[i]
             /\ cells[start[i] + 2] = i
             /\ \A c \in 1 .. Len(list[i]) : cells[start[i] + FixedCells + c] = list[i][c]
             /\ cells[start[i + 1]] = End
    BY <1>1 DEF Lists
  <2>1. start[i] \in Nat /\ start[i + 1] \in Nat
    BY <1>1, <1>3, <1>6 DEF Starts
  <2>2. start[i + 1] = start[i] + Len(items[i])
        /\ \A c \in 1 .. Len(items[i]) : cells[start[i] + c] = items[i][c]
    BY <1>3, <1>4, <1>6 DEF Starts
  <2>3. PICK len \in Nat : len = Len(list[i])
    BY <1>1, EntryTypes
  <2>4. /\ Len(items[i]) = len + FixedCells + 1
        /\ items[i][1] = IF i = n THEN 0 ELSE len + FixedCells + 1
        /\ items[i][2] = i
        /\ \A c \in 1 .. len : items[i][FixedCells + c] = list[i][c]
        /\ items[i][len + FixedCells + 1] = End
    BY <1>1, <1>2, <2>3, EntryTypes
  <2>5. start[i + 1] = start[i] + len + FixedCells + 1
    <3>1. start[i + 1] = start[i] + (len + FixedCells + 1)
      BY <2>2, <2>4
    <3> QED BY <2>1, <2>3, <3>1 DEF FixedCells
  <2>6. start[i + 1] <= Len(cells)
    BY <1>1, <1>3, <1>4, <1>6, StartsGrow
  <2>7. cells[start[i] + 1] = items[i][1] /\ cells[start[i] + 2] = i
    BY <2>2, <2>3, <2>4 DEF FixedCells
  <2>8. ASSUME NEW c \in 1 .. len PROVE cells[start[i] + FixedCells + c] = list[i][c]
    <3>1. PICK k \in Nat : k = FixedCells + c
      BY DEF FixedCells
    <3>2. k \in 1 .. Len(items[i])
      BY <2>3, <2>4, <3>1 DEF FixedCells
    <3>3. start[i] + FixedCells + c = start[i] + k
      BY <2>1, <3>1 DEF FixedCells
    <3>4. items[i][k] = list[i][c]
      BY <2>4, <3>1
    <3> QED BY <2>2, <3>2, <3>3, <3>4
  <2>9. cells[start[i + 1]] = End
    <3>1. PICK k \in Nat : k = len + FixedCells + 1
      BY <2>3 DEF FixedCells
    <3>2. k \in 1 .. Len(items[i])
      BY <2>3, <2>4, <3>1 DEF FixedCells
    <3>3. start[i + 1] = start[i] + k
      BY <2>1, <2>3, <2>5, <3>1 DEF FixedCells
    <3> QED BY <2>2, <2>4, <3>1, <3>2, <3>3
  <2>10. start[i + 1] - start[i] = len + FixedCells + 1
    BY <2>1, <2>3, <2>5 DEF FixedCells
  <2> HIDE DEF cells
  <2> QED BY <1>1, <2>1, <2>3, <2>4, <2>5, <2>6, <2>7, <2>8, <2>9, <2>10
<1>8. start[1] = 0 /\ start[Len(list) + 1] = Len(Array(list))
  BY <1>1, <1>3, <1>4, <1>6 DEF Starts
<1> QED BY <1>4, <1>5, <1>7, <1>8
-----------------------------------------------------------------------------
(* What parse_profile_sources makes of them *)

\* A description is read up to its terminator, whatever follows.
LEMMA DescriptionStops ==
  ASSUME NEW cells \in Seq(Nat), NEW text, text \in Text, Len(text) < Len(cells),
         \A c \in 1 .. Len(text) : cells[c] = text[c], cells[Len(text) + 1] = End
  PROVE  Description(cells) = text
<1> DEFINE ends == {i \in DOMAIN cells : cells[i] = End}
           end == CHOOSE i \in ends : \A j \in ends : i <= j
<1>1. PICK l \in Nat : l = Len(text)
  BY DEF Text
<1>2. \A c \in 1 .. l : text[c] \in Nat \ {0}
  BY <1>1 DEF Text
<1>3. l + 1 \in ends
  BY <1>1
<1>4. \A j \in ends : j \in Nat /\ l + 1 <= j
  BY <1>1, <1>2 DEF End
<1>5. end = l + 1
  <2> HIDE DEF ends
  <2>1. end \in ends /\ end <= l + 1
    BY <1>3, <1>4
  <2>2. l + 1 <= end /\ end \in Nat
    BY <1>4, <2>1
  <2> QED BY <2>1, <2>2
<1>6. Description(cells) = SubSeq(cells, 1, l)
  <2>1. Description(cells) = SubSeq(cells, 1, end - 1)
    BY <1>3 DEF Description
  <2>2. end - 1 = l
    <3> HIDE DEF end
    <3> QED BY <1>5
  <2> QED BY <2>1, <2>2
<1>7. SubSeq(cells, 1, l) = text
  <2>1. l <= Len(cells)
    BY <1>1
  <2>2. SubSeq(cells, 1, l) \in Seq(Nat) /\ Len(SubSeq(cells, 1, l)) = l
    BY <2>1
  <2>3. \A c \in 1 .. l : SubSeq(cells, 1, l)[c] = cells[c]
    BY <2>1
  <2>4. text \in Seq(Nat)
    BY DEF Text
  <2> QED BY <1>1, <2>2, <2>3, <2>4
<1> QED BY <1>6, <1>7

\* What is read from an offset on, when it is known from every later one.
Source(cells, o) ==
  [id |-> cells[o + 2], text |-> Description(SubSeq(cells, o + FixedCells + 1, Len(cells)))]

ReadOn(from, cells, o) ==
  CASE o + FixedCells > Len(cells) -> <<>>
    [] o + FixedCells <= Len(cells) /\ (cells[o + 1] = 0 \/ o + cells[o + 1] > Len(cells)) ->
         <<Source(cells, o)>>
    [] OTHER -> <<Source(cells, o)>> \o from[o + cells[o + 1]]

Reads(from, cells) == from = [o \in 0 .. Len(cells) |-> ReadOn(from, cells, o)]

LEMMA LaterOnly ==
  ASSUME NEW cells, cells \in Seq(Nat), NEW o \in 0 .. Len(cells), NEW f, NEW g,
         \A p \in o + 1 .. Len(cells) : f[p] = g[p]
  PROVE  ReadOn(f, cells, o) = ReadOn(g, cells, o)
<1>1. PICK n \in Nat : n = Len(cells)
  OBVIOUS
<1>2. CASE o + FixedCells > n
  BY <1>1, <1>2 DEF ReadOn
<1>3. CASE o + FixedCells <= n
  <2>1. PICK d \in Nat : d = cells[o + 1]
    BY <1>1, <1>3 DEF FixedCells
  <2>2. CASE d = 0 \/ o + d > n
    BY <1>1, <1>3, <2>1, <2>2 DEF ReadOn, FixedCells
  <2>3. CASE d # 0 /\ o + d <= n
    <3>1. o + d \in o + 1 .. n
      BY <2>3
    <3>2. f[o + d] = g[o + d]
      BY <1>1, <3>1
    <3> QED BY <2>1, <3>2 DEF ReadOn
  <2> QED BY <2>2, <2>3
<1> QED BY <1>1, <1>2, <1>3 DEF FixedCells

LEMMA ReadingExists ==
  ASSUME NEW cells, cells \in Seq(Nat)
  PROVE  \E from : Reads(from, cells) /\ Parsed(cells) = from[0]
<1>1. PICK n \in Nat : n = Len(cells)
  OBVIOUS
<1> DEFINE Good(f, k) == /\ f = [o \in 0 .. n |-> f[o]]
                         /\ \A o \in n - k .. n : f[o] = ReadOn(f, cells, o)
           T == {k \in 0 .. n : \E f : Good(f, k)}
<1>2. 0 \in T
  <2> DEFINE f == [o \in 0 .. n |-> <<>>]
  <2>1. f[n] = <<>> /\ f = [o \in 0 .. n |-> f[o]]
    BY <1>1
  <2> HIDE DEF f
  <2>2. ReadOn(f, cells, n) = <<>>
    BY <1>1 DEF ReadOn, FixedCells
  <2>3. \A o \in n - 0 .. n : o = n
    BY <1>1
  <2>4. Good(f, 0)
    BY <2>1, <2>2, <2>3
  <2> HIDE DEF Good
  <2> QED BY <2>4
<1>3. ASSUME NEW k \in 0 .. n - 1, k \in T PROVE k + 1 \in T
  <2>1. PICK f : Good(f, k)
    BY <1>3
  <2>2. PICK p \in 0 .. n - 1 : p = n - (k + 1) /\ p + 1 = n - k
    BY <1>1
  <2> DEFINE g == [o \in 0 .. n |-> IF o = p THEN ReadOn(f, cells, p) ELSE f[o]]
  <2>3. g = [o \in 0 .. n |-> g[o]]
    OBVIOUS
  <2>4. g[p] = ReadOn(f, cells, p)
    BY <2>2
  <2>5. \A o \in p + 1 .. n : g[o] = f[o]
    BY <2>2
  <2> HIDE DEF g
  <2>6. ASSUME NEW o \in p .. n PROVE g[o] = ReadOn(g, cells, o)
    <3>1. \A q \in o + 1 .. Len(cells) : f[q] = g[q]
      BY <1>1, <2>2, <2>5
    <3>2. o \in 0 .. Len(cells)
      BY <1>1, <2>2
    <3>3. ReadOn(f, cells, o) = ReadOn(g, cells, o)
      BY <3>1, <3>2, LaterOnly
    <3>4. CASE o = p
      BY <2>4, <3>3, <3>4
    <3>5. CASE o # p
      <4>1. o \in p + 1 .. n
        BY <2>2, <3>5
      <4>2. f[o] = ReadOn(f, cells, o)
        BY <2>1, <2>2, <4>1
      <4> QED BY <2>5, <3>3, <4>1, <4>2
    <3> QED BY <3>4, <3>5
  <2>7. Good(g, k + 1)
    BY <2>2, <2>3, <2>6
  <2> HIDE DEF Good
  <2>8. k + 1 \in 0 .. n
    BY <1>1
  <2> QED BY <2>7, <2>8
<1>4. n \in T
  <2>1. \A k \in 0 .. n : k \in T
    <3> HIDE DEF T
    <3> QED BY <1>2, <1>3, Induction
  <2> QED BY <2>1, <1>1
<1>5. PICK f : Good(f, n)
  BY <1>4
<1>6. Reads(f, cells)
  <2>1. \A o \in 0 .. n : o \in n - n .. n
    BY <1>1
  <2>2. \A o \in 0 .. n : f[o] = ReadOn(f, cells, o)
    BY <1>5, <2>1
  <2> QED BY <1>1, <1>5, <2>2 DEF Reads
<1> DEFINE from == CHOOSE h : Reads(h, cells)
<1>7. Reads(from, cells)
  BY <1>6
<1>8. Parsed(cells) = from[0]
  BY DEF Parsed, Reads, ReadOn, Source
<1> HIDE DEF from
<1> QED BY <1>7, <1>8

\* The sources of a list, from the i-th on, as the query returns them.
SourceOf(list, i) == [id |-> i, text |-> list[i]]
SourcesFrom(list, i) == [j \in 1 .. Len(list) - i + 1 |-> SourceOf(list, i + j - 1)]

LEMMA SourcesOneByOne ==
  ASSUME NEW list, list \in Seq(Text), NEW i \in 1 .. Len(list)
  PROVE  /\ i = Len(list) => <<SourceOf(list, i)>> = SourcesFrom(list, i)
         /\ i < Len(list) => <<SourceOf(list, i)>> \o SourcesFrom(list, i + 1) = SourcesFrom(list, i)
<1>1. PICK n \in Nat : n = Len(list)
  OBVIOUS
<1> DEFINE S == {SourceOf(list, j) : j \in 1 .. n}
<1>2. ASSUME NEW k \in 1 .. n
      PROVE  /\ SourcesFrom(list, k) \in Seq(S) /\ Len(SourcesFrom(list, k)) = n - k + 1
             /\ \A j \in 1 .. n - k + 1 : SourcesFrom(list, k)[j] = SourceOf(list, k + j - 1)
  <2>1. n - k + 1 \in Nat
    BY <1>1
  <2>2. \A j \in 1 .. n - k + 1 : k + j - 1 \in 1 .. n
    BY <1>1
  <2>3. SourcesFrom(list, k) = [j \in 1 .. n - k + 1 |-> SourceOf(list, k + j - 1)]
    BY <1>1 DEF SourcesFrom
  <2>4. \A j \in 1 .. n - k + 1 : SourceOf(list, k + j - 1) \in S
    BY <2>2
  <2> HIDE DEF S
  <2> QED BY <2>1, <2>3, <2>4
<1>3. SourceOf(list, i) \in S
  BY <1>1
<1> HIDE DEF S
<1>4. CASE i = n
  <2>1. /\ SourcesFrom(list, i) \in Seq(S) /\ Len(SourcesFrom(list, i)) = 1
        /\ SourcesFrom(list, i)[1] = SourceOf(list, i)
    <3>1. n - i + 1 = 1 /\ i + 1 - 1 = i /\ 1 \in 1 .. 1 /\ i \in 1 .. n
      BY <1>1, <1>4
    <3> QED BY <1>2, <3>1
  <2>2. <<SourceOf(list, i)>> = SourcesFrom(list, i)
    BY <2>1
  <2> QED BY <1>1, <1>4, <2>2
<1>5. CASE i < n
  <2>1. PICK m \in 1 .. n : m = i + 1
    BY <1>1, <1>5
  <2>2. PICK x, y, z : x = SourceOf(list, i) /\ y = SourcesFrom(list, m) /\ z = SourcesFrom(list, i)
    OBVIOUS
  <2>3. x \in S /\ y \in Seq(S) /\ Len(y) = n - i /\ z \in Seq(S) /\ Len(z) = n - i + 1
    <3>1. x \in S
      BY <1>3, <2>2
    <3>2. y \in Seq(S) /\ Len(y) = n - m + 1
      BY <1>2, <2>2
    <3>3. z \in Seq(S) /\ Len(z) = n - i + 1
      <4>1. i \in 1 .. n
        BY <1>1
      <4> QED BY <1>2, <2>2, <4>1
    <3>4. n - m + 1 = n - i
      BY <1>1, <2>1
    <3> QED BY <3>1, <3>2, <3>3, <3>4
  <2>4. z[1] = x
    <3>1. 1 \in 1 .. n - i + 1 /\ i + 1 - 1 = i
      BY <1>1, <1>5
    <3> QED BY <1>1, <1>2, <2>2, <3>1
  <2>5. ASSUME NEW j \in 1 .. n - i PROVE z[1 + j] = y[j]
    <3>1. y[j] = SourceOf(list, m + j - 1)
      <4>1. j \in 1 .. n - m + 1
        BY <1>1, <2>1
      <4> QED BY <1>2, <2>2, <4>1
    <3>2. z[1 + j] = SourceOf(list, i + (1 + j) - 1)
      <4>1. 1 + j \in 1 .. n - i + 1 /\ i \in 1 .. n
        BY <1>1
      <4> QED BY <1>2, <2>2, <4>1
    <3>3. i + (1 + j) - 1 = m + j - 1
      BY <1>1, <2>1
    <3> QED BY <3>1, <3>2, <3>3
  <2>6. /\ <<x>> \o y \in Seq(S) /\ Len(<<x>> \o y) = n - i + 1
        /\ (<<x>> \o y)[1] = x /\ \A j \in 1 .. n - i : (<<x>> \o y)[1 + j] = y[j]
    <3>0. x \in S /\ y \in Seq(S)
      BY <2>3
    <3>1. PICK h \in Seq(S) : h = <<x>> /\ Len(h) = 1 /\ h[1] = x
      <4>1. <<x>> \in Seq(S) /\ Len(<<x>>) = 1 /\ <<x>>[1] = x
        BY <3>0
      <4> QED BY <4>1
    <3>2. /\ h \o y \in Seq(S) /\ Len(h \o y) = Len(h) + Len(y)
          /\ \A k \in 1 .. Len(h) : (h \o y)[k] = h[k]
          /\ \A k \in 1 .. Len(y) : (h \o y)[Len(h) + k] = y[k]
      BY <3>0, ConcatTypes
    <3>3. Len(h) + Len(y) = n - i + 1
      BY <1>1, <2>3, <3>1
    <3> QED BY <2>3, <3>1, <3>2, <3>3
  <2>7. \A k \in 1 .. n - i + 1 : (<<x>> \o y)[k] = z[k]
    <3> TAKE k \in 1 .. n - i + 1
    <3>1. CASE k = 1
      BY <2>4, <2>6, <3>1
    <3>2. CASE k # 1
      <4>1. PICK j \in 1 .. n - i : k = 1 + j
        <5>1. k - 1 \in 1 .. n - i /\ k = 1 + (k - 1)
          BY <1>1, <3>2
        <5> QED BY <5>1
      <4> QED BY <2>5, <2>6, <4>1
    <3> QED BY <3>1, <3>2
  <2>8. <<x>> \o y = z
    BY <2>3, <2>6, <2>7
  <2> QED BY <1>1, <1>5, <2>1, <2>2, <2>8
<1> QED BY <1>1, <1>4, <1>5

\* Reading from where the i-th entry starts finds it, and goes on at the next one.
LEMMA EntryRead ==
  ASSUME NEW list, list \in Seq(Text), NEW cells, cells \in Seq(Nat), NEW start,
         Lists(cells, list, start), NEW i \in 1 .. Len(list), NEW from
  PROVE  ReadOn(from, cells, start[i]) =
           IF i = Len(list) THEN <<SourceOf(list, i)>>
           ELSE <<SourceOf(list, i)>> \o from[start[i + 1]]
<1>1. PICK n, o, p, text : n \in Nat /\ n = Len(list) /\ o = start[i] /\ p = start[i + 1] /\ text = list[i]
  OBVIOUS
<1>2. text \in Text /\ text \in Seq(Nat)
  BY <1>1 DEF Text
<1>3. PICK l \in Nat : l = Len(text)
  BY <1>2
<1>4. /\ o \in Nat /\ p \in Nat /\ p = o + l + FixedCells + 1 /\ p <= Len(cells)
      /\ cells[o + 1] = IF i = n THEN 0 ELSE p - o
      /\ cells[o + 2] = i
      /\ \A c \in 1 .. l : cells[o + FixedCells + c] = text[c]
      /\ cells[p] = End
  BY <1>1, <1>3 DEF Lists
<1> DEFINE rest == SubSeq(cells, o + FixedCells + 1, Len(cells))
<1>5. rest \in Seq(Nat) /\ Len(rest) = Len(cells) - o - FixedCells
      /\ \A c \in 1 .. Len(cells) - o - FixedCells : rest[c] = cells[o + FixedCells + c]
  <2>1. PICK m \in Nat, a \in Nat : m = Len(cells) /\ a = o + FixedCells + 1 /\ a \in 1 .. m
    BY <1>3, <1>4 DEF FixedCells
  <2>2. SubSeq(cells, a, m) \in Seq(Nat) /\ Len(SubSeq(cells, a, m)) = m - a + 1
        /\ \A c \in 1 .. m - a + 1 : SubSeq(cells, a, m)[c] = cells[a + c - 1]
    <3>1. m = Len(cells) /\ 1 <= a /\ a <= m
      BY <2>1
    <3> QED BY <3>1, SuffixTypes
  <2>3. m - a + 1 = m - o - FixedCells /\ \A c \in 1 .. m - a + 1 : a + c - 1 = o + FixedCells + c
    BY <1>4, <2>1 DEF FixedCells
  <2> QED BY <2>1, <2>2, <2>3
<1>6. Description(rest) = text
  <2>1. l + 1 <= Len(rest)
    BY <1>3, <1>4, <1>5 DEF FixedCells
  <2>2. ASSUME NEW c \in 1 .. l PROVE rest[c] = text[c]
    <3>1. c \in 1 .. Len(cells) - o - FixedCells
      BY <1>3, <1>4 DEF FixedCells
    <3> QED BY <1>4, <1>5, <3>1
  <2>3. rest[l + 1] = End
    <3>1. l + 1 \in 1 .. Len(cells) - o - FixedCells /\ o + FixedCells + (l + 1) = p
      BY <1>3, <1>4 DEF FixedCells
    <3> QED BY <1>4, <1>5, <3>1
  <2> HIDE DEF rest
  <2>4. Len(text) < Len(rest)
    BY <1>3, <2>1, <1>5
  <2> QED BY <1>2, <1>3, <1>5, <2>2, <2>3, <2>4, DescriptionStops
<1>7. Source(cells, o) = SourceOf(list, i)
  BY <1>1, <1>4, <1>6 DEF Source, SourceOf
<1>8. o + FixedCells <= Len(cells) /\ ~ (o + FixedCells > Len(cells))
  BY <1>3, <1>4 DEF FixedCells
<1>9. CASE i = n
  <2>1. cells[o + 1] = 0
    BY <1>4, <1>9
  <2> QED BY <1>1, <1>7, <1>8, <1>9, <2>1 DEF ReadOn
<1>10. CASE i # n
  <2>1. cells[o + 1] = p - o /\ p - o # 0 /\ o + (p - o) = p /\ ~ (p > Len(cells))
    BY <1>3, <1>4, <1>10 DEF FixedCells
  <2> QED BY <1>1, <1>7, <1>8, <1>10, <2>1 DEF ReadOn
<1> QED BY <1>9, <1>10

\* What the query makes of an array is the list that the array was made from.
LEMMA ParsedArray ==
  ASSUME NEW list, list \in Seq(Text)
  PROVE  Parsed(Array(list)) = [i \in 1 .. Len(list) |-> SourceOf(list, i)]
<1>0. PICK cells : cells = Array(list)
  OBVIOUS
<1>1. PICK n \in Nat : n = Len(list) /\ cells = Array(list)
  BY <1>0
<1>2. cells \in Seq(Nat)
  BY <1>1, ArrayLayout
<1>3. PICK start : Lists(cells, list, start) /\ start[1] = 0 /\ start[n + 1] = Len(cells)
  BY <1>1, ArrayLayout
<1>4. PICK from : Reads(from, cells) /\ Parsed(cells) = from[0]
  BY <1>2, ReadingExists
<1>5. \A o \in 0 .. Len(cells) : from[o] = ReadOn(from, cells, o)
  BY <1>4 DEF Reads
<1>6. CASE n = 0
  <2>1. Len(cells) = 0
    BY <1>3, <1>6
  <2>2. from[0] = <<>>
    BY <1>5, <2>1 DEF ReadOn, FixedCells
  <2>3. [i \in 1 .. Len(list) |-> SourceOf(list, i)] = <<>>
    BY <1>1, <1>6
  <2> QED BY <1>1, <1>4, <2>2, <2>3
<1>7. CASE n > 0
  <2> DEFINE T == {k \in 0 .. n - 1 : from[start[n - k]] = SourcesFrom(list, n - k)}
  <2>1. ASSUME NEW i \in 1 .. n
        PROVE  from[start[i]] = IF i = n THEN <<SourceOf(list, i)>>
                                ELSE <<SourceOf(list, i)>> \o from[start[i + 1]]
    <3>1. start[i] \in 0 .. Len(cells)
      <4>1. PICK o \in Nat, p \in Nat, l \in Nat : o = start[i] /\ p = o + l + FixedCells + 1 /\ p <= Len(cells)
        <5>1. PICK o, p, l : o = start[i] /\ p = start[i + 1] /\ l = Len(list[i])
          OBVIOUS
        <5>2. l \in Nat
          BY <1>1, <5>1, EntryTypes
        <5>3. o \in Nat /\ p \in Nat /\ p = o + l + FixedCells + 1 /\ p <= Len(cells)
          BY <1>1, <1>3, <5>1 DEF Lists
        <5> QED BY <5>1, <5>2, <5>3
      <4> QED BY <1>2, <4>1 DEF FixedCells
    <3>2. from[start[i]] = ReadOn(from, cells, start[i])
      BY <1>5, <3>1
    <3> QED BY <1>1, <1>2, <1>3, <3>2, EntryRead
  <2>2. 0 \in T
    <3>1. n - 0 = n /\ n \in 1 .. n /\ 0 \in 0 .. n - 1
      BY <1>7
    <3> QED BY <1>1, <2>1, <3>1, SourcesOneByOne
  <2>3. ASSUME NEW k \in 0 .. (n - 1) - 1, k \in T PROVE k + 1 \in T
    <3>1. PICK i \in 1 .. n : i = n - (k + 1) /\ i + 1 = n - k /\ i < n
      BY <1>7
    <3>2. from[start[i + 1]] = SourcesFrom(list, i + 1)
      BY <2>3, <3>1
    <3>3. from[start[i]] = <<SourceOf(list, i)>> \o SourcesFrom(list, i + 1)
      <4>1. i # n /\ i \in 1 .. n
        BY <3>1
      <4>2. from[start[i]] = <<SourceOf(list, i)>> \o from[start[i + 1]]
        BY <2>1, <4>1
      <4> QED BY <3>2, <4>2
    <3>4. from[start[i]] = SourcesFrom(list, i)
      BY <1>1, <3>1, <3>3, SourcesOneByOne
    <3>5. k + 1 \in 0 .. n - 1
      BY <1>7
    <3> QED BY <3>1, <3>4, <3>5
  <2>4. n - 1 \in T
    <3>1. n - 1 \in Nat /\ n - 1 \in 0 .. n - 1
      BY <1>7
    <3>2. \A k \in 0 .. n - 1 : k \in T
      <4> HIDE DEF T
      <4>1. PICK m \in Nat : m = n - 1
        BY <3>1
      <4> QED BY <2>2, <2>3, <4>1, Induction
    <3> QED BY <3>1, <3>2
  <2>5. from[0] = SourcesFrom(list, 1)
    <3>1. n - (n - 1) = 1
      OBVIOUS
    <3> QED BY <1>3, <2>4, <3>1
  <2>6. SourcesFrom(list, 1) = [i \in 1 .. Len(list) |-> SourceOf(list, i)]
    <3>1. Len(list) - 1 + 1 = Len(list) /\ \A j \in 1 .. Len(list) : 1 + j - 1 = j
      BY <1>1
    <3> QED BY <3>1 DEF SourcesFrom
  <2> QED BY <1>1, <1>4, <2>5, <2>6
<1> QED BY <1>6, <1>7
-----------------------------------------------------------------------------
(* SystemQueries *)

LEMMA ListedTypes ==
  ASSUME QueryTypeOK
  PROVE  /\ Len(listed) \in Nat /\ Len(before) \in Nat
         /\ \A k \in 0 .. Len(listed) : First(k) \in Seq(Text)
         /\ First(Len(listed)) = listed
         /\ Len(Array(listed)) \in Nat
<1>1. Descriptions \subseteq Text
  BY QueriesAssumption DEF QueriesAssumption, Text
<1>2. listed \in Seq(Text) /\ before \in Seq(Text)
  <2> HIDE DEF Text
  <2> QED BY <1>1 DEF QueryTypeOK
<1> HIDE DEF Text
<1>3. Len(listed) \in Nat /\ Len(before) \in Nat
  BY <1>2
<1>4. \A k \in 0 .. Len(listed) : First(k) \in Seq(Text)
  BY <1>2, PrefixTypes DEF First
<1>5. First(Len(listed)) = listed
  <2>1. Len(listed) \in 0 .. Len(listed)
    BY <1>3
  <2> QED BY <1>2, <2>1, PrefixTypes DEF First
<1>6. Array(listed) \in Seq(Nat)
  BY <1>2, ArrayLayout
<1> QED BY <1>3, <1>4, <1>5, <1>6

LEMMA QueryHoldsAtFirst == QueryInit => QueryIInv
<1> SUFFICES ASSUME QueryInit PROVE QueryIInv
  OBVIOUS
<1>1. <<>> \in Seq(Descriptions) /\ Len(<<>>) = 0 /\ 0 \in 0 .. Attempts
  BY QueriesAssumption DEF QueriesAssumption
<1> QED BY <1>1 DEF QueryInit, QueryIInv, QueryTypeOK, SizesFollow, ArraysFollow, GivesUpOnlyAfterGrowth

\* A retry has seen the size of the attempt before it outgrown.
LEMMA Outgrown ==
  ASSUME QueryIInv, step = "query", Len(Array(listed)) > capacity
  PROVE  Len(listed) >= Len(before) + attempt - 1
<1>1. /\ Len(listed) \in Nat /\ Len(before) \in Nat /\ attempt \in Nat /\ attempt >= 1
      /\ Len(before) <= Len(listed)
  BY QueriesAssumption, ListedTypes DEF QueriesAssumption, QueryIInv, QueryTypeOK, SizesFollow
<1>2. CASE attempt = 1
  BY <1>1, <1>2
<1>3. CASE attempt > 1
  <2>1. PICK k \in Len(before) + attempt - 2 .. Len(listed) : capacity = Len(Array(First(k)))
    BY <1>3 DEF QueryIInv, SizesFollow
  <2>2. CASE k = Len(listed)
    <3>1. capacity = Len(Array(listed)) /\ capacity \in Nat
      BY <2>1, <2>2, ListedTypes DEF QueryIInv
    <3> QED BY <3>1
  <2> QED BY <1>1, <2>1, <2>2
<1> QED BY <1>1, <1>2, <1>3

LEMMA QueryIsKept ==
  ASSUME QueryIInv, [QueryNext]_queryVars
  PROVE  QueryIInv'
<1>1. /\ Len(listed) \in Nat /\ Len(before) \in Nat /\ attempt \in Nat /\ Attempts \in Nat
      /\ Len(before) <= Len(listed)
  BY QueriesAssumption, ListedTypes DEF QueriesAssumption, QueryIInv, QueryTypeOK, SizesFollow
<1>2. CASE SourceAppears
  <2>1. PICK d \in Descriptions : listed' = Append(listed, d)
    BY <1>2 DEF SourceAppears
  <2>2. listed \in Seq(Descriptions) /\ listed' \in Seq(Descriptions) /\ Len(listed') = Len(listed) + 1
    BY <2>1 DEF QueryIInv, QueryTypeOK
  <2>3. \A k \in 0 .. Len(listed) : First(k)' = First(k)
    BY <2>1, <2>2, PrefixStays DEF First
  <2>4. UNCHANGED <<step, attempt, capacity, buffer, sources, before>>
    BY <1>2 DEF SourceAppears
  <2>5. QueryTypeOK'
    BY <2>2, <2>4 DEF QueryIInv, QueryTypeOK
  <2>6. SizesFollow'
    <3>1. ASSUME step = "query", attempt > 1
          PROVE  \E k \in Len(before) + attempt - 2 .. Len(listed') : capacity = Len(Array(First(k)'))
      <4>1. PICK k \in Len(before) + attempt - 2 .. Len(listed) : capacity = Len(Array(First(k)))
        BY <3>1 DEF QueryIInv, SizesFollow
      <4>2. k \in 0 .. Len(listed) /\ k \in Len(before) + attempt - 2 .. Len(listed')
        BY <1>1, <2>2, <3>1
      <4> QED BY <2>3, <4>1, <4>2
    <3>2. Len(before) <= Len(listed')
      BY <1>1, <2>2
    <3> QED BY <2>4, <3>1, <3>2 DEF SizesFollow
  <2>7. ArraysFollow'
    <3>1. \A k \in Len(before) .. Len(listed) :
            k \in Len(before) .. Len(listed') /\ k \in 0 .. Len(listed)
      BY <1>1, <2>2
    <3>2. step = "parse" => \E k \in Len(before) .. Len(listed') : buffer = Array(First(k)')
      BY <2>3, <3>1 DEF QueryIInv, ArraysFollow
    <3>3. step = "done" => \E k \in Len(before) .. Len(listed') : sources = Parsed(Array(First(k)'))
      BY <2>3, <3>1 DEF QueryIInv, ArraysFollow
    <3> QED BY <2>4, <3>2, <3>3 DEF ArraysFollow
  <2>8. GivesUpOnlyAfterGrowth'
    BY <1>1, <2>2, <2>4 DEF QueryIInv, GivesUpOnlyAfterGrowth
  <2> QED BY <2>5, <2>6, <2>7, <2>8 DEF QueryIInv
<1>3. CASE CallQuery
  <2>1. attempt' \in 0 .. Attempts
    BY <1>3, QueriesAssumption DEF CallQuery, QueriesAssumption
  <2> QED BY <1>1, <1>3, <2>1
        DEF CallQuery, QueryIInv, QueryTypeOK, SizesFollow, ArraysFollow, GivesUpOnlyAfterGrowth
<1>4. CASE QuerySucceeds
  <2>1. UNCHANGED <<listed, attempt, capacity, sources, before>> /\ step' = "parse"
        /\ buffer' = Array(listed)
    BY <1>4 DEF QuerySucceeds
  <2>2. Len(listed) \in Len(before) .. Len(listed) /\ First(Len(listed))' = listed
    BY <1>1, <2>1, ListedTypes DEF QueryIInv, First
  <2>3. ArraysFollow'
    BY <2>1, <2>2 DEF ArraysFollow
  <2> QED BY <2>1, <2>3 DEF QueryIInv, QueryTypeOK, SizesFollow, GivesUpOnlyAfterGrowth
<1>5. CASE QueryRetries
  <2>1. /\ UNCHANGED <<listed, buffer, sources, before>> /\ step = "query"
        /\ capacity' = Len(Array(listed))
        /\ step' = (IF attempt = Attempts THEN "gaveUp" ELSE "query")
        /\ attempt' = (IF attempt = Attempts THEN attempt ELSE attempt + 1)
    BY <1>5 DEF QueryRetries
  <2>2. Len(listed) >= Len(before) + attempt - 1
    BY <1>5, Outgrown DEF QueryRetries
  <2>3. First(Len(listed))' = listed
    BY <2>1, ListedTypes DEF QueryIInv, First
  <2>4. attempt' \in 0 .. Attempts /\ (step' = "query" => attempt' >= 1 /\ attempt' = attempt + 1)
    BY <1>1, <2>1 DEF QueryIInv, QueryTypeOK
  <2>5. SizesFollow'
    <3>1. step' = "query" => Len(listed) \in Len(before) + attempt' - 2 .. Len(listed)
      BY <1>1, <2>2, <2>4
    <3> QED BY <1>1, <2>1, <2>3, <3>1 DEF SizesFollow
  <2>6. GivesUpOnlyAfterGrowth'
    BY <1>1, <2>1, <2>2 DEF GivesUpOnlyAfterGrowth
  <2>7. ArraysFollow'
    BY <2>1 DEF ArraysFollow
  <2>8. QueryTypeOK'
    BY <2>1, <2>4 DEF QueryIInv, QueryTypeOK
  <2> QED BY <2>5, <2>6, <2>7, <2>8 DEF QueryIInv
<1>6. CASE QueryFails
  BY <1>6 DEF QueryFails, QueryIInv, QueryTypeOK, SizesFollow, ArraysFollow, GivesUpOnlyAfterGrowth
<1>7. CASE Parse
  <2>1. UNCHANGED <<listed, attempt, capacity, buffer, before>> /\ step = "parse" /\ step' = "done"
        /\ sources' = Parsed(buffer)
    BY <1>7 DEF Parse
  <2>2. PICK k \in Len(before) .. Len(listed) : buffer = Array(First(k))
    BY <2>1 DEF QueryIInv, ArraysFollow
  <2>3. First(k)' = First(k)
    BY <2>1 DEF First
  <2>4. ArraysFollow'
    BY <2>1, <2>2, <2>3 DEF ArraysFollow
  <2> QED BY <2>1, <2>4 DEF QueryIInv, QueryTypeOK, SizesFollow, GivesUpOnlyAfterGrowth
<1>8. CASE UNCHANGED queryVars
  BY <1>8 DEF queryVars, QueryIInv, QueryTypeOK, SizesFollow, ArraysFollow, GivesUpOnlyAfterGrowth, First
<1> QED BY <1>2, <1>3, <1>4, <1>5, <1>6, <1>7, <1>8 DEF QueryNext

\* What a retry asks for is the size of an array that the system had, and what is parsed
\* was its array at some time since the query began.
THEOREM QueryInvariant == Spec => []QueryIInv
<1>1. Init => QueryIInv
  BY QueryHoldsAtFirst DEF Init
<1>2. QueryIInv /\ [Next]_controlVars => QueryIInv'
  BY QueryIsKept DEF Next, Returned, controlVars, queryVars
<1> QED BY <1>1, <1>2, PTL DEF Spec

\* However the system grows while it is asked, a query that gives up saw a new source
\* before every retry.
THEOREM AlwaysGivesUpAfterGrowth == Spec => []GivesUpOnlyAfterGrowth
<1>1. QueryIInv => GivesUpOnlyAfterGrowth
  BY DEF QueryIInv
<1> QED BY <1>1, QueryInvariant, PTL

\* Whatever the descriptions and however many, what parse_profile_sources makes of the
\* array is the sources the array was written from: a prefix of those listed now that
\* holds all those listed when the query began.
THEOREM SourcesAlwaysAsListed == Spec => []SourcesAsListed
<1>1. QueryIInv => SourcesAsListed
  <2> SUFFICES ASSUME QueryIInv, step = "done"
               PROVE  /\ Len(sources) \in Len(before) .. Len(listed)
                      /\ \A i \in DOMAIN sources : sources[i] = [id |-> i, text |-> listed[i]]
    BY DEF SourcesAsListed
  <2>1. PICK k \in Len(before) .. Len(listed) : sources = Parsed(Array(First(k)))
    BY DEF QueryIInv, ArraysFollow
  <2>2. Len(listed) \in Nat /\ Len(before) \in Nat /\ k \in 0 .. Len(listed)
    BY ListedTypes DEF QueryIInv
  <2>3. First(k) \in Seq(Text)
    BY <2>2, ListedTypes DEF QueryIInv
  <2>4. Len(First(k)) = k /\ \A i \in 1 .. k : First(k)[i] = listed[i]
    BY <2>2, PrefixTypes DEF First, QueryIInv, QueryTypeOK
  <2>5. sources = [i \in 1 .. Len(First(k)) |-> SourceOf(First(k), i)]
    BY <2>1, <2>3, ParsedArray
  <2>6. Len(sources) = k /\ DOMAIN sources = 1 .. k
    BY <2>2, <2>4, <2>5
  <2>7. \A i \in 1 .. k : sources[i] = SourceOf(First(k), i)
    BY <2>4, <2>5
  <2> QED BY <2>1, <2>4, <2>6, <2>7 DEF SourceOf
<1> QED BY <1>1, QueryInvariant, PTL
=============================================================================
