------------------------- MODULE OrganizerAdminsProofs ------------------------
(***************************************************************************)
(* Theorems about organizers and their admins, for any number of them and  *)
(* of concurrent requests.                                                 *)
(***************************************************************************)
EXTENDS OrganizerAdmins, FiniteSetTheorems, TLAPS

\* What a request under way carries.  A removal past the COUNT(*) counted only
\* admins of its organizer, and somebody besides the one it removes.
RequestsCarry ==
  \A q \in Requests :
    /\ request[q].step \in {"add", "count", "remove"} =>
         request[q].organizer \in Organizers
    /\ request[q].step = "remove" =>
         /\ \A a \in request[q].seen : organizerOf[a] = request[q].organizer
         /\ \E b \in request[q].seen : b # request[q].admin

IInv == TypeOK /\ RequestsCarry /\ AdminsHaveOrganizers

USE DEF Request, Idle

\* A count of more than one has counted somebody else.
LEMMA CountedAnother ==
  ASSUME NEW S, NEW a, Cardinality(S) > 1
  PROVE  \E b \in S : b # a
<1> SUFFICES ASSUME \A b \in S : b = a PROVE FALSE
  OBVIOUS
<1>1. S = {} \/ S = {a}
  OBVIOUS
<1>2. Cardinality({}) = 0 /\ Cardinality({a}) = 1
  BY FS_EmptySet, FS_Singleton
<1>3. QED
  BY <1>1, <1>2

\* Every step keeps the types.
LEMMA TypeStep ==
  ASSUME TypeOK, RequestsCarry, [Next]_vars
  PROVE  TypeOK'
<1> USE NoOrganizerAssumption, NoAdminAssumption DEF TypeOK
<1>1. ASSUME NEW o \in Organizers, DeleteOrganizer(o) PROVE TypeOK'
  BY <1>1 DEF DeleteOrganizer
<1>2. ASSUME NEW o \in Organizers, NEW a \in Admins, CreateOrganizerAdmin(o, a)
      PROVE TypeOK'
  BY <1>2 DEF CreateOrganizerAdmin, Insert
<1>3. ASSUME NEW q \in Requests, NEW o \in Organizers, BeginAdd(q, o) PROVE TypeOK'
  BY <1>3 DEF BeginAdd
<1>4. ASSUME NEW q \in Requests, NEW a \in Admins, AddOrganizerAdmin(q, a) PROVE TypeOK'
  BY <1>4 DEF AddOrganizerAdmin, Insert, End, RequestsCarry
<1>5. ASSUME NEW q \in Requests, NEW a \in Admins, BeginLeave(q, a) PROVE TypeOK'
  BY <1>5 DEF BeginLeave
<1>6. ASSUME NEW q \in Requests, NEW o \in Organizers, NEW a \in Admins,
             BeginRemove(q, o, a)
      PROVE TypeOK'
  BY <1>6 DEF BeginRemove
<1>7. ASSUME NEW q \in Requests, CountAdmins(q) PROVE TypeOK'
  <2>1. AdminsOf(request[q].organizer) \in SUBSET Admins
    BY DEF AdminsOf
  <2>2. QED
    BY <1>7, <2>1 DEF CountAdmins
<1>8. ASSUME NEW q \in Requests, DeleteOrganizerAdmin(q) PROVE TypeOK'
  BY <1>8 DEF DeleteOrganizerAdmin, End
<1>9. ASSUME NEW q \in Requests, DeleteProfile(q) PROVE TypeOK'
  BY <1>9 DEF DeleteProfile, End
<1>10. ASSUME NEW q \in Requests, Fail(q) PROVE TypeOK'
  BY <1>10 DEF Fail, End
<1>11. CASE UNCHANGED vars
  BY <1>11 DEF vars
<1>12. QED
  BY <1>1, <1>2, <1>3, <1>4, <1>5, <1>6, <1>7, <1>8, <1>9, <1>10, <1>11 DEF Next, Handle

\* Every step keeps what requests carry: an account never changes organizers.
LEMMA CarryStep ==
  ASSUME TypeOK, RequestsCarry, [Next]_vars
  PROVE  RequestsCarry'
<1> USE NoOrganizerAssumption DEF TypeOK, RequestsCarry
<1>1. ASSUME NEW o \in Organizers, DeleteOrganizer(o) PROVE RequestsCarry'
  BY <1>1 DEF DeleteOrganizer
<1>2. ASSUME NEW o \in Organizers, NEW a \in Admins, CreateOrganizerAdmin(o, a)
      PROVE RequestsCarry'
  BY <1>2 DEF CreateOrganizerAdmin, Insert
<1>3. ASSUME NEW q \in Requests, NEW o \in Organizers, BeginAdd(q, o)
      PROVE RequestsCarry'
  BY <1>3 DEF BeginAdd
<1>4. ASSUME NEW q \in Requests, NEW a \in Admins, AddOrganizerAdmin(q, a)
      PROVE RequestsCarry'
  BY <1>4 DEF AddOrganizerAdmin, Insert, End
<1>5. ASSUME NEW q \in Requests, NEW a \in Admins, BeginLeave(q, a)
      PROVE RequestsCarry'
  BY <1>5 DEF BeginLeave
<1>6. ASSUME NEW q \in Requests, NEW o \in Organizers, NEW a \in Admins,
             BeginRemove(q, o, a)
      PROVE RequestsCarry'
  BY <1>6 DEF BeginRemove
<1>7. ASSUME NEW q \in Requests, CountAdmins(q) PROVE RequestsCarry'
  <2> DEFINE o == request[q].organizer
             seen == AdminsOf(o)
  <2>1. o \in Organizers /\ Cardinality(seen) > 1
    BY <1>7 DEF CountAdmins, OthersAreLeft
  <2>2. \A a \in seen : organizerOf[a] = o
    BY DEF AdminsOf
  <2>3. /\ request' = [request EXCEPT ![q].step = "remove", ![q].seen = seen]
        /\ organizerOf' = organizerOf
    BY <1>7 DEF CountAdmins
  <2> HIDE DEF seen
  <2>4. \E b \in seen : b # request[q].admin
    <3> HIDE DEF TypeOK, RequestsCarry, o
    <3>1. QED
      BY <2>1, CountedAnother
  <2>5. /\ request'[q].step = "remove" /\ request'[q].seen = seen
        /\ request'[q].organizer = o /\ request'[q].admin = request[q].admin
    BY <2>3
  <2>6. \A z \in Requests : z # q => request'[z] = request[z]
    BY <2>3
  <2> HIDE DEF o
  <2>7. QED
    BY <2>1, <2>2, <2>3, <2>4, <2>5, <2>6
<1>8. ASSUME NEW q \in Requests, DeleteOrganizerAdmin(q) PROVE RequestsCarry'
  BY <1>8 DEF DeleteOrganizerAdmin, End
<1>9. ASSUME NEW q \in Requests, DeleteProfile(q) PROVE RequestsCarry'
  BY <1>9 DEF DeleteProfile, End
<1>10. ASSUME NEW q \in Requests, Fail(q) PROVE RequestsCarry'
  BY <1>10 DEF Fail, End
<1>11. CASE UNCHANGED vars
  BY <1>11 DEF vars
<1>12. QED
  BY <1>1, <1>2, <1>3, <1>4, <1>5, <1>6, <1>7, <1>8, <1>9, <1>10, <1>11 DEF Next, Handle

\* Every step leaves only admins with an organizer.
LEMMA OrganizerStep ==
  ASSUME IInv, [Next]_vars
  PROVE  AdminsHaveOrganizers'
<1> USE NoOrganizerAssumption DEF IInv, TypeOK, AdminsHaveOrganizers
<1>1. ASSUME NEW o \in Organizers, DeleteOrganizer(o) PROVE AdminsHaveOrganizers'
  BY <1>1 DEF DeleteOrganizer, AdminsOf
<1>2. ASSUME NEW o \in Organizers, NEW a \in Admins, CreateOrganizerAdmin(o, a)
      PROVE AdminsHaveOrganizers'
  BY <1>2 DEF CreateOrganizerAdmin, Insert
<1>3. ASSUME NEW q \in Requests, NEW a \in Admins, AddOrganizerAdmin(q, a)
      PROVE AdminsHaveOrganizers'
  BY <1>3 DEF AddOrganizerAdmin, Insert, References, RequestsCarry
<1>4. ASSUME rows' \subseteq rows, UNCHANGED <<organizer, organizerOf>>
      PROVE AdminsHaveOrganizers'
  BY <1>4
<1>5. QED
  BY <1>1, <1>2, <1>3, <1>4
     DEF Next, Handle, vars, BeginAdd, BeginLeave, BeginRemove, CountAdmins,
         DeleteOrganizerAdmin, DeleteProfile, Fail

\* The invariant holds of the specification.
LEMMA Invariant == Spec => []IInv
<1>1. Init => IInv
  BY DEF Init, IInv, TypeOK, RequestsCarry, AdminsHaveOrganizers
<1>2. IInv /\ [Next]_vars => IInv'
  <2> SUFFICES ASSUME IInv, [Next]_vars PROVE IInv'
    OBVIOUS
  <2>1. TypeOK'
    BY TypeStep DEF IInv
  <2>2. RequestsCarry'
    BY CarryStep DEF IInv
  <2>3. AdminsHaveOrganizers'
    BY OrganizerStep
  <2>4. QED
    BY <2>1, <2>2, <2>3 DEF IInv
<1>3. QED
  BY <1>1, <1>2, PTL DEF Spec

\* Every variable keeps its type.
THEOREM AdminTypes == Spec => []TypeOK
<1>1. IInv => TypeOK
  BY DEF IInv
<1>2. QED
  BY <1>1, Invariant, PTL

\* Nobody administers an organizer that was deleted.
THEOREM OrganizersBehindAdmins == Spec => []AdminsHaveOrganizers
<1>1. IInv => AdminsHaveOrganizers
  BY DEF IInv
<1>2. QED
  BY <1>1, Invariant, PTL

\* A removal whose counted admins are all still there leaves one of them.
LEMMA RemovalStep ==
  ASSUME IInv, [Next]_vars, NEW q \in Requests, NEW o \in Organizers,
         Removes(q, o), request[q].seen \subseteq rows
  PROVE  AdminsOf(o)' # {}
<1>1. DeleteOrganizerAdmin(q)
  <2>1. request'[q] # request[q] /\ rows' # rows
    BY DEF Removes
  <2>2. PICK z \in Requests : Handle(z)
    <3>1. UNCHANGED request => FALSE
      BY <2>1
    <3>2. QED
      BY <3>1 DEF Next, vars, DeleteOrganizer, CreateOrganizerAdmin
  <2>3. DeleteOrganizerAdmin(z) \/ DeleteProfile(z)
    BY <2>2 DEF Handle, Removes, BeginAdd, AddOrganizerAdmin, Insert, BeginLeave,
                BeginRemove, CountAdmins, Fail
  <2>4. z = q
    BY <2>1, <2>3 DEF DeleteOrganizerAdmin, DeleteProfile, End, IInv, TypeOK
  <2>5. QED
    BY <2>3, <2>4 DEF DeleteProfile, Removes
<1>2. PICK b \in request[q].seen : b # request[q].admin
  BY DEF Removes, IInv, RequestsCarry
<1>3. organizerOf[b] = o
  BY DEF Removes, IInv, RequestsCarry
<1>4. b \in rows' /\ organizerOf'[b] = o
  BY <1>1, <1>2, <1>3 DEF DeleteOrganizerAdmin
<1>5. QED
  BY <1>4 DEF AdminsOf

\* Alone, the count keeps every organizer an admin.
THEOREM RemovalsAloneAreSafe == Spec => OnlyOvertakenRemovalsTakeTheLast
<1>1. IInv /\ [Next]_vars
        => [\A q \in Requests, o \in Organizers :
              Removes(q, o) /\ request[q].seen \subseteq rows => AdminsOf(o)' # {}]_vars
  BY RemovalStep
<1>2. QED
  BY <1>1, Invariant, PTL DEF Spec, OnlyOvertakenRemovalsTakeTheLast
=============================================================================
