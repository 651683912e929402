----------------------------- MODULE PanelProofs -----------------------------
(***************************************************************************)
(* Proofs about module Panel, for any sets of tasks, threads, servers,     *)
(* users, connections, codes and tokens and any limits on the codes.       *)
(*                                                                         *)
(* The argument.  A stored document may at any time be replaced by an old  *)
(* copy, so nothing can be proved of the store alone: the invariant says   *)
(* of the store AND of every copy a handler holds that it is a good        *)
(* document, and that every id in it has been handed out.  New ids are     *)
(* never among those, which keeps ids unique and makes a new invite code   *)
(* start with nobody admitted.  The lemmas come first: what each handler   *)
(* does to one document keeps it in order (DocOK).                         *)
(* What the whole panel does not guarantee is proved of the part that      *)
(* does: handlers that save what they loaded before losing the loop        *)
(* (FreshSaves, Serial), and handlers beside a list of servers that        *)
(* stands still (Still).                                                   *)
(***************************************************************************)
EXTENDS Panel, FiniteSetTheorems, SequenceTheorems, TLAPS

-----------------------------------------------------------------------------
(* Users and invite codes *)

\* An edit that admits nobody and changes no counter keeps the quotas.
LEMMA QuotaKept ==
    ASSUME NEW d, NEW e, IsFiniteSet(d.users), QuotaOK(d),
           d.uses \in [Codes -> Nat],
           e.users \subseteq d.users, e.uses = d.uses
    PROVE  IsFiniteSet(e.users) /\ QuotaOK(e)
<1>1. IsFiniteSet(e.users)
  BY FS_Subset
<1>2. ASSUME NEW code \in Codes
      PROVE  /\ Cardinality(Admitted(e, code)) <= e.uses[code]
             /\ MaxUses[code] > 0 => e.uses[code] <= MaxUses[code]
  <2>1. Admitted(d, code) \subseteq d.users /\ Admitted(e, code) \subseteq Admitted(d, code)
    BY DEF Admitted
  <2>2. IsFiniteSet(Admitted(d, code))
    BY <2>1, FS_Subset
  <2>3. /\ IsFiniteSet(Admitted(e, code))
        /\ Cardinality(Admitted(e, code)) <= Cardinality(Admitted(d, code))
    BY <2>1, <2>2, FS_Subset
  <2>4. /\ Cardinality(Admitted(d, code)) \in Nat
        /\ Cardinality(Admitted(e, code)) \in Nat
    BY <2>2, <2>3, FS_CardinalityType
  <2> QED
    BY <2>3, <2>4 DEF QuotaOK
<1> QED
  BY <1>1, <1>2 DEF QuotaOK

\* One more user under a code raises the number it admitted by at most one.
LEMMA AdmittedOneMore ==
    ASSUME NEW d, NEW e, NEW x, NEW code, IsFiniteSet(d.users),
           e.users = d.users \cup {x}
    PROVE  /\ Cardinality(Admitted(d, code)) \in Nat
           /\ Cardinality(Admitted(e, code)) \in Nat
           /\ Cardinality(Admitted(e, code)) <= Cardinality(Admitted(d, code)) + 1
           /\ x.via # code => Admitted(e, code) = Admitted(d, code)
<1>1. IsFiniteSet(Admitted(d, code))
  BY FS_Subset DEF Admitted
<1>2. CASE x.via = code
  <2>1. Admitted(e, code) = Admitted(d, code) \cup {x}
    BY <1>2 DEF Admitted
  <2>2. \A S : IsFiniteSet(S) =>
            /\ IsFiniteSet(S \cup {x})
            /\ \/ Cardinality(S \cup {x}) = Cardinality(S)
               \/ Cardinality(S \cup {x}) = Cardinality(S) + 1
    <3> SUFFICES ASSUME NEW S, IsFiniteSet(S)
                 PROVE  /\ IsFiniteSet(S \cup {x})
                        /\ \/ Cardinality(S \cup {x}) = Cardinality(S)
                           \/ Cardinality(S \cup {x}) = Cardinality(S) + 1
      OBVIOUS
    <3>1. /\ IsFiniteSet(S \cup {x})
          /\ Cardinality(S \cup {x}) =
               IF x \in S THEN Cardinality(S) ELSE Cardinality(S) + 1
      BY FS_AddElement
    <3> QED
      BY <3>1
  <2>3. /\ Cardinality(Admitted(d, code)) \in Nat
        /\ Cardinality(Admitted(e, code)) \in Nat
    BY <1>1, <2>1, <2>2, FS_CardinalityType
  <2> QED
    BY <1>1, <1>2, <2>1, <2>2, <2>3
<1>3. CASE x.via # code
  <2>1. Admitted(e, code) = Admitted(d, code)
    BY <1>3 DEF Admitted
  <2>2. Cardinality(Admitted(d, code)) \in Nat
    BY <1>1, FS_CardinalityType
  <2> QED
    BY <2>1, <2>2
<1> QED
  BY <1>2, <1>3

LEMMA AddUserFields ==
    ASSUME NEW d \in Doc, NEW u \in UserIds, NEW code \in Codes \cup {NoCode}
    PROVE  LET e == AddUser(d, u, code)
           IN  /\ e \in Doc
               /\ e.users = d.users \cup {[id |-> u, via |-> code]}
               /\ e.uses = d.uses /\ e.conns = d.conns
               /\ e.servers = d.servers /\ e.codes = d.codes
               /\ e.tokens = d.tokens
<1>1. [id |-> u, via |-> code] \in User
  BY DEF User
<1> QED
  BY <1>1 DEF AddUser, Doc

LEMMA AddUserGood ==
    ASSUME NEW d \in Doc, DocOK(d), NEW u \in UserIds, u \notin UserIdsOf(d)
    PROVE  /\ AddUser(d, u, NoCode) \in Doc
           /\ DocOK(AddUser(d, u, NoCode))
           /\ IdsOf(AddUser(d, u, NoCode)) \subseteq IdsOf(d) \cup {u}
<1> DEFINE x == [id |-> u, via |-> NoCode]
           e == AddUser(d, u, NoCode)
<1>1. /\ e \in Doc
      /\ e.users = d.users \cup {x} /\ e.uses = d.uses /\ e.conns = d.conns
      /\ e.servers = d.servers /\ e.codes = d.codes /\ e.tokens = d.tokens
  BY AddUserFields
<1>2. IsFiniteSet(e.users)
  BY <1>1, FS_AddElement DEF DocOK
<1>3. QuotaOK(e)
  <2> SUFFICES ASSUME NEW code \in Codes
               PROVE  /\ Cardinality(Admitted(e, code)) <= e.uses[code]
                      /\ MaxUses[code] > 0 => e.uses[code] <= MaxUses[code]
    BY DEF QuotaOK
  <2>1. x.via # code
    BY NoCodeAssumption
  <2>2. Admitted(e, code) = Admitted(d, code)
    BY <1>1, <2>1 DEF Admitted
  <2> QED
    BY <1>1, <2>2 DEF DocOK, QuotaOK
<1>4. IdsOK(e)
  BY <1>1 DEF DocOK, IdsOK, UserIdsOf, Doc
<1>5. IdsOf(e) \subseteq IdsOf(d) \cup {u}
  BY <1>1 DEF IdsOf, UserIdsOf
<1> QED
  BY <1>1, <1>2, <1>3, <1>4, <1>5 DEF DocOK

LEMMA RegisterGood ==
    ASSUME NEW d \in Doc, DocOK(d), NEW u \in UserIds, u \notin UserIdsOf(d),
           NEW code \in Codes, CodeValid(d, code)
    PROVE  /\ Register(d, u, code) \in Doc
           /\ DocOK(Register(d, u, code))
           /\ IdsOf(Register(d, u, code)) \subseteq IdsOf(d) \cup {u}
<1> DEFINE x == [id |-> u, via |-> code]
           e == Register(d, u, code)
<1>1. /\ e \in Doc
      /\ e.users = d.users \cup {x}
      /\ e.uses = [d.uses EXCEPT ![code] = @ + 1] /\ e.conns = d.conns
      /\ e.servers = d.servers /\ e.codes = d.codes /\ e.tokens = d.tokens
  <2>1. /\ AddUser(d, u, code) \in Doc
        /\ AddUser(d, u, code).users = d.users \cup {x}
        /\ AddUser(d, u, code).uses = d.uses
        /\ AddUser(d, u, code).conns = d.conns
        /\ AddUser(d, u, code).servers = d.servers
        /\ AddUser(d, u, code).codes = d.codes
        /\ AddUser(d, u, code).tokens = d.tokens
    BY AddUserFields
  <2>2. e = [AddUser(d, u, code) EXCEPT !.uses = [d.uses EXCEPT ![code] = @ + 1]]
    BY <2>1 DEF Register, Doc
  <2>3. [d.uses EXCEPT ![code] = @ + 1] \in [Codes -> Nat]
    BY DEF Doc
  <2> QED
    BY <2>1, <2>2, <2>3 DEF Doc
<1>2. IsFiniteSet(e.users)
  BY <1>1, FS_AddElement DEF DocOK
<1>3. QuotaOK(e)
  <2> SUFFICES ASSUME NEW k \in Codes
               PROVE  /\ Cardinality(Admitted(e, k)) <= e.uses[k]
                      /\ MaxUses[k] > 0 => e.uses[k] <= MaxUses[k]
    BY DEF QuotaOK
  <2>1. /\ d.uses[k] \in Nat /\ MaxUses[k] \in Nat
        /\ e.uses[k] = IF k = code THEN d.uses[k] + 1 ELSE d.uses[k]
    BY <1>1, MaxUsesAssumption DEF Doc
  <2>2. /\ Cardinality(Admitted(d, k)) <= d.uses[k]
        /\ MaxUses[k] > 0 => d.uses[k] <= MaxUses[k]
    BY DEF DocOK, QuotaOK
  <2>3. /\ Cardinality(Admitted(d, k)) \in Nat
        /\ Cardinality(Admitted(e, k)) \in Nat
        /\ Cardinality(Admitted(e, k)) <= Cardinality(Admitted(d, k)) + 1
        /\ k # code => Admitted(e, k) = Admitted(d, k)
    <3> HIDE DEF e, x
    <3>1. IsFiniteSet(d.users) /\ e.users = d.users \cup {x}
      BY <1>1 DEF DocOK
    <3>2. x.via = code
      BY DEF x
    <3> QED
      BY <3>1, <3>2, AdmittedOneMore
  <2>4. k = code /\ MaxUses[k] > 0 => d.uses[k] < MaxUses[k]
    BY <2>1 DEF CodeValid
  <2> QED
    BY <2>1, <2>2, <2>3, <2>4
<1>4. IdsOK(e)
  BY <1>1 DEF DocOK, IdsOK, UserIdsOf, Doc
<1>5. IdsOf(e) \subseteq IdsOf(d) \cup {u}
  BY <1>1 DEF IdsOf, UserIdsOf, CodeValid
<1> QED
  BY <1>1, <1>2, <1>3, <1>4, <1>5 DEF DocOK

LEMMA DeleteUserGood ==
    ASSUME NEW d \in Doc, DocOK(d), NEW u \in UserIds
    PROVE  /\ DeleteUser(d, u) \in Doc
           /\ DocOK(DeleteUser(d, u))
           /\ IdsOf(DeleteUser(d, u)) \subseteq IdsOf(d)
           /\ DeleteUser(d, u).conns \subseteq d.conns
<1> DEFINE e == DeleteUser(d, u)
<1>1. /\ e \in Doc
      /\ e.users \subseteq d.users /\ e.conns \subseteq d.conns
      /\ e.uses = d.uses /\ e.servers = d.servers
      /\ e.codes = d.codes /\ e.tokens = d.tokens
  BY DEF DeleteUser, Doc
<1>2. IsFiniteSet(e.users) /\ QuotaOK(e)
  BY <1>1, QuotaKept DEF DocOK, Doc
<1>3. IdsOK(e)
  BY <1>1 DEF DocOK, IdsOK
<1>4. IdsOf(e) \subseteq IdsOf(d)
  BY <1>1 DEF IdsOf, UserIdsOf
<1> QED
  BY <1>1, <1>2, <1>3, <1>4 DEF DocOK

LEMMA SetEnabledGood ==
    ASSUME NEW d \in Doc, DocOK(d), NEW u \in UserIds, NEW on \in BOOLEAN
    PROVE  /\ SetEnabled(d, u, on) \in Doc
           /\ DocOK(SetEnabled(d, u, on))
           /\ IdsOf(SetEnabled(d, u, on)) = IdsOf(d)
           /\ SetEnabled(d, u, on).conns = d.conns
           /\ SetEnabled(d, u, on).servers = d.servers
<1> DEFINE e == SetEnabled(d, u, on)
<1>1. /\ e \in Doc
      /\ e.users = d.users /\ e.conns = d.conns
      /\ e.uses = d.uses /\ e.servers = d.servers
      /\ e.codes = d.codes /\ e.tokens = d.tokens
  BY DEF SetEnabled, Doc
<1>2. DocOK(e)
  BY <1>1 DEF DocOK, QuotaOK, IdsOK, Admitted
<1>3. IdsOf(e) = IdsOf(d)
  BY <1>1 DEF IdsOf, UserIdsOf
<1> QED
  BY <1>1, <1>2, <1>3

\* A new code starts with no use and with nobody admitted: that needs the code
\* to be one that no user was ever admitted by.
LEMMA AddCodeGood ==
    ASSUME NEW d \in Doc, DocOK(d), NEW code \in Codes, code \notin IdsOf(d)
    PROVE  /\ AddCode(d, code) \in Doc
           /\ DocOK(AddCode(d, code))
           /\ IdsOf(AddCode(d, code)) \subseteq IdsOf(d) \cup {code}
           /\ AddCode(d, code).conns = d.conns
<1> DEFINE e == AddCode(d, code)
<1>1. /\ e \in Doc
      /\ e.users = d.users /\ e.conns = d.conns
      /\ e.uses = [d.uses EXCEPT ![code] = 0] /\ e.servers = d.servers
      /\ e.codes = d.codes \cup {code} /\ e.tokens = d.tokens
  BY DEF AddCode, Doc
<1>2. QuotaOK(e)
  <2> SUFFICES ASSUME NEW k \in Codes
               PROVE  /\ Cardinality(Admitted(e, k)) <= e.uses[k]
                      /\ MaxUses[k] > 0 => e.uses[k] <= MaxUses[k]
    BY DEF QuotaOK
  <2>1. CASE k = code
    <3>1. Admitted(e, k) = {}
      BY <1>1, <2>1, NoCodeAssumption DEF Admitted, IdsOf, Doc
    <3>2. e.uses[k] = 0
      BY <1>1, <2>1 DEF Doc
    <3>3. Cardinality(Admitted(e, k)) = 0
      BY <3>1, FS_EmptySet
    <3> QED
      BY <3>2, <3>3, MaxUsesAssumption
  <2>2. CASE k # code
    <3>1. Admitted(e, k) = Admitted(d, k) /\ e.uses[k] = d.uses[k]
      BY <1>1, <2>2 DEF Admitted, Doc
    <3> QED
      BY <3>1 DEF DocOK, QuotaOK
  <2> QED
    BY <2>1, <2>2
<1>3. DocOK(e)
  BY <1>1, <1>2 DEF DocOK, IdsOK
<1>4. IdsOf(e) \subseteq IdsOf(d) \cup {code}
  BY <1>1 DEF IdsOf, UserIdsOf
<1> QED
  BY <1>1, <1>3, <1>4

LEMMA DropCodeGood ==
    ASSUME NEW d \in Doc, DocOK(d), NEW code \in Codes
    PROVE  /\ DropCode(d, code) \in Doc
           /\ DocOK(DropCode(d, code))
           /\ IdsOf(DropCode(d, code)) \subseteq IdsOf(d)
           /\ DropCode(d, code).conns = d.conns
<1> DEFINE e == DropCode(d, code)
<1>1. /\ e \in Doc
      /\ e.users = d.users /\ e.conns = d.conns
      /\ e.uses = d.uses /\ e.servers = d.servers
      /\ e.codes \subseteq d.codes /\ e.tokens = d.tokens
  BY DEF DropCode, Doc
<1>2. DocOK(e)
  BY <1>1 DEF DocOK, QuotaOK, IdsOK, Admitted
<1>3. IdsOf(e) \subseteq IdsOf(d)
  BY <1>1 DEF IdsOf, UserIdsOf
<1> QED
  BY <1>1, <1>2, <1>3

-----------------------------------------------------------------------------
(* API tokens and connections *)

LEMMA TokenGood ==
    ASSUME NEW d \in Doc, DocOK(d), NEW t \in Tokens,
           NEW e \in {AddToken(d, t), DropToken(d, t)}
    PROVE  /\ e \in Doc
           /\ DocOK(e)
           /\ IdsOf(e) \subseteq IdsOf(d) \cup {t}
           /\ e.conns = d.conns
           /\ e = DropToken(d, t) => IdsOf(e) \subseteq IdsOf(d)
<1>1. /\ e \in Doc
      /\ e.users = d.users /\ e.conns = d.conns
      /\ e.uses = d.uses /\ e.servers = d.servers
      /\ e.codes = d.codes /\ e.tokens \subseteq d.tokens \cup {t}
      /\ e = DropToken(d, t) => e.tokens \subseteq d.tokens
  BY DEF AddToken, DropToken, Doc
<1>2. DocOK(e)
  BY <1>1 DEF DocOK, QuotaOK, IdsOK, Admitted
<1>3. IdsOf(e) \subseteq IdsOf(d) \cup {t}
  BY <1>1 DEF IdsOf, UserIdsOf
<1>4. e = DropToken(d, t) => IdsOf(e) \subseteq IdsOf(d)
  BY <1>1 DEF IdsOf, UserIdsOf
<1> QED
  BY <1>1, <1>2, <1>3, <1>4

LEMMA AddConnGood ==
    ASSUME NEW d \in Doc, DocOK(d), NEW c \in Conn, \A x \in d.conns : x.id # c.id
    PROVE  /\ AddConn(d, c) \in Doc
           /\ DocOK(AddConn(d, c))
           /\ IdsOf(AddConn(d, c)) \subseteq IdsOf(d) \cup {c.id}
           /\ AddConn(d, c).conns = d.conns \cup {c}
<1> DEFINE e == AddConn(d, c)
<1>1. /\ e \in Doc
      /\ e.users = d.users /\ e.conns = d.conns \cup {c}
      /\ e.uses = d.uses /\ e.servers = d.servers
      /\ e.codes = d.codes /\ e.tokens = d.tokens
  BY DEF AddConn, Doc
<1>2. DocOK(e)
  BY <1>1 DEF DocOK, QuotaOK, IdsOK, Admitted
<1>3. IdsOf(e) \subseteq IdsOf(d) \cup {c.id}
  BY <1>1 DEF IdsOf, UserIdsOf
<1> QED
  BY <1>1, <1>2, <1>3

\* Dropping connections, whichever they are.
LEMMA FewerConnsGood ==
    ASSUME NEW d \in Doc, DocOK(d), NEW kept \in SUBSET d.conns
    PROVE  LET e == [d EXCEPT !.conns = kept]
           IN  /\ e \in Doc
               /\ DocOK(e)
               /\ IdsOf(e) \subseteq IdsOf(d)
               /\ e.conns = kept
<1> DEFINE e == [d EXCEPT !.conns = kept]
<1>1. /\ e \in Doc
      /\ e.users = d.users /\ e.conns = kept
      /\ e.uses = d.uses /\ e.servers = d.servers
      /\ e.codes = d.codes /\ e.tokens = d.tokens
  BY DEF Doc
<1>2. DocOK(e)
  BY <1>1 DEF DocOK, QuotaOK, IdsOK, Admitted
<1>3. IdsOf(e) \subseteq IdsOf(d)
  BY <1>1 DEF IdsOf, UserIdsOf
<1> QED
  BY <1>1, <1>2, <1>3

-----------------------------------------------------------------------------
(* The list of servers *)

LEMMA FunctionIsSeq ==
    ASSUME NEW S, NEW n \in Nat, NEW f \in [1..n -> S]
    PROVE  f \in Seq(S) /\ Len(f) = n
OBVIOUS

LEMMA AddServerGood ==
    ASSUME NEW d \in Doc, DocOK(d), NEW s \in Servers, s \notin IdsOf(d)
    PROVE  /\ AddServer(d, s) \in Doc
           /\ DocOK(AddServer(d, s))
           /\ IdsOf(AddServer(d, s)) \subseteq IdsOf(d) \cup {s}
           /\ AddServer(d, s).conns = d.conns
<1> DEFINE e == AddServer(d, s)
<1>0. d.servers \in Seq(Servers)
  BY DEF Doc
<1>1. /\ e.servers = Append(d.servers, s)
      /\ e.users = d.users /\ e.conns = d.conns /\ e.uses = d.uses
      /\ e.codes = d.codes /\ e.tokens = d.tokens
      /\ e \in Doc
  BY <1>0, AppendProperties DEF AddServer, Doc
<1>2. /\ DOMAIN e.servers = 1..(Len(d.servers) + 1)
      /\ Len(d.servers) \in Nat /\ DOMAIN d.servers = 1..Len(d.servers)
      /\ \A k \in 1..Len(d.servers) : e.servers[k] = d.servers[k]
      /\ e.servers[Len(d.servers) + 1] = s
  BY <1>0, <1>1, AppendProperties, LenProperties
<1>3. \A k \in DOMAIN d.servers : d.servers[k] # s
  BY DEF IdsOf
<1>4. \A j, k \in DOMAIN e.servers : e.servers[j] = e.servers[k] => j = k
  <2>1. \A j, k \in 1..Len(d.servers) : d.servers[j] = d.servers[k] => j = k
    BY <1>2 DEF DocOK, IdsOK
  <2> HIDE DEF e
  <2> QED
    BY <1>2, <1>3, <2>1
<1>5. DocOK(e)
  BY <1>1, <1>4 DEF DocOK, QuotaOK, IdsOK, Admitted
<1>6. IdsOf(e) \subseteq IdsOf(d) \cup {s}
  BY <1>1, <1>2 DEF IdsOf, UserIdsOf
<1> QED
  BY <1>1, <1>5, <1>6

LEMMA PopProperties ==
    ASSUME NEW S, NEW q \in Seq(S), NEW i \in 1..Len(q)
    PROVE  /\ Pop(q, i) \in Seq(S)
           /\ DOMAIN Pop(q, i) = 1..(Len(q) - 1)
           /\ \A k \in 1..(Len(q) - 1) :
                 Pop(q, i)[k] = q[IF k < i THEN k ELSE k + 1]
<1>1. Len(q) \in Nat /\ Len(q) - 1 \in Nat /\ \A k \in 1..Len(q) : q[k] \in S
  BY LenProperties, ElementOfSeq
<1>2. Pop(q, i) \in [1..(Len(q) - 1) -> S]
  BY <1>1 DEF Pop
<1> QED
  BY <1>1, <1>2, FunctionIsSeq DEF Pop

LEMMA DeleteServerGood ==
    ASSUME NEW d \in Doc, DocOK(d), NEW i \in DOMAIN d.servers
    PROVE  /\ DeleteServer(d, i) \in Doc
           /\ DocOK(DeleteServer(d, i))
           /\ IdsOf(DeleteServer(d, i)) \subseteq IdsOf(d)
           /\ \A e \in DeleteServer(d, i).conns : \E c \in d.conns : c.id = e.id
<1> DEFINE e == DeleteServer(d, i)
           shift(c) == [c EXCEPT !.srv = IF @ > i THEN @ - 1 ELSE @]
           kept == {c \in d.conns : c.srv # i}
<1>0. d.servers \in Seq(Servers) /\ d.conns \subseteq Conn
  BY DEF Doc
<1>1. /\ Len(d.servers) \in Nat /\ DOMAIN d.servers = 1..Len(d.servers)
      /\ i \in 1..Len(d.servers)
  BY <1>0, LenProperties
<1>2. \A c \in kept : shift(c) \in Conn /\ shift(c).id = c.id
  BY <1>0, <1>1 DEF Conn
<1>3. {shift(c) : c \in kept} \subseteq Conn
  BY <1>2
<1>4. /\ Pop(d.servers, i) \in Seq(Servers)
      /\ DOMAIN Pop(d.servers, i) = 1..(Len(d.servers) - 1)
      /\ \A k \in 1..(Len(d.servers) - 1) :
            Pop(d.servers, i)[k] = d.servers[IF k < i THEN k ELSE k + 1]
  BY <1>0, <1>1, PopProperties
<1>5. /\ e \in Doc
      /\ e.servers = Pop(d.servers, i) /\ e.conns = {shift(c) : c \in kept}
      /\ e.users = d.users /\ e.uses = d.uses
      /\ e.codes = d.codes /\ e.tokens = d.tokens
  <2>1. d.sync \in Nat \ {0}
    BY DEF Doc
  <2>2. e = [d EXCEPT !.servers = Pop(d.servers, i),
                      !.conns = {shift(c) : c \in kept}, !.sync = d.sync]
    BY DEF DeleteServer, Doc
  <2> DEFINE cs == {shift(c) : c \in kept}
             q == Pop(d.servers, i)
  <2>3. cs \in SUBSET Conn /\ q \in Seq(Servers)
    BY <1>3, <1>4
  <2>4. e = [d EXCEPT !.servers = q, !.conns = cs, !.sync = d.sync]
    BY <2>2
  <2> HIDE DEF e, q, cs
  <2>5. /\ e \in Doc /\ e.servers = q /\ e.conns = cs
        /\ e.users = d.users /\ e.uses = d.uses
        /\ e.codes = d.codes /\ e.tokens = d.tokens
    BY <2>1, <2>3, <2>4 DEF Doc
  <2> QED
    BY <2>5 DEF cs, q
<1> HIDE DEF e
<1>6. \A c \in e.conns : \E x \in d.conns : x.id = c.id /\ c = shift(x)
  BY <1>2, <1>5
<1>7. IdsOK(e)
  <2>1. \A j, k \in DOMAIN e.servers : e.servers[j] = e.servers[k] => j = k
    <3>1. \A j, k \in 1..Len(d.servers) : d.servers[j] = d.servers[k] => j = k
      BY <1>1 DEF DocOK, IdsOK
    <3>2. SUFFICES ASSUME NEW j \in 1..(Len(d.servers) - 1),
                          NEW k \in 1..(Len(d.servers) - 1),
                          e.servers[j] = e.servers[k]
                   PROVE  j = k
      BY <1>4, <1>5
    <3> DEFINE at(x) == IF x < i THEN x ELSE x + 1
    <3>3. at(j) \in 1..Len(d.servers) /\ at(k) \in 1..Len(d.servers)
      BY <1>1
    <3>4. d.servers[at(j)] = d.servers[at(k)]
      BY <1>4, <1>5, <3>2
    <3>5. at(j) = at(k)
      <4> HIDE DEF at
      <4> QED
        BY <3>1, <3>3, <3>4
    <3> QED
      BY <1>1, <3>5
  <2>2. \A x, y \in e.conns : x.id = y.id => x = y
    <3>1. \A x, y \in d.conns : x.id = y.id => x = y
      BY DEF DocOK, IdsOK
    <3> HIDE DEF shift
    <3> QED
      BY <1>6, <3>1
  <2> QED
    BY <1>5, <2>1, <2>2 DEF IdsOK, DocOK
<1>8. DocOK(e)
  BY <1>5, <1>7 DEF DocOK, QuotaOK, Admitted
<1>9. IdsOf(e) \subseteq IdsOf(d)
  <2>1. \A k \in DOMAIN e.servers : \E j \in DOMAIN d.servers : e.servers[k] = d.servers[j]
    <3>1. \A k \in 1..(Len(d.servers) - 1) :
            (IF k < i THEN k ELSE k + 1) \in 1..Len(d.servers)
      BY <1>1
    <3> QED
      BY <1>1, <1>4, <1>5, <3>1
  <2>2. \A c \in e.conns : \E x \in d.conns : x.id = c.id
    BY <1>6
  <2>3. e.users = d.users /\ e.codes = d.codes /\ e.tokens = d.tokens
    BY <1>5
  <2> HIDE DEF shift, kept
  <2> QED
    BY <2>1, <2>2, <2>3 DEF IdsOf, UserIdsOf
<1> QED
  BY <1>5, <1>6, <1>8, <1>9 DEF e

\* Where an order sends a position: back to an entry that was there.
LEMMA RemapProperties ==
    ASSUME NEW n \in Nat, NEW order \in Orders(n), NEW old \in Nat \ {0}
    PROVE  /\ Remap(order, old) \in Nat \ {0}
           /\ old \in 1..n => /\ Remap(order, old) \in 1..n
                              /\ order[Remap(order, old)] = old
<1>0. DOMAIN order = 1..n
  BY DEF Orders
<1>1. \A k \in 1..n : \E j \in 1..n : order[j] = k
  BY DEF Orders
<1>2. CASE old \in 1..n
  <2> DEFINE w == CHOOSE new \in DOMAIN order : order[new] = old
  <2>1. w \in DOMAIN order /\ order[w] = old
    BY <1>0, <1>1, <1>2
  <2>2. Remap(order, old) = w
    BY <1>0, <1>2 DEF Remap
  <2> HIDE DEF w
  <2>3. w \in 1..n
    BY <1>0, <2>1
  <2> QED
    BY <1>2, <2>1, <2>2, <2>3
<1>3. CASE old \notin 1..n
  BY <1>0, <1>3 DEF Remap
<1> QED
  BY <1>2, <1>3

LEMMA ReorderGood ==
    ASSUME NEW d \in Doc, DocOK(d), NEW order \in Orders(Len(d.servers))
    PROVE  /\ ReorderServers(d, order) \in Doc
           /\ DocOK(ReorderServers(d, order))
           /\ IdsOf(ReorderServers(d, order)) \subseteq IdsOf(d)
           /\ \A e \in ReorderServers(d, order).conns : \E c \in d.conns : c.id = e.id
<1> DEFINE e == ReorderServers(d, order)
           n == Len(d.servers)
           move(c) == [c EXCEPT !.srv = Remap(order, @)]
           moved == [k \in 1..n |-> d.servers[order[k]]]
<1>0. /\ d.servers \in Seq(Servers) /\ d.conns \subseteq Conn
      /\ d.sync \in Nat \ {0}
  BY DEF Doc
<1>1. n \in Nat /\ DOMAIN d.servers = 1..n /\ order \in [1..n -> 1..n]
  BY <1>0, LenProperties DEF Orders
<1>2. \A c \in d.conns : move(c) \in Conn /\ move(c).id = c.id
  <2> TAKE c \in d.conns
  <2>1. c \in Conn /\ c.srv \in Nat \ {0}
    BY <1>0 DEF Conn
  <2>2. Remap(order, c.srv) \in Nat \ {0}
    BY <1>1, <2>1, RemapProperties
  <2> QED
    BY <2>1, <2>2 DEF Conn
<1>3. {move(c) : c \in d.conns} \subseteq Conn
  BY <1>2
<1>4. moved \in Seq(Servers)
  <2>1. \A k \in 1..n : d.servers[order[k]] \in Servers
    BY <1>0, <1>1, ElementOfSeq
  <2>2. moved \in [1..n -> Servers]
    BY <2>1
  <2> QED
    BY <1>1, <2>2, FunctionIsSeq
<1>5. Remap(order, d.sync) \in Nat \ {0}
  BY <1>0, <1>1, RemapProperties
<1>6. /\ e \in Doc
      /\ e.servers = moved /\ e.conns = {move(c) : c \in d.conns}
      /\ e.users = d.users /\ e.uses = d.uses
      /\ e.codes = d.codes /\ e.tokens = d.tokens
  <2>1. e = [d EXCEPT !.servers = moved, !.conns = {move(c) : c \in d.conns},
                      !.sync = Remap(order, d.sync)]
    BY DEF ReorderServers, Doc
  <2> DEFINE cs == {move(c) : c \in d.conns}
             y == Remap(order, d.sync)
  <2>2. cs \in SUBSET Conn
    BY <1>3
  <2>3. e = [d EXCEPT !.servers = moved, !.conns = cs, !.sync = y]
    BY <2>1
  <2> HIDE DEF e, moved, cs, y
  <2>4. y \in Nat \ {0}
    BY <1>5 DEF y
  <2>5. /\ e \in Doc /\ e.servers = moved /\ e.conns = cs
        /\ e.users = d.users /\ e.uses = d.uses
        /\ e.codes = d.codes /\ e.tokens = d.tokens
    BY <1>4, <2>2, <2>3, <2>4 DEF Doc
  <2> QED
    BY <2>5 DEF cs
<1> HIDE DEF e
<1>7. \A c \in e.conns : \E x \in d.conns : x.id = c.id /\ c = move(x)
  <2>1. \A x \in d.conns : x.id = move(x).id
    BY <1>0 DEF Conn
  <2>2. e.conns = {move(x) : x \in d.conns}
    BY <1>6
  <2> HIDE DEF move
  <2> QED
    BY <2>1, <2>2
<1>8. IdsOK(e)
  <2>1. \A j, k \in DOMAIN e.servers : e.servers[j] = e.servers[k] => j = k
    <3>1. \A j, k \in 1..n : order[j] = order[k] => j = k
      <4> TAKE j, k \in 1..n
      <4>1. order[k] \in 1..n
        BY <1>1
      <4>2. PICK m \in 1..n : \A i \in 1..n : order[i] = order[k] <=> i = m
        BY <4>1 DEF Orders
      <4> QED
        BY <4>2
    <3>2. \A j, k \in 1..n : d.servers[j] = d.servers[k] => j = k
      BY <1>1 DEF DocOK, IdsOK
    <3>3. DOMAIN e.servers = 1..n /\ \A k \in 1..n : e.servers[k] = d.servers[order[k]]
      BY <1>6
    <3> QED
      BY <1>1, <3>1, <3>2, <3>3
  <2>2. \A x, y \in e.conns : x.id = y.id => x = y
    <3>1. \A x, y \in d.conns : x.id = y.id => x = y
      BY DEF DocOK, IdsOK
    <3> HIDE DEF move
    <3> QED
      BY <1>7, <3>1
  <2> QED
    BY <1>6, <2>1, <2>2 DEF IdsOK, DocOK
<1>9. DocOK(e)
  BY <1>6, <1>8 DEF DocOK, QuotaOK, Admitted
<1>10. IdsOf(e) \subseteq IdsOf(d)
  <2>1. \A k \in DOMAIN e.servers : \E j \in DOMAIN d.servers : e.servers[k] = d.servers[j]
    BY <1>1, <1>6
  <2>2. \A c \in e.conns : \E x \in d.conns : x.id = c.id
    BY <1>7
  <2>3. e.users = d.users /\ e.codes = d.codes /\ e.tokens = d.tokens
    BY <1>6
  <2> HIDE DEF move, moved
  <2> QED
    BY <2>1, <2>2, <2>3 DEF IdsOf, UserIdsOf
<1> QED
  BY <1>6, <1>7, <1>9, <1>10 DEF e

-----------------------------------------------------------------------------
(* What the edits of the list do to the connections *)

\* The fields of an edited document, whatever its other fields.
LEMMA DeletedFields ==
    ASSUME NEW d \in Doc, NEW i \in DOMAIN d.servers
    PROVE  LET e == DeleteServer(d, i)
           IN  /\ DOMAIN e.servers = 1..(Len(d.servers) - 1)
               /\ \A k \in 1..(Len(d.servers) - 1) :
                     e.servers[k] = d.servers[IF k < i THEN k ELSE k + 1]
               /\ e.conns = {[c EXCEPT !.srv = IF @ > i THEN @ - 1 ELSE @] :
                                c \in {x \in d.conns : x.srv # i}}
<1>1. d.servers \in Seq(Servers) /\ i \in 1..Len(d.servers)
  BY LenProperties DEF Doc
<1> QED
  BY <1>1, PopProperties DEF DeleteServer, Doc

LEMMA DeleteKeepsPlacement ==
    ASSUME NEW d \in Doc, DocOK(d), NEW i \in DOMAIN d.servers
    PROVE  SamePlacement(d, DeleteServer(d, i))
<1> DEFINE e == DeleteServer(d, i)
           n == Len(d.servers)
           shift(c) == [c EXCEPT !.srv = IF @ > i THEN @ - 1 ELSE @]
           at(k) == IF k < i THEN k ELSE k + 1
<1>1. /\ n \in Nat /\ DOMAIN d.servers = 1..n /\ i \in 1..n
      /\ d.conns \subseteq Conn
  BY LenProperties DEF Doc
<1>2. /\ DOMAIN e.servers = 1..(n - 1)
      /\ \A k \in 1..(n - 1) : e.servers[k] = d.servers[at(k)]
      /\ e.conns = {shift(c) : c \in {x \in d.conns : x.srv # i}}
  BY DeletedFields
<1>3. /\ \A j, k \in 1..n : d.servers[j] = d.servers[k] => j = k
      /\ \A x, y \in d.conns : x.id = y.id => x = y
  BY <1>1 DEF DocOK, IdsOK
<1> SUFFICES ASSUME NEW c \in d.conns, c.srv \in 1..n
             PROVE  LET s == d.servers[c.srv]
                        kept == {x \in e.conns : x.id = c.id}
                    IN  IF \E k \in DOMAIN e.servers : e.servers[k] = s
                        THEN \E x \in kept : Within(e, x) /\ e.servers[x.srv] = s
                        ELSE kept = {}
  BY <1>1 DEF SamePlacement, Within
<1> HIDE DEF e
<1>4. c \in Conn /\ shift(c).id = c.id
      /\ shift(c).srv = IF c.srv > i THEN c.srv - 1 ELSE c.srv
  BY <1>1 DEF Conn
<1>5. CASE c.srv = i
  <2>1. ASSUME NEW k \in 1..(n - 1) PROVE e.servers[k] # d.servers[c.srv]
    <3>1. at(k) \in 1..n /\ at(k) # i
      BY <1>1
    <3> HIDE DEF at
    <3> QED
      BY <1>1, <1>2, <1>3, <1>5, <3>1
  <2>2. ASSUME NEW x \in e.conns, x.id = c.id PROVE FALSE
    <3>1. PICK y \in d.conns : y.srv # i /\ x = shift(y)
      BY <1>2
    <3>2. y \in Conn /\ shift(y).id = y.id
      BY <1>1 DEF Conn
    <3> HIDE DEF shift
    <3> QED
      BY <1>3, <1>5, <2>2, <3>1, <3>2
  <2> QED
    BY <1>2, <2>1, <2>2
<1>6. CASE c.srv # i
  <2>1. shift(c) \in e.conns
    BY <1>2, <1>6
  <2>2. shift(c).srv \in 1..(n - 1) /\ at(shift(c).srv) = c.srv
    BY <1>1, <1>4, <1>6
  <2>3. e.servers[shift(c).srv] = d.servers[c.srv]
    BY <1>2, <2>2
  <2> HIDE DEF shift, at
  <2>4. Within(e, shift(c))
    BY <1>2, <2>2 DEF Within
  <2> QED
    BY <1>2, <1>4, <2>1, <2>2, <2>3, <2>4
<1> QED
  BY <1>5, <1>6

LEMMA ReorderKeepsPlacement ==
    ASSUME NEW d \in Doc, DocOK(d), NEW order \in Orders(Len(d.servers))
    PROVE  LET e == ReorderServers(d, order)
           IN  /\ SamePlacement(d, e)
               /\ d.sync \in DOMAIN d.servers => e.servers[e.sync] = d.servers[d.sync]
<1> DEFINE e == ReorderServers(d, order)
           n == Len(d.servers)
           move(c) == [c EXCEPT !.srv = Remap(order, @)]
<1>1. /\ n \in Nat /\ DOMAIN d.servers = 1..n
      /\ d.conns \subseteq Conn /\ d.sync \in Nat \ {0}
  BY LenProperties DEF Doc
<1>2. /\ e.servers = [k \in 1..n |-> d.servers[order[k]]]
      /\ e.conns = {move(c) : c \in d.conns} /\ e.sync = Remap(order, d.sync)
  BY DEF ReorderServers, Doc
<1> HIDE DEF e
<1>3. ASSUME NEW p \in 1..n
      PROVE  /\ Remap(order, p) \in DOMAIN e.servers
             /\ e.servers[Remap(order, p)] = d.servers[p]
  <2>1. p \in Nat \ {0}
    BY <1>1
  <2>2. Remap(order, p) \in 1..n /\ order[Remap(order, p)] = p
    BY <1>1, <2>1, RemapProperties
  <2> QED
    BY <1>2, <2>2
<1>4. SamePlacement(d, e)
  <2> SUFFICES ASSUME NEW c \in d.conns, c.srv \in 1..n
               PROVE  LET s == d.servers[c.srv]
                          kept == {x \in e.conns : x.id = c.id}
                      IN  IF \E k \in DOMAIN e.servers : e.servers[k] = s
                          THEN \E x \in kept : Within(e, x) /\ e.servers[x.srv] = s
                          ELSE kept = {}
    BY <1>1 DEF SamePlacement, Within
  <2>1. move(c) \in e.conns
    BY <1>2
  <2>2. c \in Conn /\ move(c).id = c.id /\ move(c).srv = Remap(order, c.srv)
    BY <1>1 DEF Conn
  <2> HIDE DEF move
  <2> QED
    BY <1>3, <2>1, <2>2 DEF Within
<1>5. d.sync \in DOMAIN d.servers => e.servers[e.sync] = d.servers[d.sync]
  BY <1>1, <1>2, <1>3
<1> QED
  BY <1>4, <1>5 DEF e
-----------------------------------------------------------------------------
(* The invariant of Panel *)

\* A document that may be stored: consistent, and naming only issued ids.
Good(d) == DocOK(d) /\ IdsOf(d) \subseteq issued

\* The stages in which a handler may be at work on a server, and those in
\* which it needs the position it works at.
VisitStages == {"deleting", "removing", "enabling", "disabling", "purging"}
PlacedStages == {"adding", "appending", "deleting", "removing"}

CreatingStages == {"adding", "added", "appending", "recording"}
RemovingStages == {"deleting", "removed", "removing", "dropping", "unlisting"}
Creating(s) == pc[s] \in CreatingStages
Removing(s) == pc[s] \in RemovingStages

\* The id of a connection under construction has been issued to this handler
\* alone: no document mentions it yet.
Pending(s) ==
    /\ conn[s] \in Conn
    /\ conn[s].id \in issued
    /\ \A c \in store.conns : c.id # conn[s].id
    /\ \A t \in Sessions : \A c \in data[t].conns : c.id # conn[s].id
    /\ \A t \in Sessions : Creating(t) /\ conn[t].id = conn[s].id => t = s

Placed(s) ==
    /\ Creating(s) => Pending(s)
    /\ Removing(s) => conn[s].id \in ConnIds
    /\ pc[s] \in PlacedStages => conn[s].srv \in DOMAIN data[s].servers
    /\ pc[s] \notin VisitStages => visit[s] = NoVisit

IInv ==
    /\ WorkOK
    /\ shown \subseteq ConnIds \X (Nat \ {0})
    /\ Good(store)
    /\ \A s \in Sessions : Good(data[s]) /\ Placed(s)

-----------------------------------------------------------------------------
(* One session moves at a time; what it must ensure for IInv to be kept.     *)

AllIds == UserIds \cup ConnIds \cup Codes \cup Tokens \cup Servers

StepOK(s) ==
    /\ pc' = [pc EXCEPT ![s] = pc'[s]]
    /\ data' = [data EXCEPT ![s] = data'[s]]
    /\ conn' = [conn EXCEPT ![s] = conn'[s]]
    /\ left' = [left EXCEPT ![s] = left'[s]]
    /\ visit' = [visit EXCEPT ![s] = visit'[s]]
    /\ WorkOK'
    /\ issued \subseteq issued'
    /\ Good(store)'
    /\ Good(data[s])'
    /\ \A t \in Sessions \ {s} : Creating(t) =>
          \A c \in store'.conns \cup data'[s].conns : c.id # conn[t].id
    /\ Placed(s)'

\* A step shows at most the pages of the state it leads to.
PagesAdded == shown' \subseteq shown \cup Pages'

LEMMA PagesTyped ==
    ASSUME IInv, WorkOK', PagesAdded
    PROVE  shown' \subseteq ConnIds \X (Nat \ {0})
<1>1. store' \in Doc
  BY DEF WorkOK
<1>2. store'.conns \subseteq Conn /\ store'.servers \in Seq(Servers)
  BY <1>1 DEF Doc
<1>3. \A k \in DOMAIN store'.servers : k \in Nat \ {0}
  BY <1>2, LenProperties
<1>4. \A c \in store'.conns : <<c.id, c.srv>> \in ConnIds \X (Nat \ {0})
  BY <1>2 DEF Conn
<1>5. Pages' \subseteq ConnIds \X (Nat \ {0})
  BY <1>3, <1>4 DEF Pages
<1> QED
  BY <1>5 DEF PagesAdded, IInv

LEMMA Blanks ==
    /\ NoConn \in Target /\ NoVisit \in Visit /\ NoPeer \in Peer
    /\ Conn \subseteq Target
    /\ NoVisit.at = Nowhere /\ NoVisit.seen = {} /\ NoPeer.at = Nowhere
BY DEF NoConn, Target, NoVisit, Visit, NoPeer, Peer, Conn

LEMMA StepKeepsIInv ==
    ASSUME IInv, NEW s \in Sessions, StepOK(s), PagesAdded
    PROVE  IInv'
<1>1. ASSUME NEW t \in Sessions, t # s
      PROVE  /\ pc'[t] = pc[t] /\ data'[t] = data[t] /\ conn'[t] = conn[t]
             /\ visit'[t] = visit[t]
  BY <1>1 DEF StepOK, IInv, WorkOK
<1>2. WorkOK' /\ Good(store)' /\ Good(data[s])' /\ Placed(s)' /\ issued \subseteq issued'
  BY DEF StepOK
<1>3. ASSUME NEW t \in Sessions, t # s
      PROVE  Good(data[t])' /\ Placed(t)'
  <2>1. /\ pc'[t] = pc[t] /\ data'[t] = data[t] /\ conn'[t] = conn[t]
        /\ visit'[t] = visit[t]
    BY <1>1, <1>3
  <2>2. Good(data[t]) /\ Placed(t)
    BY DEF IInv
  <2>3. Good(data[t])'
    BY <1>2, <2>1, <2>2 DEF Good
  <2>4. Creating(t)' => Pending(t)'
    <3> SUFFICES ASSUME Creating(t)'
                 PROVE  Pending(t)'
      OBVIOUS
    <3>1. Creating(t) /\ Pending(t)
      BY <2>1, <2>2 DEF Creating, Placed
    <3>2. \A c \in store'.conns \cup data'[s].conns : c.id # conn[t].id
      BY <1>3, <3>1 DEF StepOK
    <3>3. ASSUME NEW r \in Sessions PROVE \A c \in data'[r].conns : c.id # conn[t].id
      BY <1>1, <3>1, <3>2, <3>3 DEF Pending
    <3>4. ASSUME NEW r \in Sessions, Creating(r)', conn'[r].id = conn'[t].id
          PROVE  r = t
      <4>1. CASE r = s
        <5>1. Pending(s)'
          BY <1>2, <3>4, <4>1 DEF Placed
        <5> QED
          BY <3>4, <4>1, <5>1 DEF Pending
      <4>2. CASE r # s
        BY <1>1, <2>1, <3>1, <3>4, <4>2 DEF Pending, Creating
      <4> QED
        BY <4>1, <4>2
    <3> QED
      BY <1>2, <2>1, <3>1, <3>2, <3>3, <3>4 DEF Pending
  <2> QED
    BY <2>1, <2>2, <2>3, <2>4 DEF Placed, Creating, Removing
<1>4. shown' \subseteq ConnIds \X (Nat \ {0})
  BY <1>2, PagesTyped
<1> QED
  BY <1>2, <1>3, <1>4 DEF IInv

LEMMA NoDocGood ==
    NoDoc \in Doc /\ DocOK(NoDoc) /\ IdsOf(NoDoc) = {} /\ NoDoc.conns = {}
<1>1. /\ NoDoc.users = {} /\ NoDoc.conns = {} /\ NoDoc.codes = {}
      /\ NoDoc.tokens = {} /\ NoDoc.servers = <<>> /\ NoDoc.uses = [c \in Codes |-> 0]
  BY DEF NoDoc
<1>2. NoDoc \in Doc
  BY EmptySeq DEF NoDoc, Doc
<1>3. DOMAIN NoDoc.servers = {}
  BY <1>1
<1>4. IsFiniteSet(NoDoc.users)
  BY <1>1, FS_EmptySet
<1>5. QuotaOK(NoDoc)
  <2>1. \A code \in Codes : Admitted(NoDoc, code) = {} /\ NoDoc.uses[code] = 0
    BY <1>1 DEF Admitted
  <2> QED
    BY <2>1, FS_EmptySet, MaxUsesAssumption DEF QuotaOK
<1> QED
  BY <1>1, <1>2, <1>3, <1>4, <1>5 DEF DocOK, IdsOK, IdsOf, UserIdsOf

\* Saving a good document and returning.
LEMMA SavedOK ==
    ASSUME IInv, NEW s \in Sessions, NEW d \in Doc, DocOK(d),
           SaveAndReturn(s, d),
           IdsOf(d) \subseteq issued', issued \subseteq issued', issued' \subseteq AllIds,
           peers' \in [ConnIds -> Peer], acked' \in Acks,
           \A t \in Sessions \ {s} : Creating(t) => \A c \in d.conns : c.id # conn[t].id
    PROVE  StepOK(s)
<1>1. /\ store' = d
      /\ pc' = [pc EXCEPT ![s] = "idle"] /\ data' = [data EXCEPT ![s] = NoDoc]
      /\ conn' = [conn EXCEPT ![s] = NoConn] /\ left' = [left EXCEPT ![s] = {}]
      /\ visit' = [visit EXCEPT ![s] = NoVisit]
      /\ loop' \in {loop, s, Free} /\ loop' \in Tasks \cup {Free}
  BY DEF SaveAndReturn, Done, Goto, Yield, IInv, WorkOK
<1>2. /\ pc'[s] = "idle" /\ data'[s] = NoDoc /\ conn'[s] = NoConn
      /\ left'[s] = {} /\ visit'[s] = NoVisit
  BY <1>1 DEF IInv, WorkOK
<1>3. WorkOK'
  BY <1>1, NoDocGood, Blanks DEF IInv, WorkOK, Stages, AllIds
<1>4. Good(store)' /\ Good(data[s])'
  BY <1>1, <1>2, NoDocGood DEF Good
<1>5. Placed(s)'
  BY <1>2 DEF Placed, Creating, Removing, CreatingStages, RemovingStages, PlacedStages
<1>6. \A c \in store'.conns \cup data'[s].conns : c \in d.conns
  BY <1>1, <1>2, NoDocGood
<1> QED
  BY <1>1, <1>2, <1>3, <1>4, <1>5, <1>6 DEF StepOK

\* The usual case: the document is an edit of the handler's own copy that adds
\* no connection.
LEMMA EditSavedOK ==
    ASSUME IInv, NEW s \in Sessions, NEW d \in Doc, DocOK(d),
           SaveAndReturn(s, d),
           IdsOf(d) \subseteq issued', issued \subseteq issued', issued' \subseteq AllIds,
           peers' \in [ConnIds -> Peer], acked' \in Acks,
           \A e \in d.conns : \E c \in data[s].conns : c.id = e.id
    PROVE  StepOK(s)
<1>1. ASSUME NEW t \in Sessions \ {s}, Creating(t), NEW c \in d.conns
      PROVE  c.id # conn[t].id
  BY <1>1 DEF IInv, Placed, Pending
<1> QED
  BY <1>1, SavedOK

\* Any other step of a session: its copy is the old one, the stored document
\* or an edit of one that adds no connection, and a connection it is creating
\* either was its own before or has an id nobody had.
LEMMA WorkedOK ==
    ASSUME IInv, NEW s \in Sessions, NEW d \in Doc, NEW k \in Target,
           NEW l \in SUBSET Conn, NEW v \in Visit, NEW stage \in Stages,
           pc' = [pc EXCEPT ![s] = stage], data' = [data EXCEPT ![s] = d],
           conn' = [conn EXCEPT ![s] = k], left' = [left EXCEPT ![s] = l],
           visit' = [visit EXCEPT ![s] = v],
           loop' \in Tasks \cup {Free}, peers' \in [ConnIds -> Peer],
           acked' \in Acks, issued \subseteq issued', issued' \subseteq AllIds,
           store' \in {store, d}, DocOK(d), IdsOf(d) \subseteq issued',
           \A e \in d.conns : \E c \in store.conns \cup data[s].conns : c.id = e.id,
           stage \in CreatingStages =>
               /\ k \in Conn
               /\ (k = conn[s] /\ Creating(s)) \/ k.id \in issued' \ issued,
           stage \in RemovingStages => k.id \in ConnIds,
           stage \in PlacedStages => k.srv \in DOMAIN d.servers,
           stage \notin VisitStages => v = NoVisit
    PROVE  StepOK(s)
<1>1. /\ pc'[s] = stage /\ data'[s] = d /\ conn'[s] = k
      /\ left'[s] = l /\ visit'[s] = v
  BY DEF IInv, WorkOK
<1>2. WorkOK'
  BY DEF IInv, WorkOK, AllIds
<1>3. Good(store)' /\ Good(data[s])'
  BY <1>1 DEF Good, IInv
<1>4. \A c \in store'.conns \cup data'[s].conns :
          \E x \in store.conns \cup data[s].conns : x.id = c.id
  BY <1>1
<1>5. ASSUME NEW t \in Sessions, Creating(t), NEW c \in store'.conns \cup data'[s].conns
      PROVE  c.id # conn[t].id
  BY <1>4, <1>5 DEF IInv, Placed, Pending
<1>6. Creating(s)' => Pending(s)'
  <2> SUFFICES ASSUME Creating(s)' PROVE Pending(s)'
    OBVIOUS
  <2>1. /\ k \in Conn
        /\ (k = conn[s] /\ Creating(s)) \/ k.id \in issued' \ issued
    BY <1>1 DEF Creating
  <2>2. \A t \in Sessions : t # s => /\ pc'[t] = pc[t] /\ data'[t] = data[t]
                                    /\ conn'[t] = conn[t]
    BY DEF IInv, WorkOK
  <2>3. CASE k = conn[s] /\ Creating(s)
    <3>1. Pending(s)
      BY <2>3 DEF IInv, Placed
    <3>2. \A c \in store'.conns : c.id # k.id
      BY <1>5, <2>3
    <3>3. \A t \in Sessions : \A c \in data'[t].conns : c.id # k.id
      BY <1>5, <2>2, <2>3, <3>1 DEF Pending
    <3>4. \A t \in Sessions : Creating(t)' /\ conn'[t].id = k.id => t = s
      BY <2>2, <2>3, <3>1 DEF Pending, Creating
    <3> QED
      BY <1>1, <2>1, <2>3, <3>1, <3>2, <3>3, <3>4 DEF Pending
  <2>4. CASE k.id \in issued' \ issued
    <3>1. \A t \in Sessions : \A c \in data[t].conns : c.id \in issued
      BY DEF IInv, Good, IdsOf
    <3>2. \A c \in store.conns : c.id \in issued
      BY DEF IInv, Good, IdsOf
    <3>3. \A c \in store'.conns \cup d.conns : c.id \in issued
      BY <1>1, <1>4, <3>1, <3>2
    <3>4. \A t \in Sessions : \A c \in data'[t].conns : c.id # k.id
      BY <1>1, <2>2, <2>4, <3>1, <3>3
    <3>5. \A t \in Sessions : Creating(t)' /\ conn'[t].id = k.id => t = s
      BY <2>2, <2>4 DEF IInv, Placed, Pending, Creating
    <3> QED
      BY <1>1, <2>1, <2>4, <3>3, <3>4, <3>5 DEF Pending
  <2> QED
    BY <2>1, <2>3, <2>4
<1>7. Placed(s)'
  BY <1>1, <1>6 DEF Placed, Removing
<1> QED
  BY <1>1, <1>2, <1>3, <1>5, <1>7 DEF StepOK

-----------------------------------------------------------------------------
(* The actions *)

LEMMA Copies ==
    ASSUME IInv, NEW s \in Sessions
    PROVE  /\ data[s] \in Doc /\ DocOK(data[s]) /\ IdsOf(data[s]) \subseteq issued
           /\ store \in Doc /\ DocOK(store) /\ IdsOf(store) \subseteq issued
           /\ UserIdsOf(data[s]) \subseteq UserIds \cap issued
           /\ data[s].conns \subseteq Conn /\ issued \subseteq AllIds
           /\ peers \in [ConnIds -> Peer] /\ acked \in Acks
           /\ loop \in Tasks \cup {Free}
<1>1. data[s] \in Doc /\ store \in Doc /\ Good(data[s]) /\ Good(store)
  BY DEF IInv, WorkOK
<1>2. UserIdsOf(data[s]) \subseteq UserIds /\ data[s].conns \subseteq Conn
  BY <1>1 DEF Doc, User, UserIdsOf
<1>3. UserIdsOf(data[s]) \subseteq IdsOf(data[s])
  BY DEF IdsOf
<1> QED
  BY <1>1, <1>2, <1>3 DEF Good, IInv, WorkOK, AllIds

LEMMA DocumentEditsOK ==
    ASSUME IInv, NEW s \in Sessions,
           \/ CreateToken(s) \/ RevokeToken(s) \/ CreateCode(s) \/ DeleteCode(s)
           \/ ConnectServer(s) \/ RemoveServer(s) \/ MoveServers(s)
           \/ WriteBack(s) \/ PersistBackupStatus(s) \/ SaveToggle(s)
           \/ SaveRemoval(s) \/ RegisterUser(s) \/ CreateUser(s)
    PROVE  StepOK(s)
<1>0. /\ data[s] \in Doc /\ DocOK(data[s]) /\ IdsOf(data[s]) \subseteq issued
      /\ UserIdsOf(data[s]) \subseteq UserIds \cap issued
      /\ issued \subseteq AllIds
      /\ peers \in [ConnIds -> Peer] /\ acked \in Acks
  BY Copies
<1>1. CASE CreateToken(s)
  <2>1. PICK t \in Tokens \ issued :
             /\ SaveAndReturn(s, AddToken(data[s], t))
             /\ issued' = issued \cup {t} /\ peers' = peers /\ acked' = acked
    BY <1>1 DEF CreateToken
  <2> DEFINE d == AddToken(data[s], t)
  <2>2. /\ d \in Doc /\ DocOK(d) /\ IdsOf(d) \subseteq IdsOf(data[s]) \cup {t}
        /\ d.conns = data[s].conns
    BY <1>0, TokenGood
  <2> HIDE DEF d
  <2>3. issued' \subseteq AllIds /\ IdsOf(d) \subseteq issued'
    BY <1>0, <2>1, <2>2 DEF AllIds
  <2>4. SaveAndReturn(s, d)
    BY <2>1 DEF d
  <2> QED
    BY <1>0, <2>1, <2>2, <2>3, <2>4, EditSavedOK
<1>2. CASE RevokeToken(s)
  <2>1. PICK t \in data[s].tokens :
             /\ SaveAndReturn(s, DropToken(data[s], t))
             /\ acked' = [acked EXCEPT !.revoked = @ \cup {t}]
             /\ issued' = issued /\ peers' = peers
    BY <1>2 DEF RevokeToken
  <2> DEFINE d == DropToken(data[s], t)
  <2>2. t \in Tokens
    BY <1>0 DEF Doc
  <2>3. /\ d \in Doc /\ DocOK(d) /\ IdsOf(d) \subseteq IdsOf(data[s])
        /\ d.conns = data[s].conns
    BY <1>0, <2>2, TokenGood
  <2>4. acked' \in Acks
    BY <1>0, <2>1, <2>2 DEF Acks
  <2>5. SaveAndReturn(s, d)
    BY <2>1
  <2> HIDE DEF d
  <2>6. IdsOf(d) \subseteq issued'
    BY <1>0, <2>1, <2>3
  <2> QED
    BY <1>0, <2>1, <2>3, <2>4, <2>5, <2>6, EditSavedOK
<1>3. CASE CreateCode(s)
  <2>1. PICK code \in Codes \ issued :
             /\ SaveAndReturn(s, AddCode(data[s], code))
             /\ issued' = issued \cup {code} /\ peers' = peers /\ acked' = acked
    BY <1>3 DEF CreateCode
  <2> DEFINE d == AddCode(data[s], code)
  <2>2. /\ d \in Doc /\ DocOK(d) /\ IdsOf(d) \subseteq IdsOf(data[s]) \cup {code}
        /\ d.conns = data[s].conns
    BY <1>0, AddCodeGood
  <2>3. SaveAndReturn(s, d)
    BY <2>1
  <2> HIDE DEF d
  <2>4. issued' \subseteq AllIds /\ IdsOf(d) \subseteq issued'
    BY <1>0, <2>1, <2>2 DEF AllIds
  <2> QED
    BY <1>0, <2>1, <2>2, <2>3, <2>4, EditSavedOK
<1>4. CASE DeleteCode(s)
  <2>1. PICK code \in data[s].codes :
             /\ SaveAndReturn(s, DropCode(data[s], code))
             /\ issued' = issued /\ peers' = peers /\ acked' = acked
    BY <1>4 DEF DeleteCode
  <2> DEFINE d == DropCode(data[s], code)
  <2>2. code \in Codes
    BY <1>0 DEF Doc
  <2>3. /\ d \in Doc /\ DocOK(d) /\ IdsOf(d) \subseteq IdsOf(data[s])
        /\ d.conns = data[s].conns
    BY <1>0, <2>2, DropCodeGood
  <2>4. SaveAndReturn(s, d)
    BY <2>1
  <2> HIDE DEF d
  <2>5. IdsOf(d) \subseteq issued'
    BY <1>0, <2>1, <2>3
  <2> QED
    BY <1>0, <2>1, <2>3, <2>4, <2>5, EditSavedOK
<1>5. CASE ConnectServer(s)
  <2>1. PICK v \in Servers \ issued :
             /\ SaveAndReturn(s, AddServer(data[s], v))
             /\ issued' = issued \cup {v} /\ peers' = peers /\ acked' = acked
    BY <1>5 DEF ConnectServer
  <2> DEFINE d == AddServer(data[s], v)
  <2>2. /\ d \in Doc /\ DocOK(d) /\ IdsOf(d) \subseteq IdsOf(data[s]) \cup {v}
        /\ d.conns = data[s].conns
    BY <1>0, AddServerGood
  <2>3. SaveAndReturn(s, d)
    BY <2>1
  <2> HIDE DEF d
  <2>4. issued' \subseteq AllIds /\ IdsOf(d) \subseteq issued'
    BY <1>0, <2>1, <2>2 DEF AllIds
  <2> QED
    BY <1>0, <2>1, <2>2, <2>3, <2>4, EditSavedOK
<1>6. CASE RemoveServer(s)
  <2>1. PICK i \in DOMAIN data[s].servers :
             /\ SaveAndReturn(s, DeleteServer(data[s], i))
             /\ issued' = issued /\ peers' = peers /\ acked' = acked
    BY <1>6 DEF RemoveServer
  <2> DEFINE d == DeleteServer(data[s], i)
  <2>2. /\ d \in Doc /\ DocOK(d) /\ IdsOf(d) \subseteq IdsOf(data[s])
        /\ \A e \in d.conns : \E c \in data[s].conns : c.id = e.id
    BY <1>0, DeleteServerGood
  <2>3. SaveAndReturn(s, d)
    BY <2>1
  <2> HIDE DEF d
  <2>4. IdsOf(d) \subseteq issued'
    BY <1>0, <2>1, <2>2
  <2> QED
    BY <1>0, <2>1, <2>2, <2>3, <2>4, EditSavedOK
<1>7. CASE MoveServers(s)
  <2>1. PICK order \in Orders(Len(data[s].servers)) :
             /\ SaveAndReturn(s, ReorderServers(data[s], order))
             /\ issued' = issued /\ peers' = peers /\ acked' = acked
    BY <1>7 DEF MoveServers
  <2> DEFINE d == ReorderServers(data[s], order)
  <2>2. /\ d \in Doc /\ DocOK(d) /\ IdsOf(d) \subseteq IdsOf(data[s])
        /\ \A e \in d.conns : \E c \in data[s].conns : c.id = e.id
    BY <1>0, ReorderGood
  <2>3. SaveAndReturn(s, d)
    BY <2>1
  <2> HIDE DEF d
  <2>4. IdsOf(d) \subseteq issued'
    BY <1>0, <2>1, <2>2
  <2> QED
    BY <1>0, <2>1, <2>2, <2>3, <2>4, EditSavedOK
<1>8. CASE WriteBack(s) \/ PersistBackupStatus(s) \/ SaveToggle(s) \/ SaveRemoval(s)
  <2>1. /\ SaveAndReturn(s, data[s])
        /\ issued' = issued /\ peers' = peers /\ acked' = acked
    BY <1>8 DEF WriteBack, PersistBackupStatus, SaveToggle, SaveRemoval
  <2> QED
    BY <1>0, <2>1, EditSavedOK
<1>9. CASE RegisterUser(s)
  <2>1. PICK u \in UserIds \ issued, code \in Codes :
             /\ CodeValid(data[s], code)
             /\ SaveAndReturn(s, Register(data[s], u, code))
             /\ issued' = issued \cup {u} /\ peers' = peers /\ acked' = acked
    BY <1>9 DEF RegisterUser
  <2> DEFINE d == Register(data[s], u, code)
  <2>2. u \notin UserIdsOf(data[s])
    BY <1>0
  <2>3. /\ d \in Doc /\ DocOK(d) /\ IdsOf(d) \subseteq IdsOf(data[s]) \cup {u}
    BY <1>0, <2>1, <2>2, RegisterGood
  <2>4. d.conns = data[s].conns
    BY <1>0 DEF Register, AddUser, Doc
  <2>5. SaveAndReturn(s, d)
    BY <2>1
  <2> HIDE DEF d
  <2>6. issued' \subseteq AllIds /\ IdsOf(d) \subseteq issued'
    BY <1>0, <2>1, <2>3 DEF AllIds
  <2> QED
    BY <1>0, <2>1, <2>3, <2>4, <2>5, <2>6, EditSavedOK
<1>10. CASE CreateUser(s)
  <2>1. PICK u \in UserIds \ issued :
             /\ SaveAndReturn(s, AddUser(data[s], u, NoCode))
             /\ issued' = issued \cup {u} /\ peers' = peers /\ acked' = acked
    BY <1>10 DEF CreateUser
  <2> DEFINE d == AddUser(data[s], u, NoCode)
  <2>2. u \notin UserIdsOf(data[s])
    BY <1>0
  <2>3. /\ d \in Doc /\ DocOK(d) /\ IdsOf(d) \subseteq IdsOf(data[s]) \cup {u}
    BY <1>0, <2>2, AddUserGood
  <2>4. d.conns = data[s].conns
    BY <1>0, AddUserFields
  <2>5. SaveAndReturn(s, d)
    BY <2>1
  <2> HIDE DEF d
  <2>6. issued' \subseteq AllIds /\ IdsOf(d) \subseteq issued'
    BY <1>0, <2>1, <2>3 DEF AllIds
  <2> QED
    BY <1>0, <2>1, <2>3, <2>4, <2>5, <2>6, EditSavedOK
<1> QED
  BY <1>1, <1>2, <1>3, <1>4, <1>5, <1>6, <1>7, <1>8, <1>9, <1>10

LEMMA ReturnsOK ==
    ASSUME IInv, NEW s \in Sessions,
           \/ RecordConnection(s) \/ DropConnection(s) \/ Unlist(s)
           \/ Refuse(s) \/ RemoteFails(s)
    PROVE  StepOK(s)
<1>0. /\ data[s] \in Doc /\ DocOK(data[s]) /\ IdsOf(data[s]) \subseteq issued
      /\ store \in Doc /\ DocOK(store) /\ IdsOf(store) \subseteq issued
      /\ issued \subseteq AllIds
      /\ peers \in [ConnIds -> Peer] /\ acked \in Acks
  BY Copies
<1>1. CASE RecordConnection(s)
  <2> DEFINE d == AddConn(data[s], conn[s])
  <2>1. /\ pc[s] = "recording" /\ SaveAndReturn(s, d)
        /\ issued' = issued /\ peers' = peers /\ acked' = acked
    BY <1>1 DEF RecordConnection
  <2>2. Pending(s)
    BY <2>1 DEF IInv, Placed, Creating, CreatingStages
  <2>3. /\ conn[s] \in Conn /\ conn[s].id \in issued
        /\ \A x \in data[s].conns : x.id # conn[s].id
    BY <2>2 DEF Pending
  <2>4. /\ d \in Doc /\ DocOK(d) /\ IdsOf(d) \subseteq IdsOf(data[s]) \cup {conn[s].id}
        /\ d.conns = data[s].conns \cup {conn[s]}
    BY <1>0, <2>3, AddConnGood
  <2> HIDE DEF d
  <2>5. IdsOf(d) \subseteq issued'
    BY <1>0, <2>1, <2>3, <2>4
  <2>6. ASSUME NEW t \in Sessions \ {s}, Creating(t), NEW c \in d.conns
        PROVE  c.id # conn[t].id
    <3>1. Pending(t)
      BY <2>6 DEF IInv, Placed
    <3>2. conn[s].id # conn[t].id
      BY <2>1, <2>6, <3>1 DEF Pending, Creating, CreatingStages
    <3> QED
      BY <2>4, <2>6, <3>1, <3>2 DEF Pending
  <2> QED
    BY <1>0, <2>1, <2>4, <2>5, <2>6, SavedOK
<1>2. CASE DropConnection(s)
  <2> DEFINE kept == {c \in data[s].conns : c.id # conn[s].id}
             d == [data[s] EXCEPT !.conns = kept]
  <2>1. /\ pc[s] = "dropping" /\ SaveAndReturn(s, d)
        /\ acked' = [acked EXCEPT !.deleted = @ \cup {conn[s].id},
                                  !.dropped = @ \cup {conn[s].id}]
        /\ issued' = issued /\ peers' = peers
    BY <1>2 DEF DropConnection, DropConn
  <2>2. /\ d \in Doc /\ DocOK(d) /\ IdsOf(d) \subseteq IdsOf(data[s])
        /\ d.conns = kept
    BY <1>0, FewerConnsGood
  <2>3. conn[s].id \in ConnIds
    BY <2>1 DEF IInv, Placed, Removing, RemovingStages
  <2>4. acked' \in Acks
    BY <1>0, <2>1, <2>3 DEF Acks
  <2>5. \A e \in d.conns : \E c \in data[s].conns : c.id = e.id
    BY <2>2
  <2> HIDE DEF d
  <2>6. IdsOf(d) \subseteq issued'
    BY <1>0, <2>1, <2>2
  <2> QED
    BY <1>0, <2>1, <2>2, <2>4, <2>5, <2>6, EditSavedOK
<1>3. CASE Unlist(s)
  <2> DEFINE gone == {c \in data[s].conns : c.id = conn[s].id /\ c.srv = conn[s].srv}
             kept == data[s].conns \ gone
             d == [data[s] EXCEPT !.conns = kept]
  <2>1. /\ pc[s] = "unlisting" /\ SaveAndReturn(s, d)
        /\ acked' = [acked EXCEPT !.deleted = @ \cup {conn[s].id},
                                  !.dropped = @ \cup {c.id : c \in gone}]
        /\ issued' = issued /\ peers' = peers
    BY <1>3 DEF Unlist
  <2>2. /\ d \in Doc /\ DocOK(d) /\ IdsOf(d) \subseteq IdsOf(data[s])
        /\ d.conns = kept
    BY <1>0, FewerConnsGood
  <2>3. conn[s].id \in ConnIds
    BY <2>1 DEF IInv, Placed, Removing, RemovingStages
  <2>4. acked' \in Acks
    <3>1. {c.id : c \in gone} \subseteq ConnIds
      BY <1>0 DEF Doc, Conn
    <3> HIDE DEF gone
    <3> QED
      BY <1>0, <2>1, <2>3, <3>1 DEF Acks
  <2>5. \A e \in d.conns : \E c \in data[s].conns : c.id = e.id
    BY <2>2
  <2> HIDE DEF d
  <2>6. IdsOf(d) \subseteq issued'
    BY <1>0, <2>1, <2>2
  <2> QED
    BY <1>0, <2>1, <2>2, <2>4, <2>5, <2>6, EditSavedOK
<1>4. CASE Refuse(s) \/ RemoteFails(s)
  <2>1. /\ SaveAndReturn(s, store)
        /\ issued' = issued /\ peers' = peers /\ acked' = acked
    BY <1>4 DEF Refuse, RemoteFails, SaveAndReturn
  <2>2. \A t \in Sessions : Creating(t) => \A c \in store.conns : c.id # conn[t].id
    BY DEF IInv, Placed, Pending
  <2> QED
    BY <1>0, <2>1, <2>2, SavedOK
<1> QED
  BY <1>1, <1>2, <1>3, <1>4

\* A session's own entries are what the functions hold for it.
LEMMA OwnEntries ==
    ASSUME IInv, NEW s \in Sessions
    PROVE  /\ pc = [pc EXCEPT ![s] = pc[s]] /\ data = [data EXCEPT ![s] = data[s]]
           /\ conn = [conn EXCEPT ![s] = conn[s]] /\ left = [left EXCEPT ![s] = left[s]]
           /\ pc[s] \in Stages /\ conn[s] \in Target
           /\ visit = [visit EXCEPT ![s] = visit[s]] /\ visit[s] \in Visit
           /\ pc[s] \notin VisitStages => visit[s] = NoVisit
           /\ left[s] \in SUBSET Conn
           /\ store \in {store, data[s]}
           /\ \A e \in data[s].conns : \E c \in store.conns \cup data[s].conns : c.id = e.id
           /\ s \in Tasks => (IF s \in Tasks THEN s ELSE loop) \in Tasks \cup {Free}
           /\ (IF s \in Tasks THEN s ELSE loop) \in Tasks \cup {Free}
           /\ (IF s \in Tasks THEN Free ELSE loop) \in Tasks \cup {Free}
BY DEF IInv, WorkOK, Placed

LEMMA LoadsOK ==
    ASSUME IInv, NEW s \in Sessions, Load(s) \/ Reload(s)
    PROVE  StepOK(s)
<1>0. /\ store \in Doc /\ DocOK(store) /\ IdsOf(store) \subseteq issued
      /\ issued \subseteq AllIds
      /\ peers \in [ConnIds -> Peer] /\ acked \in Acks
  BY Copies
<1>1. /\ conn = [conn EXCEPT ![s] = conn[s]] /\ left = [left EXCEPT ![s] = left[s]]
      /\ conn[s] \in Target /\ left[s] \in SUBSET Conn
      /\ visit = [visit EXCEPT ![s] = visit[s]] /\ visit[s] \in Visit
      /\ pc[s] \notin VisitStages => visit[s] = NoVisit
      /\ (IF s \in Tasks THEN s ELSE loop) \in Tasks \cup {Free}
  BY OwnEntries
<1>2. PICK stage \in {"loaded", "recording", "dropping"} :
        /\ pc' = [pc EXCEPT ![s] = stage]
        /\ pc[s] \in {"idle", "added", "removed"}
        /\ stage = "recording" => pc[s] = "added"
        /\ stage = "dropping" => pc[s] = "removed"
  BY DEF Load, Reload, Goto
<1>3. /\ data' = [data EXCEPT ![s] = store] /\ store' = store /\ peers' = peers
      /\ conn' = conn /\ left' = left /\ visit' = visit /\ issued' = issued /\ acked' = acked
      /\ loop' = IF s \in Tasks THEN s ELSE loop
  BY DEF Load, Reload, Hold
<1>4. /\ stage \in CreatingStages => conn[s] \in Conn /\ Creating(s)
      /\ stage \in RemovingStages => conn[s].id \in ConnIds
      /\ stage \notin PlacedStages /\ stage \notin VisitStages
      /\ visit[s] = NoVisit
      /\ stage \in Stages
  BY <1>1, <1>2 DEF IInv, Placed, Pending, Creating, Removing, CreatingStages,
              RemovingStages, PlacedStages, VisitStages, Stages
<1> QED
  BY <1>0, <1>1, <1>2, <1>3, <1>4, WorkedOK

LEMMA CreationsOK ==
    ASSUME IInv, NEW s \in Sessions,
           BotCreate(s) \/ AdminCreate(s) \/ AdminAppend(s) \/ CreateUserWithConnection(s)
    PROVE  StepOK(s)
<1>0. /\ data[s] \in Doc /\ DocOK(data[s]) /\ IdsOf(data[s]) \subseteq issued
      /\ UserIdsOf(data[s]) \subseteq UserIds \cap issued
      /\ issued \subseteq AllIds
      /\ peers \in [ConnIds -> Peer] /\ acked \in Acks /\ loop \in Tasks \cup {Free}
  BY Copies
<1>1. /\ data = [data EXCEPT ![s] = data[s]] /\ left = [left EXCEPT ![s] = left[s]]
      /\ left[s] \in SUBSET Conn
      /\ \A e \in data[s].conns : \E c \in store.conns \cup data[s].conns : c.id = e.id
      /\ (IF s \in Tasks THEN Free ELSE loop) \in Tasks \cup {Free}
      /\ visit = [visit EXCEPT ![s] = visit[s]] /\ visit[s] = NoVisit /\ NoVisit \in Visit
  <2>1. pc[s] = "loaded"
    BY DEF BotCreate, AdminCreate, AdminAppend, CreateUserWithConnection, Ready
  <2> QED
    BY <2>1, OwnEntries, Blanks DEF VisitStages
<1>2. \A i \in DOMAIN data[s].servers : i \in Nat \ {0}
  BY <1>0, LenProperties DEF Doc
<1>3. CASE BotCreate(s) \/ AdminCreate(s) \/ AdminAppend(s)
  <2>1. PICK stage \in {"adding", "appending"}, u \in UserIds \cap issued,
             i \in DOMAIN data[s].servers :
               /\ Begin(s, stage, u, i)
               /\ store' = store /\ data' = data /\ left' = left /\ visit' = visit
               /\ peers' = peers /\ acked' = acked
               /\ loop' \in {loop, IF s \in Tasks THEN Free ELSE loop}
    BY <1>0, <1>3 DEF BotCreate, AdminCreate, AdminAppend, Yield
  <2>2. PICK id \in ConnIds \ issued :
               /\ conn' = [conn EXCEPT ![s] = [id |-> id, user |-> u, srv |-> i]]
               /\ issued' = issued \cup {id}
               /\ pc' = [pc EXCEPT ![s] = stage]
    BY <2>1 DEF Begin, Goto
  <2> DEFINE k == [id |-> id, user |-> u, srv |-> i]
  <2>3. /\ k \in Conn /\ k \in Target
        /\ k.id \in issued' \ issued /\ k.srv \in DOMAIN data[s].servers
    BY <1>2, <2>2, Blanks DEF Conn
  <2>4. /\ issued \subseteq issued' /\ issued' \subseteq AllIds
        /\ IdsOf(data[s]) \subseteq issued'
    BY <1>0, <2>2 DEF AllIds
  <2>5. stage \in Stages /\ stage \notin RemovingStages
    BY DEF Stages, RemovingStages
  <2>6. conn' = [conn EXCEPT ![s] = k]
    BY <2>2
  <2> HIDE DEF k
  <2>7. /\ store' = store /\ data' = data /\ left' = left /\ visit' = visit
        /\ peers' = peers /\ acked' = acked
        /\ loop' \in Tasks \cup {Free}
    BY <1>0, <1>1, <2>1
  <2>8. pc' = [pc EXCEPT ![s] = stage]
    BY <2>2
  <2> QED
    BY <1>0, <1>1, <2>3, <2>4, <2>5, <2>6, <2>7, <2>8, WorkedOK
<1>4. CASE CreateUserWithConnection(s)
  <2>1. PICK u \in UserIds \ issued, i \in DOMAIN data[s].servers, id \in ConnIds \ issued :
             /\ store' = AddUser(data[s], u, NoCode)
             /\ data' = [data EXCEPT ![s] = AddUser(data[s], u, NoCode)]
             /\ conn' = [conn EXCEPT ![s] = [id |-> id, user |-> u, srv |-> i]]
             /\ issued' = issued \cup {u, id}
             /\ pc' = [pc EXCEPT ![s] = "adding"]
             /\ peers' = peers /\ loop' = loop /\ left' = left /\ visit' = visit
             /\ acked' = acked
    BY <1>4 DEF CreateUserWithConnection, Goto
  <2> DEFINE d == AddUser(data[s], u, NoCode)
             k == [id |-> id, user |-> u, srv |-> i]
  <2>2. u \notin UserIdsOf(data[s])
    BY <1>0
  <2>3. /\ d \in Doc /\ DocOK(d) /\ IdsOf(d) \subseteq IdsOf(data[s]) \cup {u}
    BY <1>0, <2>2, AddUserGood
  <2>4. d.conns = data[s].conns /\ d.servers = data[s].servers
    BY <1>0, AddUserFields
  <2>5. /\ k \in Conn /\ k \in Target
        /\ k.id \in issued' \ issued /\ k.srv \in DOMAIN data[s].servers
    BY <1>2, <2>1, Blanks DEF Conn
  <2>6. /\ store' = d /\ data' = [data EXCEPT ![s] = d]
        /\ conn' = [conn EXCEPT ![s] = k]
    BY <2>1
  <2> HIDE DEF d, k
  <2>7. /\ issued \subseteq issued' /\ issued' \subseteq AllIds
        /\ IdsOf(d) \subseteq issued'
    BY <1>0, <2>1, <2>3 DEF AllIds
  <2>8. "adding" \in Stages /\ "adding" \notin RemovingStages
    BY DEF Stages, RemovingStages
  <2>9. /\ \A e \in d.conns : \E c \in store.conns \cup data[s].conns : c.id = e.id
        /\ k.srv \in DOMAIN d.servers
    BY <1>1, <2>4, <2>5
  <2> QED
    BY <1>0, <1>1, <2>1, <2>3, <2>5, <2>6, <2>7, <2>8, <2>9, WorkedOK
<1> QED
  BY <1>3, <1>4

\* A visit to the server of connection c: skipped (nothing is read), or begun
\* with peers that work there.
Visits(s, c, v, k) ==
    /\ pc[s] \in {"enabling", "disabling", "purging"} /\ visit[s] = NoVisit
    /\ left' = [left EXCEPT ![s] = left[s] \ {c}]
    /\ visit' = [visit EXCEPT ![s] = v] /\ conn' = [conn EXCEPT ![s] = k]
    /\ \/ v = visit[s] /\ k = conn[s]
       \/ /\ Within(data[s], c) /\ k = c
          /\ v.at = data[s].servers[c.srv]
          /\ \A i \in v.seen : peers[i].at = v.at
    /\ pc' = pc /\ store' = store /\ loop' = loop /\ data' = data
    /\ peers' = peers /\ issued' = issued /\ acked' = acked

LEMMA PeerVisits ==
    ASSUME IInv, NEW s \in Sessions, VisitPeer(s)
    PROVE  \E c \in left[s], v \in Visit, k \in Target : Visits(s, c, v, k)
<1>1. /\ visit = [visit EXCEPT ![s] = visit[s]] /\ conn = [conn EXCEPT ![s] = conn[s]]
      /\ visit[s] \in Visit /\ conn[s] \in Target /\ left[s] \in SUBSET Conn
  BY OwnEntries
<1>2. PICK c \in left[s], reached \in BOOLEAN :
        LET m == data[s].servers[c.srv]
            listed == {i \in {c.id} : peers[i].at = m}
        IN  /\ pc[s] \in {"enabling", "disabling", "purging"}
            /\ visit[s] = NoVisit
            /\ left' = [left EXCEPT ![s] = left[s] \ {c}]
            /\ IF reached /\ Within(data[s], c)
               THEN /\ Enter(s, m, IF pc[s] = "enabling" THEN listed ELSE Working(m))
                    /\ conn' = [conn EXCEPT ![s] = c]
               ELSE UNCHANGED <<visit, conn>>
            /\ pc' = pc /\ store' = store /\ loop' = loop /\ data' = data
            /\ peers' = peers /\ issued' = issued /\ acked' = acked
  BY DEF VisitPeer
<1>3. c \in Conn /\ c \in Target /\ c.id \in ConnIds
  BY <1>1, Blanks DEF Conn
<1>4. CASE reached /\ Within(data[s], c)
  <2> DEFINE m == data[s].servers[c.srv]
             seen == IF pc[s] = "enabling" THEN {i \in {c.id} : peers[i].at = m}
                                           ELSE Working(m)
             v == [at |-> m, seen |-> seen]
  <2>1. visit' = [visit EXCEPT ![s] = v] /\ conn' = [conn EXCEPT ![s] = c]
    BY <1>2, <1>4 DEF Enter
  <2>2. \A i \in seen : i \in ConnIds /\ peers[i].at = m
    BY <1>3, OwnEntries DEF Working, IInv, WorkOK, Peer
  <2>3. data[s].servers \in Seq(Servers) /\ c.srv \in DOMAIN data[s].servers
    BY <1>4, Copies DEF Within, Doc
  <2>4. m \in Servers
    BY <2>3, LenProperties, ElementOfSeq
  <2>5. v \in Visit /\ v.at = m /\ \A i \in v.seen : peers[i].at = v.at
    BY <2>2, <2>4 DEF Visit
  <2> HIDE DEF v, seen
  <2> QED
    BY <1>2, <1>3, <1>4, <2>1, <2>5 DEF Visits
<1>5. CASE ~ (reached /\ Within(data[s], c))
  BY <1>1, <1>2, <1>5 DEF Visits
<1> QED
  BY <1>4, <1>5

LEMMA PeerStepsOK ==
    ASSUME IInv, NEW s \in Sessions,
           \/ AddPeer(s) \/ ReadConfig(s) \/ RemovePeer(s)
           \/ VisitPeer(s) \/ TogglePeer(s) \/ PurgePeer(s)
    PROVE  StepOK(s)
<1>0. /\ data[s] \in Doc /\ DocOK(data[s]) /\ IdsOf(data[s]) \subseteq issued
      /\ issued \subseteq AllIds
      /\ peers \in [ConnIds -> Peer] /\ acked \in Acks /\ loop \in Tasks \cup {Free}
  BY Copies
<1>1. /\ data = [data EXCEPT ![s] = data[s]] /\ left = [left EXCEPT ![s] = left[s]]
      /\ conn = [conn EXCEPT ![s] = conn[s]] /\ pc = [pc EXCEPT ![s] = pc[s]]
      /\ pc[s] \in Stages
      /\ left[s] \in SUBSET Conn /\ conn[s] \in Target
      /\ visit = [visit EXCEPT ![s] = visit[s]] /\ visit[s] \in Visit
      /\ pc[s] \notin VisitStages => visit[s] = NoVisit
      /\ \A e \in data[s].conns : \E c \in store.conns \cup data[s].conns : c.id = e.id
  BY OwnEntries
<1>2. /\ pc[s] \in CreatingStages => conn[s] \in Conn
      /\ pc[s] \in RemovingStages => conn[s].id \in ConnIds
      /\ pc[s] \in CreatingStages <=> Creating(s)
      /\ pc[s] \in PlacedStages => conn[s].srv \in DOMAIN data[s].servers
  BY DEF IInv, Placed, Pending, Creating, Removing
<1>3. \A i \in DOMAIN data[s].servers : data[s].servers[i] \in Servers
  BY <1>0, LenProperties, ElementOfSeq DEF Doc
<1>4. ASSUME NEW i, NEW gone \in Peer
      PROVE  /\ Rewritten(visit[s], i, gone) \in [ConnIds -> Peer]
             /\ Appended(visit[s]) \in [ConnIds -> Peer]
  BY <1>0, <1>1 DEF Rewritten, Appended, Visit, Peer
<1>5. CASE AddPeer(s)
  <2>1. /\ pc[s] \in {"adding", "appending"}
        /\ peers' = [peers EXCEPT ![conn[s].id] =
                        [at |-> data[s].servers[conn[s].srv], on |-> TRUE]]
        /\ store' = store /\ loop' = loop /\ data' = data /\ conn' = conn
        /\ left' = left /\ visit' = visit /\ issued' = issued /\ acked' = acked
    BY <1>5 DEF AddPeer
  <2>2. PICK stage \in {"added", "recording"} : pc' = [pc EXCEPT ![s] = stage]
    BY <1>5 DEF AddPeer, Goto
  <2>3. conn[s] \in Conn /\ Creating(s) /\ conn[s].srv \in DOMAIN data[s].servers
    BY <1>2, <2>1 DEF CreatingStages, PlacedStages
  <2>4. [at |-> data[s].servers[conn[s].srv], on |-> TRUE] \in Peer
    BY <1>3, <2>3 DEF Peer
  <2>5. peers' \in [ConnIds -> Peer]
    BY <1>0, <2>1, <2>4
  <2>6. /\ stage \in Stages /\ stage \notin RemovingStages
        /\ stage \notin PlacedStages /\ visit[s] = NoVisit
    BY <1>1, <2>1, <2>2 DEF Stages, RemovingStages, PlacedStages, VisitStages
  <2> QED
    BY <1>0, <1>1, <2>1, <2>2, <2>3, <2>5, <2>6, WorkedOK
<1>6. CASE ReadConfig(s)
  <2>1. /\ pc[s] \in {"deleting", "removing"}
        /\ store' = store /\ loop' = loop /\ data' = data /\ conn' = conn
        /\ pc' = pc /\ peers' = peers
        /\ left' = left /\ issued' = issued /\ acked' = acked
    BY <1>6 DEF ReadConfig
  <2> DEFINE m == data[s].servers[conn[s].srv]
             v == [at |-> m, seen |-> Working(m)]
  <2>2. visit' = [visit EXCEPT ![s] = v]
    BY <1>6 DEF ReadConfig, Enter
  <2>3. conn[s].srv \in DOMAIN data[s].servers
    BY <1>2, <2>1 DEF PlacedStages
  <2>4. v \in Visit
    BY <1>3, <2>3 DEF Visit, Working
  <2> HIDE DEF v, m
  <2>5. /\ pc[s] \notin CreatingStages /\ pc[s] \in VisitStages
        /\ conn[s].id \in ConnIds
    BY <1>2, <2>1 DEF CreatingStages, RemovingStages, VisitStages
  <2> QED
    BY <1>0, <1>1, <1>2, <2>1, <2>2, <2>4, <2>5, WorkedOK
<1>7. CASE RemovePeer(s)
  <2>1. /\ pc[s] \in {"deleting", "removing"}
        /\ peers' = Rewritten(visit[s], conn[s].id, NoPeer)
        /\ visit' = [visit EXCEPT ![s] = NoVisit]
        /\ acked' \in {acked, [acked EXCEPT !.raced = @ \cup {conn[s].id}]}
        /\ store' = store /\ loop' = loop /\ data' = data /\ conn' = conn
        /\ left' = left /\ issued' = issued
    BY <1>7 DEF RemovePeer
  <2>2. PICK stage \in {"removed", "unlisting"} : pc' = [pc EXCEPT ![s] = stage]
    BY <1>7 DEF RemovePeer, Goto
  <2>3. conn[s].id \in ConnIds
    BY <1>2, <2>1 DEF RemovingStages
  <2>4. peers' \in [ConnIds -> Peer]
    BY <1>4, <2>1, Blanks
  <2>5. acked' \in Acks
    BY <1>0, <2>1, <2>3 DEF Acks
  <2>6. /\ stage \in Stages /\ stage \notin CreatingStages
        /\ stage \notin PlacedStages /\ NoVisit \in Visit
    BY <2>2, Blanks DEF Stages, CreatingStages, PlacedStages
  <2> QED
    BY <1>0, <1>1, <2>1, <2>2, <2>3, <2>4, <2>5, <2>6, WorkedOK
<1>8. CASE VisitPeer(s)
  <2>1. PICK c \in left[s], v \in Visit, k \in Target : Visits(s, c, v, k)
    BY <1>8, PeerVisits
  <2>2. c \in Conn /\ left[s] \ {c} \in SUBSET Conn
    BY <1>1, <2>1
  <2>3. /\ pc[s] \notin CreatingStages /\ pc[s] \notin RemovingStages
        /\ pc[s] \notin PlacedStages /\ pc[s] \in VisitStages
    BY <2>1 DEF Visits, CreatingStages, RemovingStages, PlacedStages, VisitStages
  <2> QED
    BY <1>0, <1>1, <2>1, <2>2, <2>3, WorkedOK DEF Visits
<1>9. CASE TogglePeer(s) \/ PurgePeer(s)
  <2>1. /\ pc[s] \in {"enabling", "disabling", "purging"}
        /\ \/ peers' = peers \/ peers' = Appended(visit[s])
           \/ \E gone \in Peer : peers' = Rewritten(visit[s], conn[s].id, gone)
    <3>1. [at |-> visit[s].at, on |-> FALSE] \in Peer
      BY <1>1 DEF Visit, Peer
    <3> QED
      BY <1>9, <3>1, Blanks DEF TogglePeer, PurgePeer
  <2>2. /\ pc' = pc /\ store' = store /\ loop' = loop /\ data' = data
        /\ left' = left /\ issued' = issued /\ acked' = acked
        /\ conn' = [conn EXCEPT ![s] = NoConn]
        /\ visit' = [visit EXCEPT ![s] = NoVisit]
    BY <1>9 DEF TogglePeer, PurgePeer, Leave
  <2>3. peers' \in [ConnIds -> Peer]
    <3>1. Appended(visit[s]) \in [ConnIds -> Peer]
      BY <1>4, Blanks
    <3>2. ASSUME NEW gone \in Peer
          PROVE  Rewritten(visit[s], conn[s].id, gone) \in [ConnIds -> Peer]
      BY <1>4
    <3> QED
      BY <1>0, <2>1, <3>1, <3>2
  <2>4. NoConn \in Target /\ NoVisit \in Visit
    BY Blanks
  <2>5. /\ pc[s] \notin CreatingStages /\ pc[s] \notin RemovingStages
        /\ pc[s] \notin PlacedStages
    BY <2>1 DEF CreatingStages, RemovingStages, PlacedStages
  <2> QED
    BY <1>0, <1>1, <2>1, <2>2, <2>3, <2>4, <2>5, WorkedOK
<1> QED
  BY <1>5, <1>6, <1>7, <1>8, <1>9

LEMMA StartsOK ==
    ASSUME IInv, NEW s \in Sessions,
           \/ StartBackup(s) \/ ToggleUser(s) \/ RaiseLimit(s)
           \/ BotDelete(s) \/ AdminRemove(s) \/ RemoveUser(s)
    PROVE  StepOK(s)
<1>0. /\ data[s] \in Doc /\ DocOK(data[s]) /\ IdsOf(data[s]) \subseteq issued
      /\ UserIdsOf(data[s]) \subseteq UserIds \cap issued
      /\ issued \subseteq AllIds /\ data[s].conns \subseteq Conn
      /\ peers \in [ConnIds -> Peer] /\ acked \in Acks /\ loop \in Tasks \cup {Free}
  BY Copies
<1>1. /\ data = [data EXCEPT ![s] = data[s]] /\ left = [left EXCEPT ![s] = left[s]]
      /\ conn = [conn EXCEPT ![s] = conn[s]]
      /\ left[s] \in SUBSET Conn /\ conn[s] \in Target
      /\ \A e \in data[s].conns : \E c \in store.conns \cup data[s].conns : c.id = e.id
      /\ (IF s \in Tasks THEN Free ELSE loop) \in Tasks \cup {Free}
      /\ visit = [visit EXCEPT ![s] = visit[s]] /\ visit[s] \in Visit
      /\ visit[s] = NoVisit
  <2>1. pc[s] = "loaded"
    BY DEF StartBackup, ToggleUser, RaiseLimit, BotDelete, AdminRemove, RemoveUser, Ready
  <2> QED
    BY <2>1, OwnEntries DEF VisitStages
<1>2. ASSUME NEW u PROVE ConnsOf(data[s], u) \in SUBSET Conn
  BY <1>0 DEF ConnsOf
<1>3. CASE StartBackup(s)
  <2>1. /\ pc' = [pc EXCEPT ![s] = "uploading"]
        /\ loop' = IF s \in Tasks THEN Free ELSE loop
        /\ store' = store /\ data' = data /\ conn' = conn /\ left' = left
        /\ visit' = visit /\ peers' = peers /\ issued' = issued /\ acked' = acked
    BY <1>3 DEF StartBackup, Goto, Yield
  <2>2. /\ "uploading" \in Stages /\ "uploading" \notin CreatingStages
        /\ "uploading" \notin RemovingStages /\ "uploading" \notin PlacedStages
    BY DEF Stages, CreatingStages, RemovingStages, PlacedStages
  <2> QED
    BY <1>0, <1>1, <2>1, <2>2, WorkedOK
<1>4. ASSUME NEW u \in UserIdsOf(data[s]), NEW on \in BOOLEAN,
             StartToggle(s, u, on), store' \in {store, data[s]}
      PROVE  StepOK(s)
  <2> DEFINE d == SetEnabled(data[s], u, on)
             l == {c \in ConnsOf(data[s], u) : Within(data[s], c)}
  <2>1. /\ data' = [data EXCEPT ![s] = d] /\ left' = [left EXCEPT ![s] = l]
        /\ loop' \in Tasks \cup {Free}
        /\ conn' = conn /\ visit' = visit /\ peers' = peers
        /\ issued' = issued /\ acked' = acked
    BY <1>0, <1>4 DEF StartToggle, Hold, Yield, IInv, WorkOK
  <2>2. PICK stage \in {"enabling", "disabling"} : pc' = [pc EXCEPT ![s] = stage]
    BY <1>4 DEF StartToggle, Goto
  <2>3. /\ d \in Doc /\ DocOK(d) /\ IdsOf(d) = IdsOf(data[s])
        /\ d.conns = data[s].conns
    BY <1>0, SetEnabledGood
  <2>4. l \in SUBSET Conn
    BY <1>2
  <2>5. /\ stage \in Stages /\ stage \notin CreatingStages
        /\ stage \notin RemovingStages /\ stage \notin PlacedStages
    BY <2>2 DEF Stages, CreatingStages, RemovingStages, PlacedStages
  <2>6. /\ pc'[s] = stage /\ data'[s] = d /\ conn'[s] = conn[s]
        /\ left'[s] = l /\ visit'[s] = visit[s]
    BY <2>1, <2>2 DEF IInv, WorkOK
  <2> HIDE DEF d, l
  <2>7. store' \in Doc /\ DocOK(store') /\ IdsOf(store') \subseteq issued
    BY <1>0, <1>4, Copies
  <2>8. WorkOK'
    BY <1>1, <2>1, <2>2, <2>3, <2>4, <2>5, <2>7 DEF IInv, WorkOK
  <2>9. Good(store)' /\ Good(data[s])'
    BY <1>0, <2>1, <2>3, <2>6, <2>7 DEF Good
  <2>10. ASSUME NEW t \in Sessions, Creating(t), NEW c \in store'.conns \cup data'[s].conns
         PROVE  c.id # conn[t].id
    <3>1. Pending(t)
      BY <2>10 DEF IInv, Placed
    <3>2. c \in store.conns \cup data[s].conns
      BY <1>4, <2>3, <2>6, <2>10
    <3> QED
      BY <3>1, <3>2 DEF Pending
  <2>11. Placed(s)'
    BY <1>1, <2>5, <2>6 DEF Placed, Creating, Removing, CreatingStages
  <2> QED
    BY <1>1, <2>1, <2>2, <2>6, <2>8, <2>9, <2>10, <2>11 DEF StepOK
<1>5. CASE ToggleUser(s)
  BY <1>4, <1>5 DEF ToggleUser
<1>6. CASE RaiseLimit(s)
  BY <1>4, <1>6 DEF RaiseLimit
<1>7. CASE BotDelete(s) \/ AdminRemove(s)
  <2>1. PICK k \in Target, stage \in {"deleting", "removed", "removing"} :
          /\ conn' = [conn EXCEPT ![s] = k] /\ k.id \in ConnIds
          /\ pc' = [pc EXCEPT ![s] = stage]
          /\ stage \in PlacedStages => k.srv \in DOMAIN data[s].servers
          /\ store' = store /\ data' = data /\ loop' = loop /\ left' = left
          /\ visit' = visit /\ peers' = peers /\ issued' = issued /\ acked' = acked
    <3>1. CASE BotDelete(s)
      <4>1. PICK c \in data[s].conns :
              /\ conn' = [conn EXCEPT ![s] = c]
              /\ pc' = [pc EXCEPT ![s] = IF Within(data[s], c) THEN "deleting" ELSE "removed"]
              /\ store' = store /\ data' = data /\ loop' = loop /\ left' = left
              /\ visit' = visit /\ peers' = peers /\ issued' = issued /\ acked' = acked
        BY <3>1 DEF BotDelete, Goto
      <4>2. c \in Target /\ c.id \in ConnIds
        BY <1>0, Blanks DEF Conn
      <4>3. CASE Within(data[s], c)
        BY <4>1, <4>2, <4>3 DEF Within
      <4>4. CASE ~ Within(data[s], c)
        BY <4>1, <4>2, <4>4 DEF PlacedStages
      <4> QED
        BY <4>3, <4>4
    <3>2. CASE AdminRemove(s)
      <4>1. PICK q \in shown :
              /\ q[2] \in DOMAIN data[s].servers
              /\ conn' = [conn EXCEPT ![s] = [id |-> q[1], user |-> Nowhere, srv |-> q[2]]]
              /\ pc' = [pc EXCEPT ![s] = "removing"]
              /\ store' = store /\ data' = data /\ loop' = loop /\ left' = left
              /\ visit' = visit /\ peers' = peers /\ issued' = issued /\ acked' = acked
        BY <3>2 DEF AdminRemove, Goto
      <4>2. q[1] \in ConnIds /\ q[2] \in Nat \ {0}
        BY DEF IInv
      <4> DEFINE k == [id |-> q[1], user |-> Nowhere, srv |-> q[2]]
      <4>3. k \in Target /\ k.id \in ConnIds /\ k.srv \in DOMAIN data[s].servers
        BY <4>1, <4>2 DEF Target
      <4>4. conn' = [conn EXCEPT ![s] = k]
        BY <4>1
      <4> HIDE DEF k
      <4> QED
        BY <4>1, <4>3, <4>4
    <3> QED
      BY <1>7, <3>1, <3>2
  <2>2. stage \in Stages /\ stage \notin CreatingStages
    BY <2>1 DEF CreatingStages, Stages
  <2> QED
    BY <1>0, <1>1, <2>1, <2>2, WorkedOK
<1>8. CASE RemoveUser(s)
  <2>1. PICK u \in UserIdsOf(data[s]) :
          /\ left' = [left EXCEPT ![s] = ConnsOf(data[s], u)]
          /\ data' = [data EXCEPT ![s] = DeleteUser(data[s], u)]
          /\ pc' = [pc EXCEPT ![s] = "purging"]
          /\ store' = store /\ loop' = loop /\ conn' = conn /\ visit' = visit
          /\ peers' = peers /\ issued' = issued /\ acked' = acked
    BY <1>8 DEF RemoveUser, Goto
  <2> DEFINE d == DeleteUser(data[s], u)
             l == ConnsOf(data[s], u)
  <2>2. /\ d \in Doc /\ DocOK(d) /\ IdsOf(d) \subseteq IdsOf(data[s])
        /\ d.conns \subseteq data[s].conns
    BY <1>0, DeleteUserGood
  <2>3. /\ data' = [data EXCEPT ![s] = d] /\ left' = [left EXCEPT ![s] = l]
        /\ l \in SUBSET Conn
    BY <1>2, <2>1
  <2>4. /\ "purging" \in Stages /\ "purging" \notin CreatingStages
        /\ "purging" \notin RemovingStages /\ "purging" \notin PlacedStages
    BY DEF Stages, CreatingStages, RemovingStages, PlacedStages
  <2> HIDE DEF d, l
  <2>5. /\ IdsOf(d) \subseteq issued'
        /\ \A e \in d.conns : \E c \in store.conns \cup data[s].conns : c.id = e.id
    BY <1>0, <2>1, <2>2
  <2> QED
    BY <1>0, <1>1, <2>1, <2>2, <2>3, <2>4, <2>5, WorkedOK
<1> QED
  BY <1>3, <1>5, <1>6, <1>7, <1>8

LEMMA RestartKeepsIInv ==
    ASSUME IInv, Restart, PagesAdded
    PROVE  IInv'
<1>1. WorkOK'
  BY NoDocGood, Blanks DEF Restart, IInv, WorkOK, Stages
<1>2. Good(store)'
  BY DEF Restart, IInv, Good
<1>3. ASSUME NEW s \in Sessions
      PROVE  Good(data[s])' /\ Placed(s)'
  <2>1. pc'[s] = "idle" /\ data'[s] = NoDoc /\ visit'[s] = NoVisit
    BY DEF Restart
  <2> QED
    BY <2>1, NoDocGood DEF Good, Placed, Creating, Removing, CreatingStages,
                           RemovingStages, PlacedStages
<1> QED
  BY <1>1, <1>2, <1>3, PagesTyped DEF IInv

\* IInv is inductive.
LEMMA NextKeepsIInv ==
    ASSUME IInv, [Next]_vars
    PROVE  IInv'
<1>0. PagesAdded
  BY DEF Next, Observe, vars, PagesAdded
<1>1. ASSUME NEW s \in Sessions, Task(s) PROVE IInv'
  BY <1>0, <1>1, StepKeepsIInv, DocumentEditsOK, ReturnsOK, CreationsOK, PeerStepsOK,
     StartsOK DEF Task
<1>2. ASSUME NEW s \in Sessions, Thread(s) PROVE IInv'
  BY <1>0, <1>2, StepKeepsIInv, DocumentEditsOK, ReturnsOK, CreationsOK, StartsOK DEF Thread
<1>3. ASSUME NEW s \in Sessions, Either(s) PROVE IInv'
  BY <1>0, <1>3, StepKeepsIInv, DocumentEditsOK, ReturnsOK, LoadsOK, PeerStepsOK DEF Either
<1>4. CASE UNCHANGED vars
  BY <1>4 DEF vars, IInv, WorkOK, Good, Placed, Pending, Creating, Removing
<1> QED
  BY <1>0, <1>1, <1>2, <1>3, <1>4, RestartKeepsIInv DEF Next, Sessions

LEMMA InitIInv == Init => IInv
<1> SUFFICES ASSUME Init PROVE IInv
  OBVIOUS
<1>1. store \in Doc /\ DocOK(store)
  BY ScenesAssumption DEF Init
<1>2. IdsOf(store) \subseteq issued /\ issued \subseteq AllIds
  <2>1. store.servers \in Seq(Servers)
    BY <1>1 DEF Doc
  <2>2. \A k \in DOMAIN store.servers : store.servers[k] \in Servers
    BY <2>1, LenProperties, ElementOfSeq
  <2>3. UserIdsOf(store) \subseteq UserIds
    BY <1>1 DEF Doc, User, UserIdsOf
  <2>4. {u.via : u \in {x \in store.users : x.via # NoCode}} \subseteq Codes
    BY <1>1 DEF Doc, User
  <2>5. {c.id : c \in store.conns} \subseteq ConnIds
    BY <1>1 DEF Doc, Conn
  <2>6. store.codes \subseteq Codes /\ store.tokens \subseteq Tokens
    BY <1>1 DEF Doc
  <2> QED
    BY <2>2, <2>3, <2>4, <2>5, <2>6, ScenesAssumption DEF Init, IdsOf, AllIds
<1>3. peers \in [ConnIds -> Peer]
  <2> DEFINE place(i) == CHOOSE c \in store.conns : c.id = i
  <2>1. ASSUME NEW i \in ConnIds, \E c \in store.conns : c.id = i /\ Within(store, c)
        PROVE  [at |-> store.servers[place(i).srv], on |-> TRUE] \in Peer
    <3>1. PICK c \in store.conns : c.id = i /\ Within(store, c)
      BY <2>1
    <3>2. place(i) \in store.conns /\ place(i).id = i
      BY <3>1
    <3>3. place(i) = c
      BY <1>1, <3>1, <3>2 DEF DocOK, IdsOK
    <3> HIDE DEF place
    <3>4. store.servers \in Seq(Servers) /\ c.srv \in DOMAIN store.servers
      BY <1>1, <3>1 DEF Doc, Within
    <3>5. store.servers[c.srv] \in Servers
      BY <3>4, LenProperties, ElementOfSeq
    <3> QED
      BY <3>3, <3>5 DEF Peer
  <2>2. NoPeer \in Peer
    BY DEF NoPeer, Peer
  <2>3. peers = [i \in ConnIds |->
                   IF \E c \in store.conns : c.id = i /\ Within(store, c)
                   THEN [at |-> store.servers[place(i).srv], on |-> TRUE]
                   ELSE NoPeer]
    BY DEF Init
  <2> HIDE DEF place
  <2> QED
    BY <2>1, <2>2, <2>3
<1>4. WorkOK
  BY <1>1, <1>2, <1>3, NoDocGood, Blanks DEF Init, WorkOK, Stages, Acks, AllIds
<1>5. Good(store)
  BY <1>1, <1>2 DEF Good
<1>6. ASSUME NEW s \in Sessions
      PROVE  Good(data[s]) /\ Placed(s)
  <2>1. pc[s] = "idle" /\ data[s] = NoDoc /\ visit[s] = NoVisit
    BY DEF Init
  <2> QED
    BY <2>1, NoDocGood DEF Good, Placed, Creating, Removing, CreatingStages,
                           RemovingStages, PlacedStages
<1>7. shown \subseteq ConnIds \X (Nat \ {0})
  <2>1. shown = Pages
    BY DEF Init
  <2>2. store.conns \subseteq Conn /\ store.servers \in Seq(Servers)
    BY <1>1 DEF Doc
  <2>3. \A k \in DOMAIN store.servers : k \in Nat \ {0}
    BY <2>2, LenProperties
  <2>4. \A c \in store.conns : <<c.id, c.srv>> \in ConnIds \X (Nat \ {0})
    BY <2>2 DEF Conn
  <2> QED
    BY <2>1, <2>3, <2>4 DEF Pages
<1> QED
  BY <1>4, <1>5, <1>6, <1>7 DEF IInv

\* Whatever the handlers interleave and whichever of them write stale copies
\* back, IInv holds.
THEOREM SpecIInv == Spec => []IInv
<1>1. IInv /\ [Next]_vars => IInv'
  BY NextKeepsIInv
<1> QED
  BY <1>1, InitIInv, PTL DEF Spec

-----------------------------------------------------------------------------
(* The properties *)

\* Documents, copies and pending work keep their types.
THEOREM TypeCorrect == Spec => []TypeOK
<1>1. IInv => TypeOK
  BY DEF IInv, TypeOK
<1> QED
  BY <1>1, SpecIInv, PTL

\* However saves interleave, an invite code never admits more users than it
\* allows (invite_code_valid, register_user_with_code).
THEOREM AdmissionSafe == Spec => []AdmissionWithinQuota
<1>1. IInv => AdmissionWithinQuota
  <2> SUFFICES ASSUME IInv, NEW code \in Codes, MaxUses[code] > 0
               PROVE  Cardinality(Admitted(store, code)) <= MaxUses[code]
    BY DEF AdmissionWithinQuota
  <2>1. /\ IsFiniteSet(store.users) /\ QuotaOK(store) /\ store.uses[code] \in Nat
        /\ MaxUses[code] \in Nat
    BY MaxUsesAssumption DEF IInv, WorkOK, Good, DocOK, Doc
  <2>2. IsFiniteSet(Admitted(store, code))
    BY <2>1, FS_Subset DEF Admitted
  <2>3. Cardinality(Admitted(store, code)) \in Nat
    BY <2>2, FS_CardinalityType
  <2> QED
    BY <2>1, <2>3 DEF QuotaOK
<1> QED
  BY <1>1, SpecIInv, PTL

\* Deleting and reordering servers re-aims every connection to the server it
\* was on, and drops exactly those of the deleted server (api_delete_server,
\* api_reorder_servers).
THEOREM PlacementKept == Spec => ListEditsKeepPlacement
<1> DEFINE Kept(h) ==
             /\ RemoveServer(h) \/ MoveServers(h) => SamePlacement(data[h], store')
             /\ MoveServers(h) /\ data[h].sync \in DOMAIN data[h].servers =>
                  store'.servers[store'.sync] = data[h].servers[data[h].sync]
<1>1. ASSUME IInv, NEW h \in Tasks PROVE Kept(h)
  <2>1. data[h] \in Doc /\ DocOK(data[h])
    BY <1>1, Copies DEF Sessions
  <2>2. ASSUME MoveServers(h)
        PROVE  \E order \in Orders(Len(data[h].servers)) :
                  store' = ReorderServers(data[h], order)
    BY <2>2 DEF MoveServers, SaveAndReturn
  <2>3. ASSUME RemoveServer(h)
        PROVE  \E i \in DOMAIN data[h].servers : store' = DeleteServer(data[h], i)
    BY <2>3 DEF RemoveServer, SaveAndReturn
  <2> QED
    BY <2>1, <2>2, <2>3, DeleteKeepsPlacement, ReorderKeepsPlacement
<1>2. IInv => [\A h \in Tasks : Kept(h)]_vars
  BY <1>1
<1> QED
  BY <1>2, SpecIInv, PTL DEF ListEditsKeepPlacement

-----------------------------------------------------------------------------
(* What the handlers do to the fields the remaining properties read *)

\* The step of any session meets what IInv asks of it.
LEMMA SessionStep ==
    ASSUME IInv, NEW s \in Sessions, Task(s) \/ Thread(s) \/ Either(s)
    PROVE  StepOK(s)
<1>1. CASE Task(s)
  BY <1>1, DocumentEditsOK, ReturnsOK, CreationsOK, PeerStepsOK, StartsOK DEF Task
<1>2. CASE Thread(s)
  BY <1>2, DocumentEditsOK, ReturnsOK, CreationsOK, StartsOK DEF Thread
<1>3. CASE Either(s)
  BY <1>3, DocumentEditsOK, ReturnsOK, LoadsOK, PeerStepsOK DEF Either
<1> QED
  BY <1>1, <1>2, <1>3

\* Nothing of another session changes.
LEMMA OthersStay ==
    ASSUME IInv, NEW s \in Sessions, StepOK(s), NEW t \in Sessions, t # s
    PROVE  /\ pc'[t] = pc[t] /\ data'[t] = data[t] /\ conn'[t] = conn[t]
           /\ left'[t] = left[t] /\ visit'[t] = visit[t]
BY DEF StepOK, IInv, WorkOK

\* Saving and returning, field by field.
LEMMA Saved ==
    ASSUME IInv, NEW s \in Sessions, NEW d, SaveAndReturn(s, d)
    PROVE  /\ store' = d /\ pc'[s] = "idle" /\ data'[s] = NoDoc /\ conn'[s] = NoConn
           /\ visit'[s] = NoVisit
           /\ loop' = loop \/ s \in Tasks
BY DEF SaveAndReturn, Done, Goto, Yield, IInv, WorkOK

\* Which tokens and connections an edit leaves in the document.
LEMMA EditFields ==
    ASSUME NEW d \in Doc
    PROVE  /\ \A t : /\ AddToken(d, t).tokens = d.tokens \cup {t}
                     /\ AddToken(d, t).conns = d.conns
                     /\ AddToken(d, t).servers = d.servers
                     /\ DropToken(d, t).tokens = d.tokens \ {t}
                     /\ DropToken(d, t).conns = d.conns
                     /\ DropToken(d, t).servers = d.servers
           /\ \A code : /\ AddCode(d, code).tokens = d.tokens
                        /\ AddCode(d, code).conns = d.conns
                        /\ AddCode(d, code).servers = d.servers
                        /\ DropCode(d, code).tokens = d.tokens
                        /\ DropCode(d, code).conns = d.conns
                        /\ DropCode(d, code).servers = d.servers
           /\ \A v : /\ AddServer(d, v).tokens = d.tokens
                     /\ AddServer(d, v).conns = d.conns
                     /\ AddServer(d, v).servers = Append(d.servers, v)
           /\ \A i : DeleteServer(d, i).tokens = d.tokens
           /\ \A o : ReorderServers(d, o).tokens = d.tokens
           /\ \A u, code : /\ AddUser(d, u, code).tokens = d.tokens
                           /\ AddUser(d, u, code).conns = d.conns
                           /\ AddUser(d, u, code).servers = d.servers
                           /\ Register(d, u, code).conns = d.conns
                           /\ Register(d, u, code).servers = d.servers
           /\ \A u : /\ DeleteUser(d, u).tokens = d.tokens
                     /\ DeleteUser(d, u).conns \subseteq d.conns
                     /\ DeleteUser(d, u).servers = d.servers
           /\ \A u, on : /\ SetEnabled(d, u, on).conns = d.conns
                         /\ SetEnabled(d, u, on).servers = d.servers
           /\ \A c : /\ AddConn(d, c).tokens = d.tokens
                     /\ AddConn(d, c).conns = d.conns \cup {c}
                     /\ AddConn(d, c).servers = d.servers
           /\ \A cs : /\ [d EXCEPT !.conns = cs].tokens = d.tokens
                      /\ [d EXCEPT !.conns = cs].conns = cs
                      /\ [d EXCEPT !.conns = cs].servers = d.servers
<1>1. \A t : /\ AddToken(d, t).tokens = d.tokens \cup {t}
             /\ AddToken(d, t).conns = d.conns
             /\ AddToken(d, t).servers = d.servers
             /\ DropToken(d, t).tokens = d.tokens \ {t}
             /\ DropToken(d, t).conns = d.conns
             /\ DropToken(d, t).servers = d.servers
  BY DEF AddToken, DropToken, Doc
<1>2. \A code : /\ AddCode(d, code).tokens = d.tokens
                /\ AddCode(d, code).conns = d.conns
                /\ AddCode(d, code).servers = d.servers
                /\ DropCode(d, code).tokens = d.tokens
                /\ DropCode(d, code).conns = d.conns
                /\ DropCode(d, code).servers = d.servers
  BY DEF AddCode, DropCode, Doc
<1>3. /\ \A v : /\ AddServer(d, v).tokens = d.tokens
                /\ AddServer(d, v).conns = d.conns
                /\ AddServer(d, v).servers = Append(d.servers, v)
      /\ \A i : DeleteServer(d, i).tokens = d.tokens
      /\ \A o : ReorderServers(d, o).tokens = d.tokens
  BY DEF AddServer, DeleteServer, ReorderServers, Doc
<1>4. \A u, code : /\ AddUser(d, u, code).tokens = d.tokens
                   /\ AddUser(d, u, code).conns = d.conns
                   /\ AddUser(d, u, code).servers = d.servers
                   /\ Register(d, u, code).conns = d.conns
                   /\ Register(d, u, code).servers = d.servers
  BY DEF AddUser, Register, Doc
<1>5. /\ \A u : /\ DeleteUser(d, u).tokens = d.tokens
                /\ DeleteUser(d, u).conns \subseteq d.conns
                /\ DeleteUser(d, u).servers = d.servers
      /\ \A u, on : /\ SetEnabled(d, u, on).conns = d.conns
                    /\ SetEnabled(d, u, on).servers = d.servers
  BY DEF DeleteUser, SetEnabled, Doc
<1>6. /\ \A c : /\ AddConn(d, c).tokens = d.tokens
                /\ AddConn(d, c).conns = d.conns \cup {c}
                /\ AddConn(d, c).servers = d.servers
      /\ \A cs : /\ [d EXCEPT !.conns = cs].tokens = d.tokens
                 /\ [d EXCEPT !.conns = cs].conns = cs
                 /\ [d EXCEPT !.conns = cs].servers = d.servers
  BY DEF AddConn, Doc
<1> QED
  BY <1>1, <1>2, <1>3, <1>4, <1>5, <1>6

-----------------------------------------------------------------------------
(* Confirmed revocations and deletions, without stale saves *)

\* Only coroutines of the loop run, and none of the two that save a document
\* loaded before an await: the scheduled backup and perform_toggle_user.
FreshSaves ==
    \A s \in Sessions :
        may[s] # {} => s \in Tasks /\ may[s] \cap {"toggle", "backup"} = {}

\* Where a handler holds a copy that it is going to save, and the loop.
HeldStages == {"loaded", "appending", "recording", "purging", "removing", "unlisting"}

\* A document without anything whose end was confirmed: revoked tokens, records
\* taken out.
Clean(d, a) ==
    /\ a.revoked \cap d.tokens = {}
    /\ \A c \in d.conns : c.id \notin a.dropped

OwnFresh(s) ==
    /\ s \in Threads => pc[s] = "idle"
    /\ pc[s] \in {"idle", "adding", "added"} \cup HeldStages
    /\ pc[s] \in HeldStages => loop = s /\ Clean(data[s], acked)
    /\ Creating(s) => conn[s].id \notin acked.dropped

\* The stored document and every copy about to be saved are clean: the loop
\* makes sure that nothing is confirmed while such a copy is held.
FreshInv ==
    /\ Clean(store, acked)
    /\ acked.revoked \cup acked.dropped \subseteq issued
    /\ \A s \in Sessions : OwnFresh(s)

\* A step of s keeps FreshInv when s confirms an end only while it holds the
\* loop, and leaves its own state and the store in order.
LEMMA FreshStep ==
    ASSUME IInv, FreshInv, NEW s \in Sessions, StepOK(s),
           \/ loop' = loop /\ acked' = acked
           \/ loop \in {Free, s},
           Clean(store, acked)',
           acked'.revoked \cup acked'.dropped \subseteq issued',
           \A i \in acked'.dropped \ acked.dropped : \E c \in data[s].conns : c.id = i,
           OwnFresh(s)'
    PROVE  FreshInv'
<1>1. ASSUME NEW t \in Sessions, t # s
      PROVE  OwnFresh(t)'
  <2>1. pc'[t] = pc[t] /\ data'[t] = data[t] /\ conn'[t] = conn[t]
    BY <1>1, OthersStay
  <2>2. OwnFresh(t)
    BY DEF FreshInv
  <2>3. ASSUME pc[t] \in HeldStages
        PROVE  loop' = loop /\ acked' = acked
    <3>1. loop = t
      BY <2>2, <2>3 DEF OwnFresh
    <3>2. pc[t] # "idle"
      BY <2>3 DEF HeldStages
    <3>3. t \in Tasks
      BY <2>2, <3>2 DEF OwnFresh, Sessions
    <3> QED
      BY <1>1, <3>1, <3>3, SessionsAssumption
  <2>4. ASSUME Creating(t)
        PROVE  conn[t].id \notin acked'.dropped
    <3>1. \A c \in data[s].conns : c.id # conn[t].id
      BY <2>4 DEF IInv, Placed, Pending
    <3>2. conn[t].id \notin acked.dropped
      BY <2>2, <2>4 DEF OwnFresh
    <3> QED
      BY <3>1, <3>2
  <2>5. pc'[t] \in HeldStages => loop' = t /\ Clean(data'[t], acked')
    BY <2>1, <2>2, <2>3 DEF OwnFresh
  <2>6. Creating(t)' => conn'[t].id \notin acked'.dropped
    BY <2>1, <2>4 DEF Creating
  <2> QED
    BY <2>1, <2>2, <2>5, <2>6 DEF OwnFresh
<1> QED
  BY <1>1 DEF FreshInv

\* A handler that holds the loop saves a clean document and returns.
LEMMA FreshSaved ==
    ASSUME IInv, FreshInv, NEW s \in Sessions, StepOK(s),
           pc[s] \in HeldStages, NEW d, SaveAndReturn(s, d), Clean(d, acked'),
           acked'.revoked \cup acked'.dropped \subseteq issued',
           \A i \in acked'.dropped \ acked.dropped : \E c \in data[s].conns : c.id = i
    PROVE  FreshInv'
<1>1. store' = d /\ pc'[s] = "idle"
  BY Saved
<1>2. loop = s
  BY DEF FreshInv, OwnFresh
<1>3. OwnFresh(s)'
  BY <1>1 DEF OwnFresh, HeldStages, Creating, CreatingStages
<1> QED
  BY <1>1, <1>2, <1>3, FreshStep

\* Any other step: no token is revoked and no record taken out.
LEMMA FreshMoved ==
    ASSUME IInv, FreshInv, NEW s \in Sessions, StepOK(s),
           (loop' = loop /\ acked' = acked) \/ loop \in {Free, s},
           acked'.revoked = acked.revoked, acked'.dropped = acked.dropped,
           issued \subseteq issued', Clean(store', acked),
           pc'[s] \in {"idle", "adding", "added"} \cup HeldStages,
           s \in Threads => pc'[s] = "idle",
           pc'[s] \in HeldStages => loop' = s /\ Clean(data'[s], acked),
           Creating(s)' => conn'[s].id \notin acked.dropped
    PROVE  FreshInv'
<1>1. OwnFresh(s)'
  BY DEF OwnFresh, Creating, Clean
<1>2. Clean(store, acked)' /\ acked'.revoked \cup acked'.dropped \subseteq issued'
  BY DEF FreshInv, Clean
<1> QED
  BY <1>1, <1>2, FreshStep

LEMMA FreshHeld ==
    ASSUME IInv, FreshInv, NEW s \in Sessions, pc[s] \in HeldStages
    PROVE  /\ data[s] \in Doc /\ Clean(data[s], acked) /\ loop = s
           /\ \A c, e \in data[s].conns : c.id = e.id => c = e
           /\ acked.revoked \cup acked.dropped \subseteq issued
           /\ acked \in Acks
<1>1. Clean(data[s], acked) /\ loop = s
  BY DEF FreshInv, OwnFresh
<1>2. data[s] \in Doc /\ IdsOK(data[s]) /\ acked \in Acks
  BY Copies DEF DocOK
<1> QED
  BY <1>1, <1>2 DEF FreshInv, IdsOK

\* Handlers that save what they loaded, edited, and confirm nothing.
LEMMA FreshEdits ==
    ASSUME IInv, FreshInv, NEW s \in Sessions, StepOK(s),
           \/ CreateToken(s) \/ CreateCode(s) \/ DeleteCode(s) \/ ConnectServer(s)
           \/ RemoveServer(s) \/ MoveServers(s) \/ WriteBack(s) \/ CreateUser(s)
           \/ RecordConnection(s) \/ SaveRemoval(s)
    PROVE  FreshInv'
<1>1. pc[s] \in HeldStages
  BY DEF CreateToken, CreateCode, DeleteCode, ConnectServer, RemoveServer, MoveServers,
         WriteBack, CreateUser, RecordConnection, SaveRemoval, Ready, HeldStages
<1>2. /\ data[s] \in Doc /\ Clean(data[s], acked) /\ DocOK(data[s])
      /\ acked.revoked \cup acked.dropped \subseteq issued
  BY <1>1, FreshHeld, Copies
<1>3. acked' = acked /\ issued \subseteq issued'
  BY DEF CreateToken, CreateCode, DeleteCode, ConnectServer, RemoveServer, MoveServers,
         WriteBack, CreateUser, RecordConnection, SaveRemoval
<1>4. PICK d : /\ SaveAndReturn(s, d)
               /\ d.tokens \subseteq data[s].tokens \cup (Tokens \ issued)
               /\ \A e \in d.conns : \/ \E c \in data[s].conns : c.id = e.id
                                     \/ pc[s] = "recording" /\ e = conn[s]
  <2>1. CASE CreateToken(s)
    <3>1. PICK t \in Tokens \ issued : SaveAndReturn(s, AddToken(data[s], t))
      BY <2>1 DEF CreateToken
    <3> QED
      BY <1>2, <3>1, EditFields
  <2>2. CASE CreateCode(s)
    <3>1. PICK code : SaveAndReturn(s, AddCode(data[s], code))
      BY <2>2 DEF CreateCode
    <3> QED
      BY <1>2, <3>1, EditFields
  <2>3. CASE DeleteCode(s)
    <3>1. PICK code : SaveAndReturn(s, DropCode(data[s], code))
      BY <2>3 DEF DeleteCode
    <3> QED
      BY <1>2, <3>1, EditFields
  <2>4. CASE ConnectServer(s)
    <3>1. PICK v : SaveAndReturn(s, AddServer(data[s], v))
      BY <2>4 DEF ConnectServer
    <3> QED
      BY <1>2, <3>1, EditFields
  <2>5. CASE RemoveServer(s)
    <3>1. PICK i \in DOMAIN data[s].servers : SaveAndReturn(s, DeleteServer(data[s], i))
      BY <2>5 DEF RemoveServer
    <3>2. \A e \in DeleteServer(data[s], i).conns : \E c \in data[s].conns : c.id = e.id
      BY <1>2, DeleteServerGood
    <3> QED
      BY <1>2, <3>1, <3>2, EditFields
  <2>6. CASE MoveServers(s)
    <3>1. PICK o \in Orders(Len(data[s].servers)) : SaveAndReturn(s, ReorderServers(data[s], o))
      BY <2>6 DEF MoveServers
    <3>2. \A e \in ReorderServers(data[s], o).conns : \E c \in data[s].conns : c.id = e.id
      BY <1>2, ReorderGood
    <3> QED
      BY <1>2, <3>1, <3>2, EditFields
  <2>7. CASE WriteBack(s) \/ SaveRemoval(s)
    BY <2>7 DEF WriteBack, SaveRemoval
  <2>8. CASE CreateUser(s)
    <3>1. PICK u : SaveAndReturn(s, AddUser(data[s], u, NoCode))
      BY <2>8 DEF CreateUser
    <3> QED
      BY <1>2, <3>1, EditFields
  <2>9. CASE RecordConnection(s)
    <3>1. SaveAndReturn(s, AddConn(data[s], conn[s])) /\ pc[s] = "recording"
      BY <2>9 DEF RecordConnection
    <3> QED
      BY <1>2, <3>1, EditFields
  <2> QED
    BY <2>1, <2>2, <2>3, <2>4, <2>5, <2>6, <2>7, <2>8, <2>9
<1>5. pc[s] = "recording" => conn[s].id \notin acked.dropped
  BY DEF FreshInv, OwnFresh, Creating, CreatingStages
<1>6. Clean(d, acked')
  BY <1>2, <1>3, <1>4, <1>5 DEF Clean
<1> QED
  BY <1>1, <1>2, <1>3, <1>4, <1>6, FreshSaved

\* The two handlers that confirm an end: the token or the connection goes from
\* the copy they save.
LEMMA FreshConfirms ==
    ASSUME IInv, FreshInv, NEW s \in Sessions, StepOK(s),
           RevokeToken(s) \/ Unlist(s)
    PROVE  FreshInv'
<1>1. pc[s] \in HeldStages
  BY DEF RevokeToken, Unlist, Ready, HeldStages
<1>2. /\ data[s] \in Doc /\ Clean(data[s], acked)
      /\ \A c, e \in data[s].conns : c.id = e.id => c = e
      /\ acked.revoked \cup acked.dropped \subseteq issued
      /\ acked \in Acks /\ IdsOf(data[s]) \subseteq issued
  BY <1>1, FreshHeld, Copies
<1>3. CASE RevokeToken(s)
  <2>1. PICK t \in data[s].tokens :
          /\ SaveAndReturn(s, DropToken(data[s], t))
          /\ acked' = [acked EXCEPT !.revoked = @ \cup {t}] /\ issued' = issued
    BY <1>3 DEF RevokeToken
  <2>2. /\ DropToken(data[s], t).tokens = data[s].tokens \ {t}
        /\ DropToken(data[s], t).conns = data[s].conns
    BY <1>2, EditFields
  <2>3. acked'.revoked = acked.revoked \cup {t} /\ acked'.dropped = acked.dropped
    BY <1>2, <2>1 DEF Acks
  <2>4. t \in issued
    BY <1>2 DEF IdsOf
  <2>5. Clean(DropToken(data[s], t), acked')
    BY <1>2, <2>2, <2>3 DEF Clean
  <2> QED
    BY <1>1, <1>2, <2>1, <2>3, <2>4, <2>5, FreshSaved
<1>4. CASE Unlist(s)
  <2> DEFINE gone == {c \in data[s].conns : c.id = conn[s].id /\ c.srv = conn[s].srv}
             kept == data[s].conns \ gone
             d == [data[s] EXCEPT !.conns = kept]
  <2>1. /\ SaveAndReturn(s, d)
        /\ acked' = [acked EXCEPT !.deleted = @ \cup {conn[s].id},
                                  !.dropped = @ \cup {c.id : c \in gone}]
        /\ issued' = issued
    BY <1>4 DEF Unlist
  <2>2. d.tokens = data[s].tokens /\ d.conns = kept
    BY <1>2, EditFields
  <2>3. gone \subseteq data[s].conns
    OBVIOUS
  <2> HIDE DEF d, gone
  <2>4. /\ acked'.revoked = acked.revoked
        /\ acked'.dropped = acked.dropped \cup {c.id : c \in gone}
    BY <1>2, <2>1 DEF Acks
  <2>5. {c.id : c \in gone} \subseteq issued
    BY <1>2, <2>3 DEF IdsOf
  <2>6. \A c \in kept : c \in data[s].conns /\ \A x \in gone : c.id # x.id
    BY <1>2, <2>3
  <2> HIDE DEF kept
  <2>7. Clean(d, acked')
    BY <1>2, <2>2, <2>4, <2>6 DEF Clean
  <2>8. acked'.revoked \cup acked'.dropped \subseteq issued'
    BY <1>2, <2>1, <2>4, <2>5
  <2>9. \A i \in acked'.dropped \ acked.dropped : \E c \in data[s].conns : c.id = i
    BY <2>3, <2>4
  <2> QED
    BY <1>1, <2>1, <2>7, <2>8, <2>9, FreshSaved
<1> QED
  BY <1>3, <1>4

\* The steps on the way to the save.
LEMMA FreshProgress ==
    ASSUME IInv, FreshInv, FreshSaves, NEW s \in Sessions, StepOK(s),
           \/ Load(s) \/ Refuse(s) \/ RemoteFails(s) \/ Reload(s)
           \/ AdminCreate(s) \/ AdminAppend(s) \/ CreateUserWithConnection(s)
           \/ AddPeer(s) \/ AdminRemove(s) \/ ReadConfig(s) \/ RemovePeer(s)
           \/ RemoveUser(s) \/ VisitPeer(s) \/ PurgePeer(s)
    PROVE  FreshInv'
<1>0. /\ Clean(store, acked) /\ OwnFresh(s)
      /\ acked.revoked \cup acked.dropped \subseteq issued
  BY DEF FreshInv
<1>1. data[s] \in Doc
  BY Copies
<1>2. s \in Threads => pc[s] = "idle" /\ may[s] = {} /\ s \notin Tasks
  BY <1>0, SessionsAssumption DEF OwnFresh, FreshSaves
<1>3. CASE Load(s) \/ Reload(s)
  <2>1. s \in Tasks
    BY <1>2, <1>3 DEF Load, Reload, Sessions
  <2>2. /\ loop \in {Free, s} /\ loop' = s
        /\ acked' = acked /\ issued' = issued /\ store' = store /\ conn' = conn
        /\ data'[s] = store
    BY <1>3, <2>1, SessionsAssumption DEF Load, Reload, Hold, CanRun, IInv, WorkOK
  <2>3. \/ pc'[s] = "loaded"
        \/ pc'[s] = "recording" /\ Creating(s)
    BY <1>0, <1>3 DEF Load, Reload, Goto, IInv, WorkOK, Creating, CreatingStages,
                      OwnFresh, HeldStages
  <2>4. conn'[s] = conn[s] /\ Clean(data'[s], acked)
    BY <1>0, <2>2
  <2>5. Creating(s)' => conn'[s].id \notin acked.dropped
    BY <1>0, <2>3, <2>4 DEF OwnFresh, Creating, CreatingStages
  <2>6. pc'[s] \in {"idle", "adding", "added"} \cup HeldStages
    BY <2>3 DEF HeldStages
  <2>7. s \in Threads => pc'[s] = "idle"
    BY <2>1, SessionsAssumption
  <2> QED
    BY <1>0, <2>2, <2>4, <2>5, <2>6, <2>7, FreshMoved
<1>4. CASE Refuse(s) \/ RemoteFails(s)
  <2>1. SaveAndReturn(s, store) /\ acked' = acked /\ issued' = issued
    BY <1>4 DEF Refuse, RemoteFails, SaveAndReturn
  <2>2. pc'[s] = "idle" /\ store' = store
    BY <2>1, Saved
  <2>3. s \in Tasks
    BY <1>2, <1>4 DEF Refuse, RemoteFails, Sessions
  <2>4. loop \in {Free, s}
    BY <1>0, <1>4, <2>3, SessionsAssumption
       DEF Refuse, RemoteFails, CanRun, OwnFresh, HeldStages
  <2> QED
    BY <1>0, <2>1, <2>2, <2>4, FreshMoved
       DEF HeldStages, Creating, CreatingStages
<1>5. CASE AdminCreate(s) \/ AdminAppend(s)
  <2>1. PICK u \in UserIds \cup UserIdsOf(data[s]), i \in DOMAIN data[s].servers,
             stage \in {"adding", "appending"} :
          /\ Begin(s, stage, u, i)
          /\ pc[s] = "loaded"
          /\ store' = store /\ data' = data /\ acked' = acked
          /\ stage = "appending" => loop' = loop
    BY <1>5 DEF AdminCreate, AdminAppend, Ready
  <2>2. PICK id \in ConnIds \ issued :
          /\ conn'[s].id = id /\ issued' = issued \cup {id} /\ pc'[s] = stage
    BY <2>1 DEF Begin, Goto, IInv, WorkOK
  <2>3. loop = s /\ Clean(data[s], acked)
    BY <1>0, <2>1 DEF OwnFresh, HeldStages
  <2>4. s \notin Threads
    BY <1>2, <2>1
  <2> QED
    BY <1>0, <2>1, <2>2, <2>3, <2>4, FreshMoved DEF HeldStages
<1>6. CASE CreateUserWithConnection(s)
  <2>1. PICK u \in UserIds \ issued, i \in DOMAIN data[s].servers,
             id \in ConnIds \ issued :
          /\ store' = AddUser(data[s], u, NoCode)
          /\ data' = [data EXCEPT ![s] = AddUser(data[s], u, NoCode)]
          /\ conn' = [conn EXCEPT ![s] = [id |-> id, user |-> u, srv |-> i]]
          /\ issued' = issued \cup {u, id}
          /\ pc' = [pc EXCEPT ![s] = "adding"]
          /\ pc[s] = "loaded" /\ loop' = loop /\ acked' = acked
    BY <1>6 DEF CreateUserWithConnection, Goto, Ready
  <2>2. pc'[s] = "adding" /\ conn'[s].id = id
    BY <2>1 DEF IInv, WorkOK
  <2>3. Clean(data[s], acked) /\ s \notin Threads
    BY <1>0, <1>2, <2>1 DEF OwnFresh, HeldStages
  <2>4. Clean(store', acked)
    BY <1>1, <2>1, <2>3, EditFields DEF Clean
  <2>5. issued \subseteq issued' /\ conn'[s].id \notin acked.dropped
    BY <1>0, <2>1, <2>2
  <2> QED
    BY <2>1, <2>2, <2>3, <2>4, <2>5, FreshMoved DEF HeldStages
<1>7. CASE AddPeer(s) \/ RemovePeer(s)
  <2>1. /\ store' = store /\ loop' = loop /\ issued' = issued
        /\ data'[s] = data[s] /\ conn'[s] = conn[s]
        /\ acked' = acked \/ pc[s] = "removing"
    BY <1>0, <1>7 DEF AddPeer, RemovePeer, OwnFresh, HeldStages
  <2>2. \/ pc[s] = "adding" /\ pc'[s] = "added"
        \/ pc[s] = "appending" /\ pc'[s] = "recording"
        \/ pc[s] = "removing" /\ pc'[s] = "unlisting"
    BY <1>0, <1>7 DEF AddPeer, RemovePeer, Goto, IInv, WorkOK, OwnFresh, HeldStages
  <2>3. s \notin Threads
    BY <1>2, <2>2
  <2>4. acked'.revoked = acked.revoked /\ acked'.dropped = acked.dropped
    BY <1>7, Copies DEF AddPeer, RemovePeer, Acks
  <2>5. acked' = acked \/ loop \in {Free, s}
    BY <1>0, <2>1 DEF OwnFresh, HeldStages
  <2> QED
    BY <1>0, <2>1, <2>2, <2>3, <2>4, <2>5, FreshMoved
       DEF HeldStages, OwnFresh, Creating, CreatingStages
<1>8. CASE AdminRemove(s)
  <2>1. /\ pc' = [pc EXCEPT ![s] = "removing"] /\ pc[s] = "loaded"
        /\ store' = store /\ data' = data /\ loop' = loop
        /\ issued' = issued /\ acked' = acked
    BY <1>8 DEF AdminRemove, Goto, Ready
  <2>2. pc'[s] = "removing" /\ s \notin Threads
    BY <1>2, <2>1 DEF IInv, WorkOK
  <2>3. loop = s /\ Clean(data[s], acked)
    BY <1>0, <2>1 DEF OwnFresh, HeldStages
  <2> QED
    BY <1>0, <2>1, <2>2, <2>3, FreshMoved DEF HeldStages, Creating, CreatingStages
<1>9. CASE RemoveUser(s)
  <2>1. PICK u :
          /\ data' = [data EXCEPT ![s] = DeleteUser(data[s], u)]
          /\ pc' = [pc EXCEPT ![s] = "purging"] /\ pc[s] = "loaded"
          /\ store' = store /\ loop' = loop /\ issued' = issued /\ acked' = acked
    BY <1>9 DEF RemoveUser, Goto, Ready
  <2>2. pc'[s] = "purging" /\ data'[s] = DeleteUser(data[s], u) /\ s \notin Threads
    BY <1>2, <2>1 DEF IInv, WorkOK
  <2>3. loop = s /\ Clean(data[s], acked)
    BY <1>0, <2>1 DEF OwnFresh, HeldStages
  <2>4. Clean(data'[s], acked)
    BY <1>1, <2>2, <2>3, EditFields DEF Clean
  <2> QED
    BY <1>0, <2>1, <2>2, <2>3, <2>4, FreshMoved DEF HeldStages, Creating, CreatingStages
<1>10. CASE ReadConfig(s) \/ VisitPeer(s) \/ PurgePeer(s)
  <2>1. /\ pc[s] \in {"removing", "purging"} /\ pc' = pc /\ data' = data
        /\ store' = store /\ loop' = loop /\ issued' = issued /\ acked' = acked
    BY <1>0, <1>10 DEF ReadConfig, VisitPeer, PurgePeer, OwnFresh, HeldStages
  <2> QED
    BY <1>0, <1>2, <2>1, FreshMoved DEF HeldStages, OwnFresh, Creating, CreatingStages
<1> QED
  BY <1>3, <1>4, <1>5, <1>6, <1>7, <1>8, <1>9, <1>10

\* What does not happen here: the stages of a stale save, and of a thread.
LEMMA FreshElsewhere ==
    ASSUME FreshInv, FreshSaves, NEW s \in Sessions,
           \/ StartBackup(s) \/ PersistBackupStatus(s) \/ ToggleUser(s) \/ RaiseLimit(s)
           \/ TogglePeer(s) \/ SaveToggle(s) \/ DropConnection(s)
           \/ s \in Threads /\ (RegisterUser(s) \/ BotCreate(s) \/ BotDelete(s))
    PROVE  FALSE
<1>1. OwnFresh(s) /\ (may[s] # {} => s \in Tasks /\ may[s] \cap {"toggle", "backup"} = {})
  BY DEF FreshInv, FreshSaves
<1>2. CASE StartBackup(s) \/ ToggleUser(s) \/ RaiseLimit(s)
  BY <1>1, <1>2 DEF StartBackup, ToggleUser, RaiseLimit, Ready
<1>3. CASE PersistBackupStatus(s) \/ TogglePeer(s) \/ SaveToggle(s) \/ DropConnection(s)
  BY <1>1, <1>3 DEF PersistBackupStatus, TogglePeer, SaveToggle, DropConnection,
                    OwnFresh, HeldStages
<1>4. CASE s \in Threads /\ (RegisterUser(s) \/ BotCreate(s) \/ BotDelete(s))
  BY <1>1, <1>4 DEF RegisterUser, BotCreate, BotDelete, Ready, OwnFresh
<1> QED
  BY <1>2, <1>3, <1>4

LEMMA NextKeepsFresh ==
    ASSUME IInv, FreshSaves, FreshInv, [Next]_vars
    PROVE  FreshInv' /\ FreshSaves'
<1>1. FreshSaves'
  BY DEF FreshSaves, Next, Observe, vars
<1>2. ASSUME NEW s \in Tasks, Task(s) PROVE FreshInv'
  <2>1. s \in Sessions
    BY DEF Sessions
  <2>2. StepOK(s)
    BY <1>2, <2>1, SessionStep
  <2>3. ~ (StartBackup(s) \/ PersistBackupStatus(s) \/ ToggleUser(s) \/ RaiseLimit(s)
             \/ TogglePeer(s) \/ SaveToggle(s))
    BY <2>1, FreshElsewhere
  <2>4. CASE \/ CreateToken(s) \/ DeleteCode(s) \/ ConnectServer(s) \/ RemoveServer(s)
             \/ MoveServers(s) \/ CreateUser(s) \/ SaveRemoval(s)
    BY <2>1, <2>2, <2>4, FreshEdits
  <2>5. CASE RevokeToken(s) \/ Unlist(s)
    BY <2>1, <2>2, <2>5, FreshConfirms
  <2>6. CASE \/ AdminCreate(s) \/ AdminAppend(s) \/ CreateUserWithConnection(s)
             \/ AdminRemove(s) \/ RemoveUser(s) \/ VisitPeer(s) \/ PurgePeer(s)
    BY <2>1, <2>2, <2>6, FreshProgress
  <2> QED
    BY <1>2, <2>3, <2>4, <2>5, <2>6 DEF Task
<1>3. ASSUME NEW s \in Threads, Thread(s) PROVE FALSE
  BY <1>3, FreshElsewhere DEF Thread, Sessions
<1>4. ASSUME NEW s \in Sessions, Either(s) PROVE FreshInv'
  <2>1. StepOK(s)
    BY <1>4, SessionStep
  <2> QED
    BY <1>4, <2>1, FreshEdits, FreshProgress DEF Either
<1>5. CASE Restart
  <2>1. /\ store' = store /\ issued' = issued /\ acked' = acked
        /\ \A s \in Sessions : pc'[s] = "idle"
    BY <1>5 DEF Restart
  <2>2. \A s \in Sessions : OwnFresh(s)'
    BY <2>1 DEF OwnFresh, HeldStages, Creating, CreatingStages
  <2> QED
    BY <1>1, <2>1, <2>2 DEF FreshInv
<1>6. CASE UNCHANGED vars
  BY <1>1, <1>6 DEF vars, FreshInv, OwnFresh, Creating, Clean
<1> QED
  BY <1>1, <1>2, <1>3, <1>4, <1>5, <1>6 DEF Next

LEMMA InitFresh == Init => FreshInv
<1> SUFFICES ASSUME Init PROVE FreshInv
  OBVIOUS
<1>1. /\ acked = [revoked |-> {}, deleted |-> {}, dropped |-> {}, raced |-> {}]
      /\ \A s \in Sessions : pc[s] = "idle"
  BY DEF Init
<1> QED
  BY <1>1 DEF FreshInv, OwnFresh, Clean, HeldStages, Creating, CreatingStages

LEMMA SpecFresh == Spec /\ FreshSaves => []FreshInv
<1>1. IInv /\ (FreshInv /\ FreshSaves) /\ [Next]_vars => (FreshInv /\ FreshSaves)'
  BY NextKeepsFresh
<1> QED
  BY <1>1, InitFresh, SpecIInv, PTL DEF Spec

\* While only coroutines run and none of them saves a document it loaded
\* before an await, a token whose revocation was confirmed never comes back
\* (api_revoke_token).
THEOREM RevocationHolds == Spec /\ FreshSaves => []RevokedStaysRevoked
<1>1. FreshInv => RevokedStaysRevoked
  BY DEF FreshInv, Clean, RevokedStaysRevoked
<1> QED
  BY <1>1, SpecFresh, PTL

\* Under the same condition a record that a confirmed deletion took out never
\* comes back, whatever pairs of a client and a position the requests name
\* (api_remove_connection).
THEOREM DeletionHolds == Spec /\ FreshSaves => []DeletedStaysDeleted
<1>1. FreshInv => DeletedStaysDeleted
  BY DEF FreshInv, Clean, DeletedStaysDeleted
<1> QED
  BY <1>1, SpecFresh, PTL

-----------------------------------------------------------------------------
(* Records and peers, while handlers follow one another *)

\* The condition of RecordsMatchPeers: every handler keeps the loop from its
\* load to its save.
Serial == \A s \in Sessions : may[s] # {} => s \in Tasks /\ may[s] \subseteq KeepLoop

SerialStages == {"idle", "loaded", "adding", "added", "appending", "recording",
                 "removing", "unlisting", "purging"}

\* Record c of document d names the server its peer is on, if there is one.
Fits(d, ps, c) == Within(d, c) /\ ps[c.id].at \in {Nowhere, d.servers[c.srv]}

\* A handler under way has the loop, so it is alone: the copy it edits lists the
\* servers that the stored document lists, and the peers it read on a server
\* are there still.
OwnSerial(s) ==
    /\ pc[s] \in SerialStages
    /\ pc[s] # "idle" =>
          /\ s \in Tasks /\ loop = s
          /\ data[s].servers = store.servers /\ data[s].conns \subseteq store.conns
    /\ pc[s] \in {"added", "recording"} => Fits(store, peers, conn[s])
    /\ \A i \in visit[s].seen : peers[i].at = visit[s].at

SerialInv ==
    /\ \A c \in store.conns : Fits(store, peers, c)
    /\ \A s \in Sessions : OwnSerial(s)

\* Nobody else is under way when s moves.
LEMMA Alone ==
    ASSUME SerialInv, NEW s \in Sessions, pc[s] # "idle" \/ (s \in Tasks /\ CanRun(s)),
           NEW t \in Sessions, t # s
    PROVE  pc[t] = "idle"
<1>1. OwnSerial(s) /\ OwnSerial(t)
  BY DEF SerialInv
<1>2. s \in Tasks /\ loop \in {Free, s}
  BY <1>1, SessionsAssumption DEF OwnSerial, CanRun
<1> QED
  BY <1>1, <1>2, SessionsAssumption DEF OwnSerial

\* Between two handlers, and where none is at work on a server, nothing is read.
LEMMA NothingRead ==
    ASSUME IInv, NEW s \in Sessions
    PROVE  /\ pc[s] \notin VisitStages => visit[s] = NoVisit /\ visit[s].seen = {}
           /\ StepOK(s) /\ pc'[s] \notin VisitStages =>
                  visit'[s] = NoVisit /\ visit'[s].seen = {}
BY Blanks DEF IInv, StepOK, Placed

LEMMA SerialStep ==
    ASSUME IInv, SerialInv, NEW s \in Sessions, StepOK(s),
           pc[s] # "idle" \/ (s \in Tasks /\ CanRun(s)),
           \A c \in store'.conns : Fits(store', peers', c),
           OwnSerial(s)'
    PROVE  SerialInv'
<1>1. ASSUME NEW t \in Sessions, t # s
      PROVE  OwnSerial(t)'
  <2>1. pc[t] = "idle" /\ pc'[t] = "idle" /\ visit'[t] = visit[t]
    BY <1>1, Alone, OthersStay
  <2>2. visit'[t].seen = {}
    BY <2>1, NothingRead DEF VisitStages
  <2> QED
    BY <2>1, <2>2 DEF OwnSerial, SerialStages
<1> QED
  BY <1>1 DEF SerialInv

\* A saved document whose records fit, no peer having moved.
LEMMA SerialSaved ==
    ASSUME IInv, SerialInv, NEW s \in Sessions, StepOK(s), pc[s] # "idle",
           NEW d, SaveAndReturn(s, d), peers' = peers,
           \A c \in d.conns : Fits(d, peers, c)
    PROVE  SerialInv'
<1>1. store' = d /\ pc'[s] = "idle" /\ visit'[s] = NoVisit
  BY Saved
<1>2. OwnSerial(s)'
  BY <1>1, Blanks DEF OwnSerial, SerialStages
<1> QED
  BY <1>1, <1>2, SerialStep

\* A handler's copy fits, for it is the stored document or less.
LEMMA CopyFits ==
    ASSUME SerialInv, NEW s \in Sessions, pc[s] # "idle"
    PROVE  /\ data[s].servers = store.servers /\ loop = s /\ s \in Tasks
           /\ \A c \in data[s].conns : Fits(data[s], peers, c)
           /\ \A c \in data[s].conns : c \in store.conns
<1>1. OwnSerial(s) /\ \A c \in store.conns : Fits(store, peers, c)
  BY DEF SerialInv
<1> QED
  BY <1>1 DEF OwnSerial, Fits, Within

\* Where the records of an edited list come from.
LEMMA ReaimedFit ==
    ASSUME NEW d, NEW e, SamePlacement(d, e), IdsOK(e),
           \A y \in e.conns : \E c \in d.conns : c.id = y.id,
           \A c \in d.conns : Fits(d, peers, c)
    PROVE  \A y \in e.conns : Fits(e, peers, y)
<1> SUFFICES ASSUME NEW y \in e.conns PROVE Fits(e, peers, y)
  OBVIOUS
<1>1. PICK c \in d.conns : c.id = y.id
  OBVIOUS
<1>2. Fits(d, peers, c)
  OBVIOUS
<1> DEFINE at == d.servers[c.srv]
           kept == {x \in e.conns : x.id = c.id}
<1>3. IF \E k \in DOMAIN e.servers : e.servers[k] = at
      THEN \E x \in kept : Within(e, x) /\ e.servers[x.srv] = at
      ELSE kept = {}
  BY <1>2 DEF SamePlacement, Fits
<1>4. y \in kept
  BY <1>1
<1>5. PICK x \in kept : Within(e, x) /\ e.servers[x.srv] = at
  BY <1>3, <1>4
<1>6. x = y
  BY <1>1, <1>5 DEF IdsOK
<1> QED
  BY <1>1, <1>2, <1>5, <1>6 DEF Fits

LEMMA SerialEdits ==
    ASSUME IInv, SerialInv, NEW s \in Sessions, StepOK(s),
           \/ CreateToken(s) \/ RevokeToken(s) \/ CreateCode(s) \/ DeleteCode(s)
           \/ ConnectServer(s) \/ RemoveServer(s) \/ MoveServers(s) \/ WriteBack(s)
           \/ CreateUser(s) \/ RecordConnection(s) \/ Unlist(s) \/ SaveRemoval(s)
    PROVE  SerialInv'
<1>1. pc[s] # "idle" /\ peers' = peers
  BY DEF CreateToken, RevokeToken, CreateCode, DeleteCode, ConnectServer, RemoveServer,
         MoveServers, WriteBack, CreateUser, RecordConnection, Unlist, SaveRemoval, Ready
<1>2. /\ data[s] \in Doc /\ DocOK(data[s]) /\ IdsOf(data[s]) \subseteq issued
      /\ data[s].servers = store.servers
      /\ \A c \in data[s].conns : Fits(data[s], peers, c)
  BY <1>1, CopyFits, Copies
<1>3. SUFFICES \E d : SaveAndReturn(s, d) /\ \A c \in d.conns : Fits(d, peers, c)
  BY <1>1, SerialSaved
<1>4. ASSUME NEW d, d.servers = data[s].servers, d.conns \subseteq data[s].conns
      PROVE  \A c \in d.conns : Fits(d, peers, c)
  BY <1>2, <1>4 DEF Fits, Within
<1>5. CASE CreateToken(s)
  <2>1. PICK t : SaveAndReturn(s, AddToken(data[s], t))
    BY <1>5 DEF CreateToken
  <2> QED
    BY <1>2, <1>4, <2>1, EditFields
<1>6. CASE RevokeToken(s)
  <2>1. PICK t : SaveAndReturn(s, DropToken(data[s], t))
    BY <1>6 DEF RevokeToken
  <2> QED
    BY <1>2, <1>4, <2>1, EditFields
<1>7. CASE CreateCode(s)
  <2>1. PICK code : SaveAndReturn(s, AddCode(data[s], code))
    BY <1>7 DEF CreateCode
  <2> QED
    BY <1>2, <1>4, <2>1, EditFields
<1>8. CASE DeleteCode(s)
  <2>1. PICK code : SaveAndReturn(s, DropCode(data[s], code))
    BY <1>8 DEF DeleteCode
  <2> QED
    BY <1>2, <1>4, <2>1, EditFields
<1>9. CASE ConnectServer(s)
  <2>1. PICK v \in Servers : SaveAndReturn(s, AddServer(data[s], v))
    BY <1>9 DEF ConnectServer
  <2> DEFINE d == AddServer(data[s], v)
  <2>2. data[s].servers \in Seq(Servers)
    BY <1>2 DEF Doc
  <2>3. d.conns = data[s].conns /\ d.servers = Append(data[s].servers, v)
    BY <1>2, EditFields
  <2>4. \A k \in DOMAIN data[s].servers :
          k \in DOMAIN d.servers /\ d.servers[k] = data[s].servers[k]
    BY <2>2, <2>3, AppendProperties, LenProperties
  <2> HIDE DEF d
  <2>5. \A c \in d.conns : Fits(d, peers, c)
    BY <1>2, <2>3, <2>4 DEF Fits, Within
  <2> QED
    BY <2>1, <2>5 DEF d
<1>10. CASE RemoveServer(s)
  <2>1. PICK i \in DOMAIN data[s].servers : SaveAndReturn(s, DeleteServer(data[s], i))
    BY <1>10 DEF RemoveServer
  <2> DEFINE d == DeleteServer(data[s], i)
  <2>2. /\ SamePlacement(data[s], d) /\ IdsOK(d)
        /\ \A y \in d.conns : \E c \in data[s].conns : c.id = y.id
    BY <1>2, DeleteKeepsPlacement, DeleteServerGood DEF DocOK
  <2> HIDE DEF d
  <2>3. \A c \in d.conns : Fits(d, peers, c)
    BY <1>2, <2>2, ReaimedFit
  <2> QED
    BY <2>1, <2>3 DEF d
<1>11. CASE MoveServers(s)
  <2>1. PICK o \in Orders(Len(data[s].servers)) : SaveAndReturn(s, ReorderServers(data[s], o))
    BY <1>11 DEF MoveServers
  <2> DEFINE d == ReorderServers(data[s], o)
  <2>2. /\ SamePlacement(data[s], d) /\ IdsOK(d)
        /\ \A y \in d.conns : \E c \in data[s].conns : c.id = y.id
    BY <1>2, ReorderKeepsPlacement, ReorderGood DEF DocOK
  <2> HIDE DEF d
  <2>3. \A c \in d.conns : Fits(d, peers, c)
    BY <1>2, <2>2, ReaimedFit
  <2> QED
    BY <2>1, <2>3 DEF d
<1>12. CASE WriteBack(s) \/ SaveRemoval(s)
  <2>1. SaveAndReturn(s, data[s])
    BY <1>12 DEF WriteBack, SaveRemoval
  <2> QED
    BY <1>2, <2>1
<1>13. CASE CreateUser(s)
  <2>1. PICK u : SaveAndReturn(s, AddUser(data[s], u, NoCode))
    BY <1>13 DEF CreateUser
  <2> QED
    BY <1>2, <1>4, <2>1, EditFields
<1>14. CASE RecordConnection(s)
  <2>1. SaveAndReturn(s, AddConn(data[s], conn[s])) /\ pc[s] = "recording"
    BY <1>14 DEF RecordConnection
  <2>2. Fits(store, peers, conn[s])
    BY <2>1 DEF SerialInv, OwnSerial
  <2> DEFINE d == AddConn(data[s], conn[s])
  <2>3. d.conns = data[s].conns \cup {conn[s]} /\ d.servers = data[s].servers
    BY <1>2, EditFields
  <2> HIDE DEF d
  <2>4. \A c \in d.conns : Fits(d, peers, c)
    BY <1>2, <2>2, <2>3 DEF Fits, Within
  <2> QED
    BY <2>1, <2>4 DEF d
<1>15. CASE Unlist(s)
  <2>1. PICK cs \in SUBSET data[s].conns : SaveAndReturn(s, [data[s] EXCEPT !.conns = cs])
    BY <1>15 DEF Unlist
  <2> DEFINE d == [data[s] EXCEPT !.conns = cs]
  <2>2. d.conns = cs /\ d.servers = data[s].servers
    BY <1>2, EditFields
  <2> HIDE DEF d
  <2>3. \A c \in d.conns : Fits(d, peers, c)
    BY <1>4, <2>2
  <2> QED
    BY <2>1, <2>3 DEF d
<1> QED
  BY <1>5, <1>6, <1>7, <1>8, <1>9, <1>10, <1>11, <1>12, <1>13, <1>14, <1>15

\* A step that moves no peer to another server and stores nothing new.
LEMMA SerialMoved ==
    ASSUME IInv, SerialInv, NEW s \in Sessions, StepOK(s),
           pc[s] # "idle" \/ (s \in Tasks /\ CanRun(s)),
           store'.servers = store.servers, store'.conns = store.conns,
           \A i \in ConnIds : peers'[i].at \in {peers[i].at, Nowhere},
           pc'[s] \in SerialStages,
           pc'[s] # "idle" =>
              /\ s \in Tasks /\ loop' = s
              /\ data'[s].servers = store.servers /\ data'[s].conns \subseteq store.conns,
           pc'[s] \in {"added", "recording"} => Fits(store, peers, conn'[s]),
           pc'[s] \in VisitStages => \A i \in visit'[s].seen : peers'[i].at = visit'[s].at
    PROVE  SerialInv'
<1>1. store.conns \subseteq Conn
  BY DEF IInv, WorkOK, Doc
<1>2. ASSUME NEW c \in Conn, Fits(store, peers, c)
      PROVE  Fits(store', peers', c)
  <2>1. c.id \in ConnIds
    BY DEF Conn
  <2> QED
    BY <1>2, <2>1 DEF Fits, Within
<1>3. \A c \in store'.conns : Fits(store', peers', c)
  BY <1>1, <1>2 DEF SerialInv
<1>4. pc'[s] \in {"added", "recording"} => Fits(store', peers', conn'[s])
  <2>1. ASSUME pc'[s] \in {"added", "recording"} PROVE conn'[s] \in Conn
    BY <2>1 DEF StepOK, Placed, Pending, Creating, CreatingStages
  <2> QED
    BY <1>2, <2>1
<1>5. \A i \in visit'[s].seen : peers'[i].at = visit'[s].at
  BY NothingRead
<1>6. OwnSerial(s)'
  BY <1>4, <1>5 DEF OwnSerial
<1> QED
  BY <1>3, <1>6, SerialStep

\* Writing back a configuration moves no peer that was read where it is.
LEMMA RewrittenPlaces ==
    ASSUME NEW v, NEW i, peers \in [ConnIds -> Peer],
           \A j \in v.seen : peers[j].at = v.at
    PROVE  \A j \in ConnIds : Rewritten(v, i, NoPeer)[j].at \in {peers[j].at, Nowhere}
BY DEF Rewritten, NoPeer, Peer

LEMMA SerialProgress ==
    ASSUME IInv, SerialInv, Serial, NEW s \in Sessions, StepOK(s),
           \/ Load(s) \/ Refuse(s) \/ RemoteFails(s) \/ Reload(s)
           \/ AdminAppend(s) \/ CreateUserWithConnection(s)
           \/ AdminRemove(s) \/ ReadConfig(s) \/ RemovePeer(s)
           \/ RemoveUser(s) \/ VisitPeer(s) \/ PurgePeer(s)
    PROVE  SerialInv'
<1>0. /\ OwnSerial(s) /\ data[s] \in Doc
      /\ peers \in [ConnIds -> Peer]
      /\ (may[s] # {} => s \in Tasks)
  BY Copies DEF SerialInv, Serial
<1>1. pc[s] # "idle" => s \in Tasks /\ loop = s /\ data[s].servers = store.servers
                        /\ data[s].conns \subseteq store.conns
  BY <1>0 DEF OwnSerial
<1>2. CASE Load(s)
  <2>1. /\ s \in Tasks /\ CanRun(s) /\ loop' = s /\ pc'[s] = "loaded"
        /\ data'[s] = store /\ store' = store /\ peers' = peers
    BY <1>0, <1>2 DEF Load, Hold, Goto, IInv, WorkOK
  <2> QED
    BY <1>0, <2>1, SerialMoved DEF SerialStages, VisitStages
<1>3. CASE Reload(s)
  <2>1. /\ pc[s] = "added" /\ loop' = s /\ pc'[s] = "recording"
        /\ data'[s] = store /\ store' = store /\ peers' = peers /\ conn' = conn
    BY <1>0, <1>1, <1>3 DEF Reload, Hold, Goto, IInv, WorkOK, OwnSerial, SerialStages
  <2>2. Fits(store, peers, conn'[s])
    BY <1>0, <2>1 DEF OwnSerial
  <2> QED
    BY <1>0, <1>1, <2>1, <2>2, SerialMoved DEF SerialStages, VisitStages
<1>4. CASE Refuse(s) \/ RemoteFails(s)
  <2>1. SaveAndReturn(s, store) /\ peers' = peers /\ pc[s] # "idle"
    BY <1>4 DEF Refuse, RemoteFails, SaveAndReturn
  <2>2. \A c \in store.conns : Fits(store, peers, c)
    BY DEF SerialInv
  <2> QED
    BY <2>1, <2>2, SerialSaved
<1>5. CASE AdminAppend(s) \/ AdminRemove(s)
  <2>1. /\ pc[s] = "loaded" /\ pc'[s] \in {"appending", "removing"}
        /\ loop' = loop /\ data' = data /\ store' = store /\ peers' = peers
        /\ visit' = visit
    BY <1>5 DEF AdminAppend, AdminRemove, Ready, Begin, Goto, IInv, WorkOK
  <2>2. visit'[s].seen = {}
    BY <2>1, NothingRead DEF VisitStages
  <2> QED
    BY <1>0, <1>1, <2>1, <2>2, SerialMoved DEF SerialStages
<1>6. CASE CreateUserWithConnection(s)
  <2>1. PICK u : /\ store' = AddUser(data[s], u, NoCode)
                 /\ data' = [data EXCEPT ![s] = AddUser(data[s], u, NoCode)]
                 /\ pc[s] = "loaded" /\ pc' = [pc EXCEPT ![s] = "adding"]
                 /\ loop' = loop /\ peers' = peers
    BY <1>6 DEF CreateUserWithConnection, Goto, Ready
  <2>2. /\ store'.servers = store.servers /\ store'.conns = data[s].conns
        /\ data'[s] = store' /\ pc'[s] = "adding"
    BY <1>0, <1>1, <2>1, EditFields DEF IInv, WorkOK
  <2>3. \A c \in store'.conns : Fits(store', peers', c)
    BY <1>1, <2>1, <2>2 DEF SerialInv, Fits, Within
  <2>4. visit'[s].seen = {}
    BY <2>2, NothingRead DEF VisitStages
  <2>5. OwnSerial(s)'
    BY <1>1, <2>1, <2>2, <2>4 DEF OwnSerial, SerialStages
  <2> QED
    BY <2>1, <2>3, <2>5, SerialStep
<1>7. CASE ReadConfig(s)
  <2>1. /\ pc[s] = "removing" /\ pc' = pc /\ loop' = loop /\ data' = data
        /\ store' = store /\ peers' = peers
    BY <1>0, <1>7 DEF ReadConfig, OwnSerial, SerialStages
  <2>2. PICK m : visit'[s] = [at |-> m, seen |-> Working(m)]
    BY <1>7 DEF ReadConfig, Enter, IInv, WorkOK
  <2>3. \A i \in visit'[s].seen : peers'[i].at = visit'[s].at
    BY <2>1, <2>2 DEF Working
  <2> QED
    BY <1>0, <1>1, <2>1, <2>3, SerialMoved DEF SerialStages
<1>8. CASE RemoveUser(s)
  <2>1. PICK u : /\ data' = [data EXCEPT ![s] = DeleteUser(data[s], u)]
                 /\ pc[s] = "loaded" /\ pc' = [pc EXCEPT ![s] = "purging"]
                 /\ loop' = loop /\ store' = store /\ peers' = peers
                 /\ visit' = visit
    BY <1>8 DEF RemoveUser, Goto, Ready
  <2>2. /\ data'[s].servers = store.servers /\ data'[s].conns \subseteq store.conns
        /\ pc'[s] = "purging"
    BY <1>0, <1>1, <2>1, EditFields DEF IInv, WorkOK
  <2>3. visit'[s].seen = {}
    BY <2>1, NothingRead DEF VisitStages
  <2> QED
    BY <1>0, <1>1, <2>1, <2>2, <2>3, SerialMoved DEF SerialStages
<1>9. CASE VisitPeer(s)
  <2>1. PICK c \in left[s], v \in Visit, k \in Target : Visits(s, c, v, k)
    BY <1>9, PeerVisits
  <2>2. /\ pc[s] = "purging" /\ pc' = pc /\ loop' = loop /\ data' = data
        /\ store' = store /\ peers' = peers /\ visit'[s] = v
    BY <1>0, <2>1 DEF Visits, OwnSerial, SerialStages, IInv, WorkOK
  <2>3. \A i \in v.seen : peers[i].at = v.at
    BY <1>0, <2>1 DEF Visits, OwnSerial
  <2> QED
    BY <1>0, <1>1, <2>2, <2>3, SerialMoved DEF SerialStages
<1>10. CASE RemovePeer(s) \/ PurgePeer(s)
  <2>1. /\ pc[s] \in {"removing", "purging"} /\ pc'[s] \in {"unlisting", "purging"}
        /\ loop' = loop /\ data' = data /\ store' = store
        /\ peers' \in {peers, Rewritten(visit[s], conn[s].id, NoPeer)}
    BY <1>0, <1>10 DEF RemovePeer, PurgePeer, Goto, IInv, WorkOK, OwnSerial, SerialStages
  <2>2. \A i \in ConnIds : Rewritten(visit[s], conn[s].id, NoPeer)[i].at
                             \in {peers[i].at, Nowhere}
    BY <1>0, RewrittenPlaces DEF OwnSerial
  <2>3. \A i \in ConnIds : peers'[i].at \in {peers[i].at, Nowhere}
    BY <2>1, <2>2
  <2>4. visit'[s].seen = {}
    BY <1>10, Blanks DEF RemovePeer, PurgePeer, Leave, IInv, WorkOK
  <2> QED
    BY <1>0, <1>1, <2>1, <2>3, <2>4, SerialMoved DEF SerialStages
<1> QED
  BY <1>2, <1>3, <1>4, <1>5, <1>6, <1>7, <1>8, <1>9, <1>10

\* The peer is made where the record will say, for a connection that no
\* document mentions yet.
LEMMA SerialAdd ==
    ASSUME IInv, SerialInv, NEW s \in Sessions, StepOK(s), AddPeer(s)
    PROVE  SerialInv'
<1>1. /\ pc[s] \in {"adding", "appending"} /\ store' = store /\ loop' = loop
      /\ data'[s] = data[s] /\ conn'[s] = conn[s]
      /\ peers' = [peers EXCEPT ![conn[s].id] =
                      [at |-> data[s].servers[conn[s].srv], on |-> TRUE]]
      /\ pc'[s] \in {"added", "recording"}
  BY DEF AddPeer, Goto, IInv, WorkOK
<1>2. /\ OwnSerial(s) /\ Pending(s) /\ conn[s].srv \in DOMAIN data[s].servers
      /\ store.conns \subseteq Conn /\ peers \in [ConnIds -> Peer]
  BY <1>1 DEF SerialInv, IInv, WorkOK, Placed, Creating, CreatingStages, PlacedStages, Doc
<1>3. s \in Tasks /\ loop = s /\ data[s].servers = store.servers
      /\ data[s].conns \subseteq store.conns
  BY <1>1, <1>2 DEF OwnSerial
<1>4. conn[s].id \in ConnIds /\ \A c \in store.conns : c.id # conn[s].id /\ c.id \in ConnIds
  BY <1>2 DEF Pending, Conn
<1>5. /\ peers'[conn[s].id].at = store.servers[conn[s].srv]
      /\ \A c \in store.conns : peers'[c.id] = peers[c.id]
  BY <1>1, <1>2, <1>3, <1>4
<1>6. \A c \in store'.conns : Fits(store', peers', c)
  BY <1>1, <1>5 DEF SerialInv, Fits
<1>7. Fits(store', peers', conn'[s])
  BY <1>1, <1>2, <1>3, <1>5 DEF Fits, Within
<1>8. visit'[s].seen = {}
  BY <1>1, NothingRead DEF VisitStages
<1>9. OwnSerial(s)'
  BY <1>1, <1>3, <1>7, <1>8 DEF OwnSerial, SerialStages
<1> QED
  BY <1>1, <1>6, <1>9, SerialStep

\* The stages and the handlers that need an await or a thread.
LEMMA SerialElsewhere ==
    ASSUME SerialInv, Serial, NEW s \in Sessions,
           \/ StartBackup(s) \/ PersistBackupStatus(s) \/ ToggleUser(s) \/ RaiseLimit(s)
           \/ TogglePeer(s) \/ SaveToggle(s) \/ AdminCreate(s) \/ DropConnection(s)
           \/ s \in Threads /\ (RegisterUser(s) \/ BotCreate(s) \/ BotDelete(s))
    PROVE  FALSE
<1>1. OwnSerial(s) /\ (may[s] # {} => s \in Tasks /\ may[s] \subseteq KeepLoop)
  BY DEF SerialInv, Serial
<1>2. CASE StartBackup(s) \/ ToggleUser(s) \/ RaiseLimit(s) \/ AdminCreate(s)
  BY <1>1, <1>2 DEF StartBackup, ToggleUser, RaiseLimit, AdminCreate, Ready, KeepLoop
<1>3. CASE PersistBackupStatus(s) \/ TogglePeer(s) \/ SaveToggle(s) \/ DropConnection(s)
  BY <1>1, <1>3 DEF PersistBackupStatus, TogglePeer, SaveToggle, DropConnection,
                    OwnSerial, SerialStages
<1>4. CASE s \in Threads /\ (RegisterUser(s) \/ BotCreate(s) \/ BotDelete(s))
  BY <1>1, <1>4, SessionsAssumption DEF RegisterUser, BotCreate, BotDelete, Ready
<1> QED
  BY <1>2, <1>3, <1>4

LEMMA NextKeepsSerial ==
    ASSUME IInv, Serial, SerialInv, [Next]_vars
    PROVE  SerialInv' /\ Serial'
<1>1. Serial'
  BY DEF Serial, Next, Observe, vars
<1>2. ASSUME NEW s \in Tasks, Task(s) PROVE SerialInv'
  <2>1. s \in Sessions
    BY DEF Sessions
  <2>2. StepOK(s)
    BY <1>2, <2>1, SessionStep
  <2>3. ~ (StartBackup(s) \/ PersistBackupStatus(s) \/ ToggleUser(s) \/ RaiseLimit(s)
             \/ TogglePeer(s) \/ SaveToggle(s) \/ AdminCreate(s))
    BY <2>1, SerialElsewhere
  <2>4. CASE \/ CreateToken(s) \/ RevokeToken(s) \/ DeleteCode(s) \/ ConnectServer(s)
             \/ RemoveServer(s) \/ MoveServers(s) \/ CreateUser(s) \/ SaveRemoval(s)
             \/ Unlist(s)
    BY <2>1, <2>2, <2>4, SerialEdits
  <2>5. CASE \/ AdminAppend(s) \/ CreateUserWithConnection(s)
             \/ AdminRemove(s) \/ RemoveUser(s) \/ VisitPeer(s) \/ PurgePeer(s)
    BY <2>1, <2>2, <2>5, SerialProgress
  <2> QED
    BY <1>2, <2>3, <2>4, <2>5 DEF Task
<1>3. ASSUME NEW s \in Threads, Thread(s) PROVE FALSE
  BY <1>3, SerialElsewhere DEF Thread, Sessions
<1>4. ASSUME NEW s \in Sessions, Either(s) PROVE SerialInv'
  <2>1. StepOK(s)
    BY <1>4, SessionStep
  <2> QED
    BY <1>4, <2>1, SerialEdits, SerialProgress, SerialAdd DEF Either
<1>5. CASE Restart
  <2>1. /\ store' = store /\ peers' = peers
        /\ \A s \in Sessions : pc'[s] = "idle" /\ visit'[s] = NoVisit
    BY <1>5 DEF Restart
  <2>2. \A s \in Sessions : OwnSerial(s)'
    BY <2>1, Blanks DEF OwnSerial, SerialStages
  <2> QED
    BY <1>1, <2>1, <2>2 DEF SerialInv
<1>6. CASE UNCHANGED vars
  BY <1>1, <1>6 DEF vars, SerialInv, OwnSerial
<1> QED
  BY <1>1, <1>2, <1>3, <1>4, <1>5, <1>6 DEF Next

\* Where the peer of a record is when the process starts.
LEMMA InitPeers ==
    ASSUME Init
    PROVE  /\ store \in Doc /\ DocOK(store)
           /\ \A i \in ConnIds : \/ peers[i] = NoPeer
                                 \/ \E c \in store.conns : c.id = i /\ Within(store, c)
           /\ \A c \in store.conns :
                IF Within(store, c) THEN peers[c.id] = [at |-> store.servers[c.srv], on |-> TRUE]
                                    ELSE peers[c.id] = NoPeer
<1>1. store \in Doc /\ DocOK(store)
  BY ScenesAssumption DEF Init
<1> DEFINE place(i) == CHOOSE c \in store.conns : c.id = i
<1>2. peers = [i \in ConnIds |->
                 IF \E c \in store.conns : c.id = i /\ Within(store, c)
                 THEN [at |-> store.servers[place(i).srv], on |-> TRUE]
                 ELSE NoPeer]
  BY DEF Init
<1>3. \A c \in store.conns : place(c.id) = c
  <2> TAKE c \in store.conns
  <2>1. place(c.id) \in store.conns /\ place(c.id).id = c.id
    OBVIOUS
  <2> HIDE DEF place
  <2> QED
    BY <1>1, <2>1 DEF DocOK, IdsOK
<1> HIDE DEF place
<1>4. ASSUME NEW c \in store.conns
      PROVE  IF Within(store, c) THEN peers[c.id] = [at |-> store.servers[c.srv], on |-> TRUE]
                                 ELSE peers[c.id] = NoPeer
  <2>1. c.id \in ConnIds
    BY <1>1 DEF Doc, Conn
  <2>2. (\E x \in store.conns : x.id = c.id /\ Within(store, x)) <=> Within(store, c)
    BY <1>1 DEF DocOK, IdsOK
  <2>3. peers[c.id] = IF Within(store, c)
                      THEN [at |-> store.servers[place(c.id).srv], on |-> TRUE]
                      ELSE NoPeer
    BY <1>2, <2>1, <2>2
  <2> QED
    BY <1>3, <2>3
<1>5. \A i \in ConnIds : \/ peers[i] = NoPeer
                         \/ \E c \in store.conns : c.id = i /\ Within(store, c)
  BY <1>2
<1> QED
  BY <1>1, <1>4, <1>5

\* Handlers that keep the loop from load to save, through every deletion and
\* reorder of servers, leave each record naming the server its peer was made
\* on, if the records name listed servers at the start (api_add_connection,
\* api_remove_connection, api_add_user, api_delete_server, api_reorder_servers).
THEOREM RecordsHold ==
    Spec /\ (\A c \in store.conns : Within(store, c)) => []RecordsMatchPeers
<1> DEFINE Listed == \A c \in store.conns : Within(store, c)
           Safe == Serial => SerialInv
<1>1. Init /\ Listed => Safe
  <2> SUFFICES ASSUME Init, Listed PROVE SerialInv
    OBVIOUS
  <2>1. \A c \in store.conns : peers[c.id] = [at |-> store.servers[c.srv], on |-> TRUE]
    BY InitPeers
  <2>2. ASSUME NEW c \in store.conns PROVE Fits(store, peers, c)
    <3>1. Within(store, c)
      BY <2>2
    <3>2. peers[c.id] = [at |-> store.servers[c.srv], on |-> TRUE]
      BY <2>1, <2>2
    <3>3. peers[c.id].at = store.servers[c.srv]
      BY <3>2
    <3> QED
      BY <3>1, <3>3 DEF Fits
  <2>3. \A s \in Sessions : OwnSerial(s)
    BY Blanks DEF Init, OwnSerial, SerialStages
  <2> QED
    BY <2>2, <2>3 DEF SerialInv
<1>2. IInv /\ Safe /\ [Next]_vars => Safe'
  <2> SUFFICES ASSUME IInv, Safe, [Next]_vars, Serial' PROVE SerialInv'
    OBVIOUS
  <2>1. may' = may
    BY DEF Next, Observe, vars
  <2>2. Serial
    BY <2>1 DEF Serial
  <2> QED
    BY <2>2, NextKeepsSerial
<1>3. Safe => RecordsMatchPeers
  BY DEF RecordsMatchPeers, Serial, SerialInv, Fits
<1> HIDE DEF Listed, Safe
<1>4. Spec /\ Listed => []Safe
  BY <1>1, <1>2, SpecIInv, PTL DEF Spec
<1>5. []Safe => []RecordsMatchPeers
  BY <1>3, PTL
<1> QED
  BY <1>4, <1>5 DEF Listed

-----------------------------------------------------------------------------
(* Deleted connections, while the list of servers stands still *)

\* No session edits the list of servers.
Still == \A s \in Sessions : "servers" \notin may[s]

AddStages == {"adding", "appending"}
GoneStages == {"removed", "dropping", "unlisting"}

\* With h the position at which every id was handed out: i has been, and its
\* server is listed.
Settled(h, i) == i \in issued /\ h[i] \in DOMAIN store.servers

\* Nothing brings the peer of i back -- or its removal raced with a session
\* that was at work on the same server.
Gone(i) ==
    \/ i \in acked.raced
    \/ peers[i] = NoPeer /\ \A t \in Sessions : i \notin visit[t].seen

\* Its peer is still to be made, and nobody knows of it.
Untouched(i) ==
    /\ peers[i] = NoPeer /\ i \notin acked.deleted
    /\ \A q \in shown : q[1] # i
    /\ \A t \in Sessions : i \notin visit[t].seen /\ (Removing(t) => conn[t].id # i)

OwnStill(h, s) ==
    /\ pc[s] # "idle" => data[s].servers = store.servers
    /\ \A c \in data[s].conns : c.srv = h[c.id]
    /\ \A i \in visit[s].seen : Settled(h, i) /\ visit[s].at = store.servers[h[i]]
    /\ Creating(s) => conn[s].srv = h[conn[s].id]
    /\ pc[s] \in AddStages => Untouched(conn[s].id)
    /\ Removing(s) => conn[s].id \in issued /\ conn[s].srv = h[conn[s].id]
    /\ pc[s] \in {"deleting", "removing"} /\ visit[s].at # Nowhere =>
           visit[s].at = store.servers[conn[s].srv]
    /\ pc[s] \in GoneStages => Gone(conn[s].id)

\* Every record, copy, page and handler that mentions an id agrees on its
\* position, and so does its peer; a peer whose deletion was confirmed is gone.
Homes(h) ==
    /\ \A i \in ConnIds : peers[i] # NoPeer =>
           Settled(h, i) /\ peers[i].at = store.servers[h[i]]
    /\ \A c \in store.conns : c.srv = h[c.id]
    /\ \A q \in shown : q[1] \in issued /\ q[2] = h[q[1]]
    /\ \A i \in acked.deleted : i \in issued /\ Gone(i)
    /\ \A s \in Sessions : OwnStill(h, s)

Positions == [ConnIds -> Nat \ {0}]
StillInv == \E h \in Positions : Homes(h)

\* What a step of s may do to peer i: leave it, remove it, or set it up on its
\* server if it is there, was read there, or is the one s is making.
Moves(h, s, i) ==
    \/ peers'[i] \in {peers[i], NoPeer}
    \/ /\ Settled(h, i) /\ peers'[i].at = store.servers[h[i]]
       /\ \/ peers[i] # NoPeer
          \/ i \in visit[s].seen
          \/ pc[s] \in AddStages /\ conn[s].id = i

\* What s may have read: what it had read, or peers that are there.
Reads(s, i) ==
    \/ i \in visit[s].seen /\ visit'[s].at = visit[s].at
    \/ i \in ConnIds /\ peers[i] # NoPeer /\ peers[i].at = visit'[s].at

\* The pages show a connection where it is.
LEMMA StillShown ==
    ASSUME IInv', PagesAdded, NEW h \in Positions,
           \A i \in ConnIds : peers'[i] # NoPeer =>
               i \in issued' /\ h[i] \in DOMAIN store'.servers
               /\ peers'[i].at = store'.servers[h[i]],
           \A c \in store'.conns : c.srv = h[c.id]
    PROVE  /\ \A q \in shown' : q \in shown \/ (q[1] \in issued' /\ q[2] = h[q[1]])
           /\ \A i \in ConnIds :
                 /\ peers'[i] = NoPeer
                 /\ \A c \in store'.conns : c.id # i
                 /\ \A q \in shown : q[1] # i
                 => \A q \in shown' : q[1] # i
<1>1. store' \in Doc /\ IdsOf(store') \subseteq issued' /\ IdsOK(store')
  BY DEF IInv, WorkOK, Good, DocOK
<1>2. \A k \in DOMAIN store'.servers : store'.servers[k] \in Servers
  <2>1. store'.servers \in Seq(Servers)
    BY <1>1 DEF Doc
  <2> QED
    BY <2>1, LenProperties, ElementOfSeq
<1>3. \A c \in store'.conns : c.id \in issued' /\ c.id \in ConnIds
  BY <1>1 DEF Doc, Conn, IdsOf
<1>4. ASSUME NEW q \in Pages'
      PROVE  \/ \E c \in store'.conns : q[1] = c.id /\ q[2] = c.srv
             \/ /\ q[1] \in ConnIds /\ q[2] \in DOMAIN store'.servers
                /\ peers'[q[1]].at = store'.servers[q[2]] /\ peers'[q[1]] # NoPeer
  <2>1. CASE \E c \in store'.conns : q = <<c.id, c.srv>>
    BY <2>1
  <2>2. CASE ~ \E c \in store'.conns : q = <<c.id, c.srv>>
    <3>1. /\ q \in ConnIds \X DOMAIN store'.servers
          /\ peers'[q[1]].at = store'.servers[q[2]]
      BY <2>2 DEF Pages
    <3>2. q[1] \in ConnIds /\ q[2] \in DOMAIN store'.servers
      BY <3>1
    <3>3. peers'[q[1]].at # Nowhere
      BY <1>2, <3>1, <3>2, SessionsAssumption
    <3> QED
      BY <3>1, <3>2, <3>3 DEF NoPeer
  <2> QED
    BY <2>1, <2>2
<1>5. ASSUME NEW q \in Pages' PROVE q[1] \in issued' /\ q[2] = h[q[1]]
  <2>1. CASE \E c \in store'.conns : q[1] = c.id /\ q[2] = c.srv
    BY <1>3, <2>1
  <2>2. CASE /\ q[1] \in ConnIds /\ q[2] \in DOMAIN store'.servers
             /\ peers'[q[1]].at = store'.servers[q[2]] /\ peers'[q[1]] # NoPeer
    BY <1>1, <2>2 DEF IdsOK
  <2> QED
    BY <1>4, <2>1, <2>2
<1>6. ASSUME NEW i \in ConnIds, peers'[i] = NoPeer, \A c \in store'.conns : c.id # i,
             \A q \in shown : q[1] # i, NEW q \in shown'
      PROVE  q[1] # i
  BY <1>4, <1>6 DEF PagesAdded
<1> QED
  BY <1>5, <1>6 DEF PagesAdded

LEMMA StillMoved ==
    ASSUME IInv, NEW h \in Positions, Homes(h), NEW s \in Sessions, StepOK(s), PagesAdded,
           store'.servers = store.servers,
           pc'[s] # "idle" => data'[s].servers = store.servers,
           \A c \in store'.conns \cup data'[s].conns : c.srv = h[c.id],
           \A i \in ConnIds : Moves(h, s, i),
           \A i \in visit'[s].seen : Reads(s, i),
           Creating(s)' => conn'[s].srv = h[conn'[s].id],
           pc'[s] \in AddStages => conn'[s].id \notin issued,
           Removing(s)' =>
               /\ conn'[s].srv = h[conn'[s].id]
               /\ \/ Removing(s) /\ conn'[s].id = conn[s].id
                  \/ \E c \in data[s].conns : c.id = conn'[s].id
                  \/ \E q \in shown : q[1] = conn'[s].id,
           pc'[s] \in {"deleting", "removing"} /\ visit'[s].at # Nowhere =>
               visit'[s].at = store.servers[conn'[s].srv],
           pc'[s] \in GoneStages => Gone(conn[s].id)',
           acked.raced \subseteq acked'.raced,
           \A i \in acked'.deleted \ acked.deleted : pc[s] \in GoneStages /\ i = conn[s].id
    PROVE  Homes(h)'
<1>0. /\ IInv' /\ issued \subseteq issued' /\ Placed(s)'
      /\ acked \in Acks /\ acked' \in Acks
      /\ store \in Doc /\ store' \in Doc
      /\ peers \in [ConnIds -> Peer] /\ peers' \in [ConnIds -> Peer]
      /\ visit'[s] \in Visit
  BY StepKeepsIInv DEF IInv, WorkOK, StepOK
<1>1. OwnStill(h, s) /\ Placed(s) /\ Good(data[s])
  BY DEF Homes, IInv
<1>2. ASSUME NEW t \in Sessions, t # s
      PROVE  /\ pc'[t] = pc[t] /\ data'[t] = data[t] /\ conn'[t] = conn[t]
             /\ visit'[t] = visit[t]
  BY <1>2, OthersStay
<1>3. ASSUME NEW i, Settled(h, i)
      PROVE  Settled(h, i)' /\ store'.servers[h[i]] = store.servers[h[i]]
  BY <1>0, <1>3 DEF Settled
<1>4. ASSUME NEW i \in ConnIds, peers'[i] # NoPeer
      PROVE  Settled(h, i) /\ peers'[i].at = store.servers[h[i]]
  BY <1>4 DEF Moves, Homes
<1>5. ASSUME NEW i \in visit'[s].seen
      PROVE  /\ i \in ConnIds /\ Settled(h, i) /\ visit'[s].at = store.servers[h[i]]
             /\ i \in visit[s].seen \/ peers[i] # NoPeer
  <2>1. i \in ConnIds /\ Reads(s, i)
    BY <1>0 DEF Visit
  <2> QED
    BY <1>1, <2>1 DEF Reads, Homes, OwnStill
<1>6. ASSUME NEW i \in ConnIds, peers[i] = NoPeer, \A t \in Sessions : i \notin visit[t].seen,
             ~ (pc[s] \in AddStages /\ conn[s].id = i)
      PROVE  peers'[i] = NoPeer /\ \A t \in Sessions : i \notin visit'[t].seen
  <2>1. peers'[i] = NoPeer
    BY <1>6 DEF Moves
  <2>2. ASSUME NEW t \in Sessions PROVE i \notin visit'[t].seen
    BY <1>2, <1>5, <1>6
  <2> QED
    BY <2>1, <2>2
<1>7. ASSUME NEW i \in ConnIds, Gone(i), ~ (pc[s] \in AddStages /\ conn[s].id = i)
      PROVE  Gone(i)'
  BY <1>6, <1>7 DEF Gone
<1>8. \A i \in acked'.deleted : i \in issued /\ Gone(i)'
  <2> SUFFICES ASSUME NEW i \in acked'.deleted PROVE i \in issued /\ Gone(i)'
    OBVIOUS
  <2>1. i \in ConnIds
    BY <1>0 DEF Acks
  <2>2. CASE i \in acked.deleted
    BY <1>1, <1>7, <2>1, <2>2 DEF Homes, OwnStill, Untouched
  <2>3. CASE i \notin acked.deleted
    <3>1. pc[s] \in GoneStages /\ i = conn[s].id
      BY <2>3
    <3>2. Removing(s) /\ pc[s] \notin AddStages
      BY <3>1 DEF Removing, RemovingStages, GoneStages, AddStages
    <3> QED
      BY <1>1, <1>7, <2>1, <3>1, <3>2 DEF OwnStill
  <2> QED
    BY <2>2, <2>3
<1>9. /\ \A q \in shown' : q[1] \in issued' /\ q[2] = h[q[1]]
      /\ \A i \in ConnIds : /\ peers'[i] = NoPeer
                            /\ \A c \in store'.conns : c.id # i
                            /\ \A q \in shown : q[1] # i
                            => \A q \in shown' : q[1] # i
  <2>1. \A i \in ConnIds : peers'[i] # NoPeer =>
            i \in issued' /\ h[i] \in DOMAIN store'.servers
            /\ peers'[i].at = store'.servers[h[i]]
    BY <1>3, <1>4 DEF Settled
  <2>2. \A q \in shown : q[1] \in issued' /\ q[2] = h[q[1]]
    BY <1>0 DEF Homes
  <2> QED
    BY <1>0, <2>1, <2>2, StillShown
<1>10. ASSUME NEW t \in Sessions, pc'[t] \in AddStages, NEW i, i = conn'[t].id
       PROVE  Untouched(i)'
  <2>1. Pending(t)' /\ i \in ConnIds
    <3>1. Placed(t)' /\ Creating(t)'
      BY <1>0, <1>10 DEF IInv, AddStages, Creating, CreatingStages
    <3> QED
      BY <1>10, <3>1 DEF Placed, Pending, Conn
  <2>2. Untouched(i) /\ ~ (pc[s] \in AddStages /\ conn[s].id = i)
    <3>1. CASE t = s
      <4>1. i \notin issued
        BY <1>10, <3>1
      <4>2. peers[i] = NoPeer /\ i \notin acked.deleted /\ \A q \in shown : q[1] # i
        BY <2>1, <4>1 DEF Homes, Settled
      <4>3. \A r \in Sessions : i \notin visit[r].seen /\ (Removing(r) => conn[r].id # i)
        BY <4>1 DEF Homes, OwnStill, Settled
      <4>4. pc[s] \in AddStages => conn[s].id \in issued
        BY <1>1 DEF Placed, Pending, AddStages, Creating, CreatingStages
      <4> QED
        BY <4>1, <4>2, <4>3, <4>4 DEF Untouched
    <3>2. CASE t # s
      <4>1. pc[t] \in AddStages /\ i = conn[t].id
        BY <1>2, <1>10, <3>2
      <4>2. OwnStill(h, t) /\ Placed(t)
        BY DEF Homes, IInv
      <4>3. Untouched(i)
        BY <4>1, <4>2 DEF OwnStill
      <4>4. Pending(t)
        BY <4>1, <4>2 DEF Placed, AddStages, Creating, CreatingStages
      <4>5. pc[s] \in AddStages => conn[s].id # i
        BY <3>2, <4>1, <4>4 DEF Pending, AddStages, Creating, CreatingStages
      <4> QED
        BY <4>3, <4>5
    <3> QED
      BY <3>1, <3>2
  <2>3. peers'[i] = NoPeer /\ \A r \in Sessions : i \notin visit'[r].seen
    BY <1>6, <2>1, <2>2 DEF Untouched
  <2>4. \A q \in shown' : q[1] # i
    BY <1>9, <1>10, <2>1, <2>2, <2>3 DEF Untouched, Pending
  <2>5. i \notin acked'.deleted
    <3>1. pc[s] \in GoneStages => conn[s].id # i
      BY <2>2 DEF Untouched, GoneStages, Removing, RemovingStages
    <3> QED
      BY <2>2, <3>1 DEF Untouched
  <2>6. ASSUME NEW r \in Sessions, Removing(r)' PROVE conn'[r].id # i
    <3>1. CASE r # s
      <4>1. Removing(r) /\ conn'[r] = conn[r]
        BY <1>2, <2>6, <3>1 DEF Removing
      <4> QED
        BY <2>2, <4>1 DEF Untouched
    <3>2. CASE r = s
      <4>1. t # s
        BY <1>10, <2>6, <3>2 DEF AddStages, Removing, RemovingStages
      <4>2. \A c \in data[s].conns : c.id # i
        <5>1. Pending(t) /\ i = conn[t].id
          BY <1>2, <1>10, <4>1 DEF IInv, Placed, AddStages, Creating, CreatingStages
        <5> QED
          BY <5>1 DEF Pending
      <4> QED
        BY <2>2, <2>6, <3>2, <4>2 DEF Untouched
    <3> QED
      BY <3>1, <3>2
  <2> QED
    BY <2>3, <2>4, <2>5, <2>6 DEF Untouched
<1>11. \A t \in Sessions : pc'[t] \in AddStages => Untouched(conn[t].id)'
  BY <1>10 DEF Untouched
<1>12. ASSUME NEW t \in Sessions, t # s PROVE OwnStill(h, t)'
  <2>1. /\ pc'[t] = pc[t] /\ data'[t] = data[t] /\ conn'[t] = conn[t]
        /\ visit'[t] = visit[t]
    BY <1>2, <1>12
  <2>2. OwnStill(h, t) /\ Placed(t)
    BY DEF Homes, IInv
  <2>3. \A i \in visit'[t].seen : Settled(h, i)' /\ visit'[t].at = store'.servers[h[i]]
    BY <1>3, <2>1, <2>2 DEF OwnStill
  <2>4. /\ Creating(t)' => conn'[t].srv = h[conn'[t].id]
        /\ Removing(t)' => conn'[t].id \in issued' /\ conn'[t].srv = h[conn'[t].id]
    BY <1>0, <2>1, <2>2 DEF OwnStill, Creating, Removing
  <2>5. pc'[t] \in GoneStages => Gone(conn[t].id)'
    <3>1. ASSUME pc[t] \in GoneStages, NEW i, i = conn[t].id PROVE Gone(i)'
      <4>1. Removing(t) /\ i \in ConnIds /\ Gone(i)
        BY <2>2, <3>1 DEF Placed, OwnStill, Removing, RemovingStages, GoneStages
      <4>2. ~ (pc[s] \in AddStages /\ conn[s].id = i)
        BY <1>1, <3>1, <4>1 DEF OwnStill, Untouched
      <4> QED
        BY <1>7, <4>1, <4>2
    <3> QED
      BY <2>1, <3>1 DEF Gone
  <2> QED
    BY <1>11, <2>1, <2>2, <2>3, <2>4, <2>5 DEF OwnStill
<1>13. OwnStill(h, s)'
  <2>1. \A i \in visit'[s].seen : Settled(h, i)' /\ visit'[s].at = store'.servers[h[i]]
    BY <1>3, <1>5
  <2>2. Removing(s)' => conn'[s].id \in issued'
    <3>1. \A c \in data[s].conns : c.id \in issued
      BY <1>1 DEF Good, IdsOf
    <3>2. \A q \in shown : q[1] \in issued
      BY DEF Homes
    <3> QED
      BY <1>0, <1>1, <3>1, <3>2 DEF OwnStill
  <2> QED
    BY <1>11, <2>1, <2>2 DEF OwnStill
<1>14. \A i \in ConnIds : peers'[i] # NoPeer =>
           Settled(h, i)' /\ peers'[i].at = store'.servers[h[i]]
  BY <1>3, <1>4
<1>15. \A i \in acked'.deleted : i \in issued' /\ Gone(i)'
  BY <1>0, <1>8
<1>16. \A t \in Sessions : OwnStill(h, t)'
  BY <1>12, <1>13
<1> QED
  BY <1>9, <1>14, <1>15, <1>16 DEF Homes

\* Saving records where they were handed out, and returning.
LEMMA StillSaved ==
    ASSUME IInv, NEW h \in Positions, Homes(h), NEW s \in Sessions, StepOK(s), PagesAdded,
           NEW d, SaveAndReturn(s, d), peers' = peers,
           d.servers = store.servers, \A c \in d.conns : c.srv = h[c.id],
           acked'.raced = acked.raced,
           \A i \in acked'.deleted \ acked.deleted : pc[s] \in GoneStages /\ i = conn[s].id
    PROVE  Homes(h)'
<1>1. store' = d /\ pc'[s] = "idle" /\ data'[s] = NoDoc /\ visit'[s] = NoVisit
  BY Saved
<1>2. \A c \in store'.conns \cup data'[s].conns : c.srv = h[c.id]
  BY <1>1, NoDocGood
<1>3. \A i \in ConnIds : Moves(h, s, i)
  BY DEF Moves
<1>4. \A i \in visit'[s].seen : Reads(s, i)
  BY <1>1, Blanks
<1>5. /\ ~ Creating(s)' /\ ~ Removing(s)' /\ pc'[s] \notin AddStages
      /\ pc'[s] \notin GoneStages /\ pc'[s] \notin {"deleting", "removing"}
  BY <1>1 DEF Creating, Removing, CreatingStages, RemovingStages, GoneStages, AddStages
<1> QED
  BY <1>1, <1>2, <1>3, <1>4, <1>5, StillMoved

LEMMA StillCopy ==
    ASSUME IInv, NEW h \in Positions, Homes(h), NEW s \in Sessions, pc[s] # "idle"
    PROVE  /\ data[s] \in Doc /\ data[s].servers = store.servers
           /\ \A c \in data[s].conns : c.srv = h[c.id] /\ c.id \in issued
           /\ \A c \in store.conns : c.srv = h[c.id]
           /\ OwnStill(h, s) /\ Placed(s)
BY Copies DEF Homes, OwnStill, IInv, Good, IdsOf

LEMMA StillEdits ==
    ASSUME IInv, NEW h \in Positions, Homes(h), NEW s \in Sessions, StepOK(s), PagesAdded,
           \/ CreateToken(s) \/ RevokeToken(s) \/ CreateCode(s) \/ DeleteCode(s)
           \/ WriteBack(s) \/ PersistBackupStatus(s) \/ SaveToggle(s) \/ SaveRemoval(s)
           \/ RegisterUser(s) \/ CreateUser(s) \/ RecordConnection(s)
           \/ Refuse(s) \/ RemoteFails(s)
    PROVE  Homes(h)'
<1>1. pc[s] # "idle"
  BY DEF CreateToken, RevokeToken, CreateCode, DeleteCode, WriteBack, PersistBackupStatus,
         SaveToggle, SaveRemoval, RegisterUser, CreateUser, RecordConnection, Refuse,
         RemoteFails, Ready
<1>2. /\ data[s] \in Doc /\ data[s].servers = store.servers
      /\ \A c \in data[s].conns : c.srv = h[c.id]
      /\ \A c \in store.conns : c.srv = h[c.id]
      /\ OwnStill(h, s)
  BY <1>1, StillCopy
<1>3. peers' = peers /\ acked'.deleted = acked.deleted /\ acked'.raced = acked.raced
  <2>1. acked \in Acks
    BY DEF IInv, WorkOK
  <2>2. CASE RevokeToken(s)
    BY <2>1, <2>2 DEF RevokeToken, Acks
  <2>3. CASE ~ RevokeToken(s)
    BY <2>3 DEF CreateToken, CreateCode, DeleteCode, WriteBack, PersistBackupStatus,
       SaveToggle, SaveRemoval, RegisterUser, CreateUser, RecordConnection, Refuse,
       RemoteFails
  <2> QED
    BY <2>2, <2>3
<1>4. ASSUME NEW d, SaveAndReturn(s, d),
             d.servers = data[s].servers, \A c \in d.conns : c.srv = h[c.id]
      PROVE  Homes(h)'
  BY <1>2, <1>3, <1>4, StillSaved
<1>5. CASE CreateToken(s)
  <2>1. PICK t : SaveAndReturn(s, AddToken(data[s], t))
    BY <1>5 DEF CreateToken
  <2> QED
    BY <1>2, <1>4, <2>1, EditFields
<1>6. CASE RevokeToken(s)
  <2>1. PICK t : SaveAndReturn(s, DropToken(data[s], t))
    BY <1>6 DEF RevokeToken
  <2> QED
    BY <1>2, <1>4, <2>1, EditFields
<1>7. CASE CreateCode(s)
  <2>1. PICK code : SaveAndReturn(s, AddCode(data[s], code))
    BY <1>7 DEF CreateCode
  <2> QED
    BY <1>2, <1>4, <2>1, EditFields
<1>8. CASE DeleteCode(s)
  <2>1. PICK code : SaveAndReturn(s, DropCode(data[s], code))
    BY <1>8 DEF DeleteCode
  <2> QED
    BY <1>2, <1>4, <2>1, EditFields
<1>9. CASE WriteBack(s) \/ PersistBackupStatus(s) \/ SaveToggle(s) \/ SaveRemoval(s)
  <2>1. SaveAndReturn(s, data[s])
    BY <1>9 DEF WriteBack, PersistBackupStatus, SaveToggle, SaveRemoval
  <2> QED
    BY <1>2, <1>4, <2>1
<1>10. CASE RegisterUser(s)
  <2>1. PICK u, code : SaveAndReturn(s, Register(data[s], u, code))
    BY <1>10 DEF RegisterUser
  <2> QED
    BY <1>2, <1>4, <2>1, EditFields
<1>11. CASE CreateUser(s)
  <2>1. PICK u : SaveAndReturn(s, AddUser(data[s], u, NoCode))
    BY <1>11 DEF CreateUser
  <2> QED
    BY <1>2, <1>4, <2>1, EditFields
<1>12. CASE RecordConnection(s)
  <2>1. SaveAndReturn(s, AddConn(data[s], conn[s])) /\ Creating(s)
    BY <1>12 DEF RecordConnection, Creating, CreatingStages
  <2>2. conn[s].srv = h[conn[s].id]
    BY <1>2, <2>1 DEF OwnStill
  <2> DEFINE d == AddConn(data[s], conn[s])
  <2>3. d.conns = data[s].conns \cup {conn[s]} /\ d.servers = data[s].servers
    BY <1>2, EditFields
  <2> HIDE DEF d
  <2>4. \A c \in d.conns : c.srv = h[c.id]
    BY <1>2, <2>2, <2>3
  <2> QED
    BY <1>4, <2>1, <2>3, <2>4 DEF d
<1>13. CASE Refuse(s) \/ RemoteFails(s)
  <2>1. SaveAndReturn(s, store)
    BY <1>13 DEF Refuse, RemoteFails, SaveAndReturn
  <2> QED
    BY <1>2, <1>4, <2>1
<1> QED
  BY <1>5, <1>6, <1>7, <1>8, <1>9, <1>10, <1>11, <1>12, <1>13

\* The two deletions confirm the end of a peer that is gone.
LEMMA StillConfirms ==
    ASSUME IInv, NEW h \in Positions, Homes(h), NEW s \in Sessions, StepOK(s), PagesAdded,
           DropConnection(s) \/ Unlist(s)
    PROVE  Homes(h)'
<1>1. pc[s] \in {"dropping", "unlisting"} /\ peers' = peers
  BY DEF DropConnection, Unlist
<1>2. /\ data[s] \in Doc /\ data[s].servers = store.servers
      /\ \A c \in data[s].conns : c.srv = h[c.id]
  BY <1>1, StillCopy
<1>3. PICK cs \in SUBSET data[s].conns : SaveAndReturn(s, [data[s] EXCEPT !.conns = cs])
  <2>1. CASE DropConnection(s)
    <3> DEFINE cs == {c \in data[s].conns : c.id # conn[s].id}
    <3>1. SaveAndReturn(s, [data[s] EXCEPT !.conns = cs])
      BY <2>1 DEF DropConnection, DropConn
    <3> QED
      BY <3>1
  <2>2. CASE Unlist(s)
    <3> DEFINE cs == data[s].conns \ {c \in data[s].conns : c.id = conn[s].id
                                                         /\ c.srv = conn[s].srv}
    <3>1. SaveAndReturn(s, [data[s] EXCEPT !.conns = cs])
      BY <2>2 DEF Unlist
    <3> QED
      BY <3>1
  <2> QED
    BY <2>1, <2>2
<1> DEFINE d == [data[s] EXCEPT !.conns = cs]
<1>4. d.conns = cs /\ d.servers = data[s].servers
  BY <1>2, EditFields
<1>5. pc[s] \in GoneStages
  BY <1>1 DEF GoneStages
<1>6. /\ acked'.deleted = acked.deleted \cup {conn[s].id}
      /\ acked'.raced = acked.raced
  BY DEF DropConnection, Unlist, IInv, WorkOK, Acks
<1>7. SaveAndReturn(s, d)
  BY <1>3
<1> HIDE DEF d
<1>8. \A c \in d.conns : c.srv = h[c.id]
  BY <1>2, <1>4
<1> QED
  BY <1>1, <1>2, <1>4, <1>5, <1>6, <1>7, <1>8, StillSaved

\* Steps that leave the servers alone and begin no visit.
LEMMA StillPlain ==
    ASSUME IInv, NEW h \in Positions, Homes(h), NEW s \in Sessions, StepOK(s), PagesAdded,
           peers' = peers, acked' = acked, visit' = visit, visit[s] = NoVisit,
           store'.servers = store.servers, data'[s].servers = store.servers,
           \A c \in store'.conns \cup data'[s].conns : c.srv = h[c.id],
           Creating(s)' => conn'[s].srv = h[conn'[s].id],
           pc'[s] \in AddStages => conn'[s].id \notin issued,
           Removing(s)' =>
               /\ conn'[s].srv = h[conn'[s].id]
               /\ \/ Removing(s) /\ conn'[s].id = conn[s].id
                  \/ \E c \in data[s].conns : c.id = conn'[s].id
                  \/ \E q \in shown : q[1] = conn'[s].id,
           pc'[s] \in GoneStages => Gone(conn'[s].id)
    PROVE  Homes(h)'
<1>1. \A i \in ConnIds : Moves(h, s, i)
  BY DEF Moves
<1>2. \A i \in visit'[s].seen : Reads(s, i)
  BY Blanks
<1>3. pc'[s] \in GoneStages => Gone(conn[s].id)'
  BY DEF Gone
<1>4. visit'[s].at = Nowhere
  BY Blanks
<1> QED
  BY <1>1, <1>2, <1>3, <1>4, StillMoved

LEMMA StillProgress ==
    ASSUME IInv, NEW h \in Positions, Homes(h), NEW s \in Sessions, StepOK(s), PagesAdded,
           \/ Load(s) \/ Reload(s) \/ StartBackup(s)
           \/ BotDelete(s) \/ AdminRemove(s) \/ RemoveUser(s)
    PROVE  Homes(h)'
<1>0. /\ OwnStill(h, s) /\ data[s] \in Doc
      /\ \A c \in store.conns : c.srv = h[c.id]
      /\ \A c \in data[s].conns : c.srv = h[c.id]
      /\ \A c \in data[s].conns : c.id \in ConnIds
  BY Copies DEF Homes, OwnStill, Conn
<1>1. CASE Load(s) \/ Reload(s)
  <2>1. /\ data'[s] = store /\ store' = store /\ peers' = peers /\ acked' = acked
        /\ conn'[s] = conn[s] /\ visit' = visit
        /\ \/ pc[s] = "idle" /\ pc'[s] = "loaded"
           \/ pc[s] = "added" /\ pc'[s] = "recording"
           \/ pc[s] = "removed" /\ pc'[s] = "dropping"
    BY <1>1 DEF Load, Reload, Goto, IInv, WorkOK
  <2>2. /\ Creating(s)' => Creating(s)
        /\ Removing(s)' => Removing(s)
        /\ pc'[s] \in GoneStages => pc[s] \in GoneStages
        /\ pc'[s] \notin AddStages
    BY <2>1 DEF Creating, Removing, CreatingStages, RemovingStages, GoneStages, AddStages
  <2>3. visit[s] = NoVisit
    BY <2>1, NothingRead DEF VisitStages
  <2>4. pc'[s] \in GoneStages => Gone(conn'[s].id)
    BY <1>0, <2>1, <2>2 DEF OwnStill
  <2> QED
    BY <1>0, <2>1, <2>2, <2>3, <2>4, StillPlain DEF OwnStill
<1>2. CASE StartBackup(s)
  <2>1. /\ pc[s] = "loaded" /\ pc'[s] = "uploading" /\ data' = data /\ store' = store
        /\ peers' = peers /\ acked' = acked /\ visit' = visit
    BY <1>2 DEF StartBackup, Ready, Goto, IInv, WorkOK
  <2>2. /\ ~ Creating(s)' /\ ~ Removing(s)'
        /\ pc'[s] \notin GoneStages /\ pc'[s] \notin AddStages
    BY <2>1 DEF Creating, Removing, CreatingStages, RemovingStages, GoneStages, AddStages
  <2>3. visit[s] = NoVisit
    BY <2>1, NothingRead DEF VisitStages
  <2> QED
    BY <1>0, <2>1, <2>2, <2>3, StillPlain DEF OwnStill
<1>3. CASE BotDelete(s)
  <2>1. PICK c \in data[s].conns :
          /\ conn' = [conn EXCEPT ![s] = c]
          /\ pc' = [pc EXCEPT ![s] = IF Within(data[s], c) THEN "deleting" ELSE "removed"]
          /\ pc[s] = "loaded" /\ visit' = visit
          /\ store' = store /\ data' = data /\ peers' = peers /\ acked' = acked
    BY <1>3 DEF BotDelete, Ready, Goto
  <2>2. /\ conn'[s] = c /\ data[s].servers = store.servers
        /\ pc'[s] = IF Within(data[s], c) THEN "deleting" ELSE "removed"
    BY <1>0, <2>1 DEF IInv, WorkOK, OwnStill
  <2>3. ~ Within(data[s], c) => Gone(c.id)
    <3> SUFFICES ASSUME h[c.id] \notin DOMAIN store.servers PROVE Gone(c.id)
      BY <1>0, <2>2 DEF Within
    <3>1. ~ Settled(h, c.id) /\ c.id \in ConnIds
      BY <1>0 DEF Settled
    <3> QED
      BY <3>1 DEF Gone, Homes, OwnStill
  <2>4. /\ ~ Creating(s)' /\ pc'[s] \notin AddStages
        /\ pc'[s] \in GoneStages => ~ Within(data[s], c)
    BY <2>2 DEF Creating, CreatingStages, GoneStages, AddStages
  <2>5. visit[s] = NoVisit
    BY <2>1, NothingRead DEF VisitStages
  <2>6. /\ pc'[s] \in GoneStages => Gone(conn'[s].id)
        /\ conn'[s].srv = h[conn'[s].id] /\ \E x \in data[s].conns : x.id = conn'[s].id
    BY <1>0, <2>2, <2>3, <2>4
  <2> QED
    BY <1>0, <2>1, <2>2, <2>4, <2>5, <2>6, StillPlain
<1>4. CASE AdminRemove(s)
  <2>1. PICK q \in shown :
          /\ conn' = [conn EXCEPT ![s] = [id |-> q[1], user |-> Nowhere, srv |-> q[2]]]
          /\ pc' = [pc EXCEPT ![s] = "removing"]
          /\ pc[s] = "loaded" /\ visit' = visit
          /\ store' = store /\ data' = data /\ peers' = peers /\ acked' = acked
    BY <1>4 DEF AdminRemove, Ready, Goto
  <2>2. /\ conn'[s].id = q[1] /\ conn'[s].srv = q[2] /\ pc'[s] = "removing"
        /\ data[s].servers = store.servers
    BY <1>0, <2>1 DEF IInv, WorkOK, OwnStill
  <2>3. q[2] = h[q[1]]
    BY DEF Homes
  <2>4. ~ Creating(s)' /\ pc'[s] \notin GoneStages /\ pc'[s] \notin AddStages
    BY <2>2 DEF Creating, CreatingStages, GoneStages, AddStages
  <2>5. visit[s] = NoVisit
    BY <2>1, NothingRead DEF VisitStages
  <2> QED
    BY <1>0, <2>1, <2>2, <2>3, <2>4, <2>5, StillPlain
<1>5. CASE RemoveUser(s)
  <2>1. PICK u :
          /\ data' = [data EXCEPT ![s] = DeleteUser(data[s], u)]
          /\ pc' = [pc EXCEPT ![s] = "purging"] /\ pc[s] = "loaded" /\ visit' = visit
          /\ store' = store /\ peers' = peers /\ acked' = acked
    BY <1>5 DEF RemoveUser, Goto, Ready
  <2>2. pc'[s] = "purging" /\ data'[s] = DeleteUser(data[s], u)
    BY <2>1 DEF IInv, WorkOK
  <2>3. data'[s].servers = store.servers /\ data'[s].conns \subseteq data[s].conns
    BY <1>0, <2>1, <2>2, EditFields DEF OwnStill
  <2>4. /\ ~ Creating(s)' /\ ~ Removing(s)'
        /\ pc'[s] \notin GoneStages /\ pc'[s] \notin AddStages
    BY <2>2 DEF Creating, Removing, CreatingStages, RemovingStages, GoneStages, AddStages
  <2>5. visit[s] = NoVisit
    BY <2>1, NothingRead DEF VisitStages
  <2> QED
    BY <1>0, <2>1, <2>3, <2>4, <2>5, StillPlain
<1> QED
  BY <1>1, <1>2, <1>3, <1>4, <1>5

LEMMA StillToggles ==
    ASSUME IInv, NEW h \in Positions, Homes(h), NEW s \in Sessions, StepOK(s), PagesAdded,
           ToggleUser(s) \/ RaiseLimit(s)
    PROVE  Homes(h)'
<1>0. /\ pc[s] = "loaded" /\ store' \in {store, data[s]}
  BY DEF ToggleUser, RaiseLimit, Ready
<1>1. /\ data[s] \in Doc /\ data[s].servers = store.servers
      /\ \A c \in data[s].conns : c.srv = h[c.id]
      /\ \A c \in store.conns : c.srv = h[c.id]
  BY <1>0, StillCopy
<1>2. PICK u, on : StartToggle(s, u, on)
  BY DEF ToggleUser, RaiseLimit
<1>3. /\ data'[s] = SetEnabled(data[s], u, on)
      /\ pc'[s] \in {"enabling", "disabling"}
      /\ peers' = peers /\ acked' = acked /\ visit' = visit
  BY <1>2 DEF StartToggle, Goto, IInv, WorkOK
<1>4. data'[s].servers = data[s].servers /\ data'[s].conns = data[s].conns
  BY <1>1, <1>3, EditFields
<1>5. /\ ~ Creating(s)' /\ ~ Removing(s)' /\ pc'[s] \notin GoneStages
      /\ pc'[s] \notin AddStages
  BY <1>3 DEF Creating, Removing, CreatingStages, RemovingStages, GoneStages, AddStages
<1>6. /\ store'.servers = store.servers /\ data'[s].servers = store.servers
      /\ \A c \in store'.conns \cup data'[s].conns : c.srv = h[c.id]
  BY <1>0, <1>1, <1>4
<1>7. visit[s] = NoVisit
  BY <1>0, NothingRead DEF VisitStages
<1> QED
  BY <1>3, <1>5, <1>6, <1>7, StillPlain

\* An id that was not handed out yet is mentioned nowhere: it may get any
\* position.
LEMMA StillFresh ==
    ASSUME IInv, NEW h \in Positions, Homes(h),
           NEW id \in ConnIds \ issued, NEW p \in Nat \ {0}
    PROVE  /\ [h EXCEPT ![id] = p] \in Positions
           /\ Homes([h EXCEPT ![id] = p])
<1> DEFINE e == [h EXCEPT ![id] = p]
<1>1. e \in Positions /\ \A i \in ConnIds \cap issued : e[i] = h[i]
  BY DEF Positions
<1> HIDE DEF e
<1>2. /\ store.conns \subseteq Conn /\ \A c \in store.conns : c.id \in issued
      /\ shown \subseteq ConnIds \X (Nat \ {0}) /\ acked \in Acks
  BY DEF IInv, WorkOK, Doc, Good, IdsOf
<1>3. ASSUME NEW i \in ConnIds, Settled(h, i) PROVE Settled(e, i) /\ e[i] = h[i]
  BY <1>1, <1>3 DEF Settled
<1>4. \A i \in ConnIds : peers[i] # NoPeer =>
          Settled(e, i) /\ peers[i].at = store.servers[e[i]]
  BY <1>3 DEF Homes
<1>5. \A c \in store.conns : c.srv = e[c.id]
  BY <1>1, <1>2 DEF Homes, Conn
<1>6. \A q \in shown : q[1] \in issued /\ q[2] = e[q[1]]
  BY <1>1, <1>2 DEF Homes
<1>7. ASSUME NEW s \in Sessions PROVE OwnStill(e, s)
  <2>1. OwnStill(h, s) /\ Placed(s) /\ visit[s] \in Visit
    BY DEF Homes, IInv, WorkOK
  <2>2. \A c \in data[s].conns : c.srv = e[c.id]
    <3>1. \A c \in data[s].conns : c.id \in ConnIds /\ c.id \in issued
      BY Copies DEF IdsOf, Conn
    <3> QED
      BY <1>1, <2>1, <3>1 DEF OwnStill
  <2>3. \A i \in visit[s].seen : Settled(e, i) /\ visit[s].at = store.servers[e[i]]
    BY <1>3, <2>1 DEF OwnStill, Visit
  <2>4. Creating(s) => conn[s].srv = e[conn[s].id]
    BY <1>1, <2>1 DEF OwnStill, Placed, Pending, Conn
  <2>5. Removing(s) => conn[s].srv = e[conn[s].id]
    BY <1>1, <2>1 DEF OwnStill, Placed
  <2> QED
    BY <2>1, <2>2, <2>3, <2>4, <2>5 DEF OwnStill
<1>8. Homes(e)
  BY <1>4, <1>5, <1>6, <1>7 DEF Homes
<1> QED
  BY <1>1, <1>8 DEF e

LEMMA StillCreates ==
    ASSUME IInv, NEW h \in Positions, Homes(h), NEW s \in Sessions, StepOK(s), PagesAdded,
           BotCreate(s) \/ AdminCreate(s) \/ AdminAppend(s) \/ CreateUserWithConnection(s)
    PROVE  StillInv'
<1>0. pc[s] = "loaded"
  BY DEF BotCreate, AdminCreate, AdminAppend, CreateUserWithConnection, Ready
<1>1. /\ data[s] \in Doc /\ data[s].servers = store.servers
      /\ visit[s] = NoVisit
  BY <1>0, StillCopy, NothingRead DEF VisitStages
<1>2. PICK id \in ConnIds \ issued, i \in DOMAIN data[s].servers :
        /\ conn'[s].id = id /\ conn'[s].srv = i
        /\ pc'[s] \in AddStages
        /\ visit' = visit /\ peers' = peers /\ acked' = acked
        /\ store' \in {store, data'[s]}
        /\ \E u : data'[s] \in {data[s], AddUser(data[s], u, NoCode)}
  <2>1. CASE BotCreate(s) \/ AdminCreate(s) \/ AdminAppend(s)
    <3>1. PICK i \in DOMAIN data[s].servers, stage \in AddStages :
            /\ \E u : Begin(s, stage, u, i)
            /\ store' = store /\ data' = data /\ visit' = visit
            /\ peers' = peers /\ acked' = acked
      BY <2>1 DEF BotCreate, AdminCreate, AdminAppend, AddStages
    <3>2. PICK id \in ConnIds \ issued :
            /\ \E u : conn' = [conn EXCEPT ![s] = [id |-> id, user |-> u, srv |-> i]]
            /\ pc' = [pc EXCEPT ![s] = stage]
      BY <3>1 DEF Begin, Goto
    <3>3. conn'[s].id = id /\ conn'[s].srv = i /\ pc'[s] = stage
      BY <3>2 DEF IInv, WorkOK
    <3> QED
      BY <3>1, <3>3
  <2>2. CASE CreateUserWithConnection(s)
    <3>1. PICK u \in UserIds \ issued, i \in DOMAIN data[s].servers,
               id \in ConnIds \ issued :
            /\ store' = AddUser(data[s], u, NoCode)
            /\ data' = [data EXCEPT ![s] = AddUser(data[s], u, NoCode)]
            /\ conn' = [conn EXCEPT ![s] = [id |-> id, user |-> u, srv |-> i]]
            /\ pc' = [pc EXCEPT ![s] = "adding"] /\ visit' = visit
            /\ peers' = peers /\ acked' = acked
      BY <2>2 DEF CreateUserWithConnection, Goto
    <3>2. /\ pc'[s] = "adding" /\ conn'[s].id = id /\ conn'[s].srv = i
          /\ data'[s] = AddUser(data[s], u, NoCode)
      BY <3>1 DEF IInv, WorkOK
    <3> QED
      BY <3>1, <3>2 DEF AddStages
  <2> QED
    BY <2>1, <2>2
<1>3. i \in Nat \ {0}
  BY <1>1, LenProperties DEF Doc
<1> DEFINE e == [h EXCEPT ![id] = i]
<1>4. e \in Positions /\ Homes(e) /\ e[id] = i
  BY <1>3, StillFresh DEF Positions
<1> HIDE DEF e
<1>5. /\ data'[s].servers = store.servers /\ data'[s].conns = data[s].conns
      /\ store'.servers = store.servers
  BY <1>1, <1>2, EditFields
<1>6. /\ \A c \in data[s].conns : c.srv = e[c.id]
      /\ \A c \in store.conns : c.srv = e[c.id]
  BY <1>0, <1>4, StillCopy
<1>7. \A c \in store'.conns \cup data'[s].conns : c.srv = e[c.id]
  BY <1>2, <1>5, <1>6
<1>8. /\ ~ Removing(s)' /\ pc'[s] \notin GoneStages
  BY <1>2 DEF Removing, RemovingStages, GoneStages, AddStages
<1>9. Homes(e)'
  BY <1>1, <1>2, <1>4, <1>5, <1>7, <1>8, StillPlain
<1> QED
  BY <1>4, <1>9 DEF StillInv

\* Reading a configuration finds peers that are there.
LEMMA StillReads ==
    ASSUME IInv, NEW h \in Positions, Homes(h), NEW s \in Sessions, StepOK(s), PagesAdded,
           ReadConfig(s) \/ VisitPeer(s)
    PROVE  Homes(h)'
<1>1. /\ pc' = pc /\ store' = store /\ data' = data /\ peers' = peers
      /\ issued' = issued /\ acked' = acked
      /\ pc[s] \in VisitStages
  BY DEF ReadConfig, VisitPeer, VisitStages
<1>2. /\ data[s].servers = store.servers
      /\ \A c \in data[s].conns : c.srv = h[c.id]
      /\ \A c \in store.conns : c.srv = h[c.id]
      /\ OwnStill(h, s)
  BY <1>1, StillCopy DEF VisitStages
<1>3. \A i \in ConnIds : Moves(h, s, i)
  BY <1>1 DEF Moves
<1>4. /\ ~ Creating(s) /\ pc[s] \notin AddStages /\ pc[s] \notin GoneStages
  BY <1>1 DEF VisitStages, Creating, CreatingStages, AddStages, GoneStages
<1>5. ~ Creating(s)' /\ (Removing(s)' => Removing(s))
  BY <1>1, <1>4 DEF Creating, Removing
<1>6. /\ \A i \in visit'[s].seen : Reads(s, i)
      /\ Removing(s) => conn'[s] = conn[s]
      /\ pc[s] \in {"deleting", "removing"} /\ visit'[s].at # Nowhere =>
             visit'[s].at = store.servers[conn'[s].srv]
  <2>1. CASE ReadConfig(s)
    <3> DEFINE m == data[s].servers[conn[s].srv]
    <3>1. visit'[s] = [at |-> m, seen |-> Working(m)] /\ conn'[s] = conn[s]
      BY <2>1 DEF ReadConfig, Enter, IInv, WorkOK
    <3>2. \A i \in Working(m) : i \in ConnIds /\ peers[i].at = m /\ peers[i] # NoPeer
      <4>1. [at |-> m, on |-> TRUE] # NoPeer
        BY DEF NoPeer
      <4> QED
        BY <4>1 DEF Working
    <3> HIDE DEF m
    <3>3. \A i \in visit'[s].seen : Reads(s, i)
      BY <3>1, <3>2 DEF Reads
    <3> QED
      BY <1>2, <3>1, <3>3 DEF m
  <2>2. CASE VisitPeer(s)
    <3>1. PICK c \in left[s], v \in Visit, k \in Target : Visits(s, c, v, k)
      BY <2>2, PeerVisits
    <3>2. visit'[s] = v /\ pc[s] \in {"enabling", "disabling", "purging"}
      BY <3>1 DEF Visits, IInv, WorkOK
    <3>3. ~ Removing(s) /\ pc[s] \notin {"deleting", "removing"}
      BY <3>2 DEF Removing, RemovingStages
    <3>4. CASE v = visit[s]
      BY <3>2, <3>3, <3>4 DEF Reads
    <3>5. CASE v # visit[s]
      <4>1. /\ Within(data[s], c) /\ v.at = data[s].servers[c.srv]
            /\ \A i \in v.seen : peers[i].at = v.at
        BY <3>1, <3>5 DEF Visits
      <4>2. v.at \in Servers
        <5>1. data[s].servers \in Seq(Servers) /\ c.srv \in DOMAIN data[s].servers
          BY <4>1, Copies DEF Within, Doc
        <5> QED
          BY <4>1, <5>1, LenProperties, ElementOfSeq
      <4>3. \A i \in v.seen : i \in ConnIds /\ peers[i] # NoPeer
        BY <4>1, <4>2, SessionsAssumption DEF Visit, NoPeer
      <4>4. \A i \in visit'[s].seen : Reads(s, i)
        BY <3>2, <4>1, <4>3 DEF Reads
      <4> QED
        BY <3>3, <4>4
    <3> QED
      BY <3>4, <3>5
  <2> QED
    BY <2>1, <2>2
<1>7. Removing(s)' => conn'[s].srv = h[conn'[s].id] /\ conn'[s].id = conn[s].id
  BY <1>2, <1>5, <1>6 DEF OwnStill
<1> QED
  BY <1>1, <1>2, <1>3, <1>4, <1>5, <1>6, <1>7, StillMoved

\* Copying back what was read, without one client: who was read is there.
LEMMA StillRewritten ==
    ASSUME IInv, NEW h \in Positions, Homes(h), NEW s \in Sessions,
           pc[s] \in VisitStages, visit[s].at # Nowhere, NEW gone \in Peer, NEW k,
           gone = NoPeer \/ gone = [at |-> visit[s].at, on |-> FALSE],
           \/ peers' = Rewritten(visit[s], k, gone)
           \/ peers' = Appended(visit[s])
           \/ peers' = peers
    PROVE  \A i \in ConnIds : Moves(h, s, i)
<1>1. OwnStill(h, s) /\ peers \in [ConnIds -> Peer] /\ visit[s] \in Visit
  BY DEF Homes, IInv, WorkOK
<1> SUFFICES ASSUME NEW i \in ConnIds PROVE Moves(h, s, i)
  OBVIOUS
<1>2. peers[i] # NoPeer => Settled(h, i) /\ peers[i].at = store.servers[h[i]]
  BY DEF Homes
<1>3. i \in visit[s].seen => Settled(h, i) /\ visit[s].at = store.servers[h[i]]
  BY <1>1 DEF OwnStill
<1>4. peers[i].at = visit[s].at => peers[i] # NoPeer
  BY DEF NoPeer
<1>5. CASE peers' = peers
  BY <1>5 DEF Moves
<1>6. CASE peers' = Appended(visit[s])
  <2>1. peers'[i] = IF i \in visit[s].seen THEN [at |-> visit[s].at, on |-> TRUE] ELSE peers[i]
    BY <1>6 DEF Appended
  <2> QED
    BY <1>3, <2>1 DEF Moves
<1>7. CASE peers' = Rewritten(visit[s], k, gone)
  <2>1. peers'[i] = IF i \in visit[s].seen \ {k} THEN [at |-> visit[s].at, on |-> TRUE]
                    ELSE IF peers[i].at # visit[s].at THEN peers[i]
                    ELSE IF i = k THEN gone
                    ELSE [peers[i] EXCEPT !.on = FALSE]
    BY <1>7 DEF Rewritten
  <2>2. CASE i \in visit[s].seen \ {k}
    BY <1>3, <2>1, <2>2 DEF Moves
  <2>3. CASE i \notin visit[s].seen \ {k} /\ peers[i].at # visit[s].at
    BY <2>1, <2>3 DEF Moves
  <2>4. CASE i \notin visit[s].seen \ {k} /\ peers[i].at = visit[s].at /\ i = k
    BY <1>2, <1>4, <2>1, <2>4 DEF Moves
  <2>5. CASE i \notin visit[s].seen \ {k} /\ peers[i].at = visit[s].at /\ i # k
    <3>1. peers[i] \in Peer
      BY <1>1
    <3>2. peers'[i] = [peers[i] EXCEPT !.on = FALSE]
      BY <2>1, <2>5
    <3>3. peers'[i].at = peers[i].at
      BY <3>1, <3>2 DEF Peer
    <3> QED
      BY <1>2, <1>4, <2>5, <3>3 DEF Moves
  <2> QED
    BY <2>2, <2>3, <2>4, <2>5
<1> QED
  BY <1>5, <1>6, <1>7

LEMMA StillToggled ==
    ASSUME IInv, NEW h \in Positions, Homes(h), NEW s \in Sessions, StepOK(s), PagesAdded,
           TogglePeer(s) \/ PurgePeer(s)
    PROVE  Homes(h)'
<1>1. /\ pc' = pc /\ store' = store /\ data' = data /\ acked' = acked
      /\ pc[s] \in {"enabling", "disabling", "purging"}
      /\ visit[s].at # Nowhere /\ visit'[s] = NoVisit
  BY DEF TogglePeer, PurgePeer, Leave, IInv, WorkOK
<1>2. /\ data[s].servers = store.servers
      /\ \A c \in data[s].conns : c.srv = h[c.id]
      /\ \A c \in store.conns : c.srv = h[c.id]
  BY <1>1, StillCopy
<1>3. \A i \in ConnIds : Moves(h, s, i)
  <2> DEFINE off == [at |-> visit[s].at, on |-> FALSE]
  <2>1. off \in Peer /\ NoPeer \in Peer
    BY DEF IInv, WorkOK, Visit, Peer, NoPeer
  <2>2. PICK gone \in {off, NoPeer} :
          \/ peers' = Rewritten(visit[s], conn[s].id, gone)
          \/ peers' = Appended(visit[s])
          \/ peers' = peers
    BY DEF TogglePeer, PurgePeer
  <2>3. pc[s] \in VisitStages
    BY <1>1 DEF VisitStages
  <2> QED
    BY <1>1, <2>1, <2>2, <2>3, StillRewritten
<1>4. \A i \in visit'[s].seen : Reads(s, i)
  BY <1>1, Blanks
<1>5. /\ ~ Creating(s)' /\ ~ Removing(s)' /\ pc'[s] \notin AddStages
      /\ pc'[s] \notin GoneStages /\ pc'[s] \notin {"deleting", "removing"}
  BY <1>1 DEF Creating, Removing, CreatingStages, RemovingStages, GoneStages, AddStages
<1> QED
  BY <1>1, <1>2, <1>3, <1>4, <1>5, StillMoved

\* A removal takes the peer out of the only server it can be on, and no other
\* session has read it there -- or that session was at work there meanwhile.
LEMMA StillRemoved ==
    ASSUME IInv, NEW h \in Positions, Homes(h), NEW s \in Sessions, StepOK(s), PagesAdded,
           RemovePeer(s)
    PROVE  Homes(h)'
<1>1. /\ pc[s] \in {"deleting", "removing"} /\ pc'[s] \in {"removed", "unlisting"}
      /\ store' = store /\ data' = data /\ conn' = conn
      /\ visit[s].at # Nowhere /\ visit' = [visit EXCEPT ![s] = NoVisit]
      /\ peers' = Rewritten(visit[s], conn[s].id, NoPeer)
  BY DEF RemovePeer, Goto, IInv, WorkOK
<1>2. /\ data[s].servers = store.servers
      /\ \A c \in data[s].conns : c.srv = h[c.id]
      /\ \A c \in store.conns : c.srv = h[c.id]
      /\ OwnStill(h, s)
  BY <1>1, StillCopy
<1>3. visit'[s] = NoVisit /\ \A t \in Sessions \ {s} : visit'[t] = visit[t]
  BY <1>1 DEF IInv, WorkOK
<1>4. \A i \in ConnIds : Moves(h, s, i)
  <2>1. NoPeer \in Peer /\ pc[s] \in VisitStages
    BY <1>1 DEF Peer, NoPeer, VisitStages
  <2> QED
    BY <1>1, <2>1, StillRewritten
<1>5. \A i \in visit'[s].seen : Reads(s, i)
  BY <1>3, Blanks
<1>6. /\ ~ Creating(s)' /\ Removing(s) /\ pc'[s] \notin AddStages
      /\ pc'[s] \notin {"deleting", "removing"}
  BY <1>1 DEF Creating, Removing, CreatingStages, RemovingStages, AddStages
<1>7. /\ acked'.deleted = acked.deleted /\ acked.raced \subseteq acked'.raced
      /\ (\E t \in Sessions \ {s} : visit[t].at = visit[s].at) =>
             conn[s].id \in acked'.raced
  BY DEF RemovePeer, IInv, WorkOK, Acks
<1>8. Gone(conn[s].id)'
  <2>1. ASSUME NEW i, i = conn'[s].id PROVE Gone(i)'
    <3>1. i = conn[s].id /\ i \in ConnIds /\ conn[s].srv = h[i]
      BY <1>1, <1>2, <1>6, <2>1 DEF OwnStill, IInv, Placed
    <3>2. visit[s].at = store.servers[h[i]]
      BY <1>1, <1>2, <3>1 DEF OwnStill
    <3>3. CASE \E t \in Sessions \ {s} : visit[t].at = visit[s].at
      BY <1>7, <3>1, <3>3 DEF Gone
    <3>4. CASE \A t \in Sessions \ {s} : visit[t].at # visit[s].at
      <4>1. peers'[i] = IF peers[i].at # visit[s].at THEN peers[i] ELSE NoPeer
        BY <1>1, <3>1 DEF Rewritten
      <4>2. peers'[i] = NoPeer
        BY <3>1, <3>2, <4>1 DEF Homes
      <4>3. ASSUME NEW t \in Sessions PROVE i \notin visit'[t].seen
        <5>1. CASE t = s
          BY <1>3, <5>1, Blanks
        <5>2. CASE t # s
          <6>1. OwnStill(h, t) /\ visit'[t] = visit[t] /\ visit[t].at # visit[s].at
            BY <1>3, <3>4, <5>2 DEF Homes
          <6> QED
            BY <3>2, <6>1 DEF OwnStill
        <5> QED
          BY <5>1, <5>2
      <4> QED
        BY <4>2, <4>3 DEF Gone
    <3> QED
      BY <3>3, <3>4
  <2> QED
    BY <2>1 DEF Gone
<1>9. /\ conn'[s].srv = h[conn'[s].id] /\ conn'[s].id = conn[s].id
  BY <1>1, <1>2, <1>6 DEF OwnStill
<1> QED
  BY <1>1, <1>2, <1>4, <1>5, <1>6, <1>7, <1>8, <1>9, StillMoved

\* A peer is made where its record will say it is.
LEMMA StillAdded ==
    ASSUME IInv, NEW h \in Positions, Homes(h), NEW s \in Sessions, StepOK(s), PagesAdded,
           AddPeer(s)
    PROVE  Homes(h)'
<1>1. /\ pc[s] \in AddStages /\ pc'[s] \in {"added", "recording"}
      /\ store' = store /\ data' = data /\ conn' = conn /\ visit' = visit /\ acked' = acked
      /\ peers' = [peers EXCEPT ![conn[s].id] =
                      [at |-> data[s].servers[conn[s].srv], on |-> TRUE]]
  BY DEF AddPeer, Goto, IInv, WorkOK, AddStages
<1>2. /\ data[s].servers = store.servers
      /\ \A c \in data[s].conns : c.srv = h[c.id]
      /\ \A c \in store.conns : c.srv = h[c.id]
      /\ OwnStill(h, s) /\ Placed(s)
  BY <1>1, StillCopy DEF AddStages
<1>3. Creating(s) /\ pc[s] \in PlacedStages /\ pc[s] \notin VisitStages
  BY <1>1 DEF AddStages, Creating, CreatingStages, PlacedStages, VisitStages
<1>4. /\ conn[s].id \in ConnIds /\ conn[s].srv = h[conn[s].id]
      /\ Settled(h, conn[s].id)
  BY <1>2, <1>3 DEF OwnStill, Placed, Pending, Conn, Settled
<1>5. ASSUME NEW i \in ConnIds PROVE Moves(h, s, i)
  <2>1. CASE i = conn[s].id
    <3>1. peers'[i].at = store.servers[h[i]]
      BY <1>1, <1>2, <1>4, <2>1 DEF IInv, WorkOK
    <3> QED
      BY <1>1, <1>4, <2>1, <3>1 DEF Moves
  <2>2. CASE i # conn[s].id
    BY <1>1, <2>2 DEF Moves, IInv, WorkOK
  <2> QED
    BY <2>1, <2>2
<1>6. visit[s] = NoVisit /\ \A i \in visit'[s].seen : Reads(s, i)
  BY <1>1, <1>3, NothingRead
<1>7. /\ ~ Removing(s)' /\ pc'[s] \notin AddStages /\ pc'[s] \notin GoneStages
      /\ pc'[s] \notin {"deleting", "removing"}
  BY <1>1 DEF Removing, RemovingStages, AddStages, GoneStages
<1>8. conn'[s].srv = h[conn'[s].id]
  BY <1>1, <1>4
<1> QED
  BY <1>1, <1>2, <1>5, <1>6, <1>7, <1>8, StillMoved

LEMMA StillRestart ==
    ASSUME IInv, NEW h \in Positions, Homes(h), Restart, PagesAdded, IInv'
    PROVE  Homes(h)'
<1>1. /\ store' = store /\ peers' = peers /\ issued' = issued /\ acked' = acked
      /\ \A s \in Sessions : pc'[s] = "idle" /\ data'[s] = NoDoc /\ visit'[s] = NoVisit
  BY DEF Restart
<1>2. \A i \in ConnIds : peers'[i] # NoPeer =>
          Settled(h, i)' /\ peers'[i].at = store'.servers[h[i]]
  BY <1>1 DEF Homes, Settled
<1>3. \A c \in store'.conns : c.srv = h[c.id]
  BY <1>1 DEF Homes
<1>4. \A q \in shown' : q[1] \in issued' /\ q[2] = h[q[1]]
  <2>1. \A q \in shown : q[1] \in issued' /\ q[2] = h[q[1]]
    BY <1>1 DEF Homes
  <2> QED
    BY <1>2, <1>3, <2>1, StillShown DEF Settled
<1>5. ASSUME NEW i \in acked'.deleted PROVE i \in issued' /\ Gone(i)'
  <2>1. i \in issued /\ Gone(i)
    BY <1>1 DEF Homes
  <2>2. \A t \in Sessions : i \notin visit'[t].seen
    BY <1>1, Blanks
  <2> QED
    BY <1>1, <2>1, <2>2 DEF Gone
<1>6. ASSUME NEW s \in Sessions PROVE OwnStill(h, s)'
  <2>1. /\ ~ Creating(s)' /\ ~ Removing(s)'
        /\ pc'[s] \notin AddStages \cup GoneStages \cup {"deleting", "removing"}
    BY <1>1 DEF Creating, Removing, CreatingStages, RemovingStages, AddStages, GoneStages
  <2> QED
    BY <1>1, <2>1, NoDocGood, Blanks DEF OwnStill
<1> QED
  BY <1>2, <1>3, <1>4, <1>5, <1>6 DEF Homes

LEMMA NextKeepsStill ==
    ASSUME IInv, Still, StillInv, [Next]_vars
    PROVE  StillInv' /\ Still'
<1>1. Still'
  BY DEF Still, Next, Observe, vars
<1>2. PICK h \in Positions : Homes(h)
  BY DEF StillInv
<1>3. CASE Next
  <2>0. PagesAdded
    BY <1>3 DEF Next, Observe, PagesAdded
  <2>1. ASSUME NEW s \in Sessions, ConnectServer(s) \/ RemoveServer(s) \/ MoveServers(s)
        PROVE  FALSE
    BY <2>1 DEF ConnectServer, RemoveServer, MoveServers, Ready, Still
  <2>2. ASSUME NEW s \in Sessions, Task(s) \/ Thread(s) \/ Either(s)
        PROVE  StillInv'
    <3>1. StepOK(s)
      BY <2>2, SessionStep
    <3>2. CASE BotCreate(s) \/ AdminCreate(s) \/ AdminAppend(s) \/ CreateUserWithConnection(s)
      BY <1>2, <2>0, <3>1, <3>2, StillCreates
    <3>3. CASE ~ (BotCreate(s) \/ AdminCreate(s) \/ AdminAppend(s)
                    \/ CreateUserWithConnection(s))
      <4>1. Homes(h)'
        <5>1. CASE Task(s)
          BY <1>2, <2>0, <2>1, <3>1, <3>3, <5>1, StillEdits, StillConfirms, StillProgress,
             StillToggles, StillReads, StillToggled DEF Task
        <5>2. CASE Thread(s)
          BY <1>2, <2>0, <3>1, <3>3, <5>2, StillEdits, StillConfirms, StillProgress
             DEF Thread
        <5>3. CASE Either(s)
          BY <1>2, <2>0, <3>1, <5>3, StillEdits, StillProgress, StillReads, StillRemoved,
             StillAdded DEF Either
        <5> QED
          BY <2>2, <5>1, <5>2, <5>3
      <4> QED
        BY <1>2, <4>1 DEF StillInv
    <3> QED
      BY <3>2, <3>3
  <2>3. CASE Restart
    <3>1. IInv'
      BY NextKeepsIInv
    <3>2. Homes(h)'
      BY <1>2, <2>0, <2>3, <3>1, StillRestart
    <3> QED
      BY <1>1, <1>2, <3>2 DEF StillInv
  <2> QED
    BY <1>1, <1>3, <2>2, <2>3 DEF Next, Sessions
<1>4. CASE UNCHANGED vars
  <2>1. Homes(h)'
    BY <1>2, <1>4 DEF vars, Homes, OwnStill, Settled, Gone, Untouched, Creating, Removing
  <2> QED
    BY <1>1, <1>2, <2>1 DEF StillInv
<1> QED
  BY <1>3, <1>4

LEMMA InitStill == Init => StillInv
<1> SUFFICES ASSUME Init PROVE StillInv
  OBVIOUS
<1>1. IInv /\ store \in Doc /\ IdsOf(store) \subseteq issued /\ IdsOK(store)
  BY InitIInv DEF IInv, WorkOK, Good, DocOK
<1>2. \A c \in store.conns : c.id \in ConnIds /\ c.id \in issued /\ c.srv \in Nat \ {0}
  BY <1>1 DEF Doc, Conn, IdsOf
<1> DEFINE h == [i \in ConnIds |-> IF \E c \in store.conns : c.id = i
                                  THEN (CHOOSE c \in store.conns : c.id = i).srv ELSE 1]
<1>3. h \in Positions /\ \A c \in store.conns : h[c.id] = c.srv
  <2>1. ASSUME NEW c \in store.conns PROVE (CHOOSE x \in store.conns : x.id = c.id) = c
    <3> DEFINE x == CHOOSE x \in store.conns : x.id = c.id
    <3>1. x \in store.conns /\ x.id = c.id
      OBVIOUS
    <3> HIDE DEF x
    <3> QED
      BY <1>1, <3>1 DEF IdsOK, x
  <2>2. \A c \in store.conns : h[c.id] = c.srv
    BY <1>2, <2>1
  <2>3. ASSUME NEW i \in ConnIds PROVE h[i] \in Nat \ {0}
    <3>1. CASE \E c \in store.conns : c.id = i
      BY <1>2, <2>2, <3>1
    <3>2. CASE ~ \E c \in store.conns : c.id = i
      BY <3>2
    <3> QED
      BY <3>1, <3>2
  <2> QED
    BY <2>2, <2>3 DEF Positions
<1> HIDE DEF h
<1>4. ASSUME NEW i \in ConnIds, peers[i] # NoPeer
      PROVE  Settled(h, i) /\ peers[i].at = store.servers[h[i]]
  <2>1. PICK c \in store.conns : c.id = i /\ Within(store, c)
    BY <1>4, InitPeers
  <2>2. peers[i] = [at |-> store.servers[c.srv], on |-> TRUE]
    BY <2>1, InitPeers
  <2>3. peers[i].at = store.servers[c.srv]
    BY <2>2
  <2> QED
    BY <1>2, <1>3, <2>1, <2>3 DEF Settled, Within
<1>5. ASSUME NEW q \in shown PROVE q[1] \in issued /\ q[2] = h[q[1]]
  <2>1. shown = Pages
    BY DEF Init
  <2>2. CASE \E c \in store.conns : q = <<c.id, c.srv>>
    BY <1>2, <1>3, <2>2
  <2>3. CASE ~ \E c \in store.conns : q = <<c.id, c.srv>>
    <3>1. /\ q[1] \in ConnIds /\ q[2] \in DOMAIN store.servers
          /\ peers[q[1]].at = store.servers[q[2]]
      BY <2>1, <2>3 DEF Pages
    <3>2. store.servers[q[2]] # Nowhere
      <4>1. store.servers \in Seq(Servers)
        BY <1>1 DEF Doc
      <4> QED
        BY <3>1, <4>1, LenProperties, ElementOfSeq, SessionsAssumption
    <3>3. Settled(h, q[1]) /\ peers[q[1]].at = store.servers[h[q[1]]]
      BY <1>4, <3>1, <3>2, Blanks
    <3> QED
      BY <1>1, <3>1, <3>3 DEF Settled, IdsOK
  <2> QED
    BY <2>2, <2>3
<1>6. /\ acked.deleted = {}
      /\ \A s \in Sessions : pc[s] = "idle" /\ data[s] = NoDoc /\ visit[s] = NoVisit
  BY DEF Init
<1>7. ASSUME NEW s \in Sessions PROVE OwnStill(h, s)
  <2>1. /\ ~ Creating(s) /\ ~ Removing(s)
        /\ pc[s] \notin AddStages \cup GoneStages \cup {"deleting", "removing"}
    BY <1>6 DEF Creating, Removing, CreatingStages, RemovingStages, AddStages, GoneStages
  <2> QED
    BY <1>6, <2>1, NoDocGood, Blanks DEF OwnStill
<1>8. Homes(h)
  BY <1>3, <1>4, <1>5, <1>6, <1>7 DEF Homes
<1> QED
  BY <1>3, <1>8 DEF StillInv

\* As long as nobody edits the list of servers, a connection reported as
\* deleted leaves no working peer behind, whichever record or whichever client
\* and position the request named, and however tasks, threads, stale saves,
\* failures and restarts interleave -- unless another session was between
\* reading and writing the same server's configuration when the peer was
\* removed (delete_user_connection, api_remove_connection).
THEOREM DeletedPeersHold == Spec /\ Still => []DeletedPeersAreGone
<1>1. IInv /\ (StillInv /\ Still) /\ [Next]_vars => (StillInv /\ Still)'
  BY NextKeepsStill
<1>2. StillInv /\ IInv => DeletedPeersAreGone
  <2> SUFFICES ASSUME StillInv, IInv, NEW i \in acked.deleted \ acked.raced
               PROVE  peers[i] = NoPeer
    BY DEF DeletedPeersAreGone
  <2> QED
    BY DEF StillInv, Homes, Gone
<1> QED
  BY <1>1, <1>2, InitStill, SpecIInv, PTL DEF Spec
=============================================================================
