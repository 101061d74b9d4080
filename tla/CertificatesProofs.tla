------------------------- MODULE CertificatesProofs -------------------------
(***************************************************************************)
(* Proofs about the certificates of a lab, for every number of names,      *)
(* rows, serials and sweepers: what the inventory shows as revoked is in   *)
(* the index of the CA that signs, the published CRL only grows, and       *)
(* expiry does not undo a revocation that was there when it began.         *)
(***************************************************************************)
EXTENDS Certificates, TLAPS

\* What a request at work holds: a certificate to enter, or a row of the inventory
\* whose path has a file.
Working ==
    /\ pc # "idle" => op \in Ops
    /\ pc # "idle" /\ op.ca = "inter" => HasIntermediate
    /\ pc = "record" => file[op.ref] # None
    /\ pc \in {"revoke", "crl", "mark", "publish"} =>
           op.row \in Inventory /\ rows[op.row].ref = op.ref /\ file[op.ref] # None

\* Certificates come from CAs that exist, with serials that were given out.
IssuedCert(c) == c.serial < next /\ (c.ca = "inter" => HasIntermediate)

Lineage ==
    /\ \A ref \in Refs : file[ref] # None => IssuedCert(file[ref])
    /\ \A r \in Inventory : IssuedCert(rows[r].cert)

\* A sweeper holds rows of the inventory; one that was revoked meanwhile is overtaken.
Sweeping ==
    \A s \in Sweepers :
        /\ loaded[s] \subseteq Inventory
        /\ \A r \in loaded[s] : Revoked(r) => r \in overtaken

\* Before a revocation is recorded in the inventory, the index of the CA that signs was
\* tried: it has the certificate, or its run failed and the root's index has it.
Entered ==
    /\ pc \in {"revoke", "crl", "mark"} =>
           op.ca = Signer \/ file[op.ref] \in index[Signer] \cup strayed
    /\ pc \in {"crl", "mark"} => file[op.ref] \in index[op.ca]

\* The published CRL is behind the indexes, and its second part needs a second CA.
Behind ==
    published # None =>
        /\ \A a \in CAs : published[a] \subseteq index[a]
        /\ published["inter"] # {} => HasIntermediate

CInv ==
    TypeOK /\ Working /\ Lineage /\ Sweeping /\ Entered /\ Behind /\ RevocationReachesCa

----------------------------------------------------------------------------
(***************************************************************************)
(* Types, and what a request holds.                                        *)
(***************************************************************************)

\* A lab without certificates satisfies the invariant.
LEMMA InitInv == Init => CInv
<1> SUFFICES ASSUME Init PROVE CInv
    OBVIOUS
<1>1. TypeOK
  <2>1. next \in 1..(MaxSerial + 1)
        BY CertificatesAssumption DEF Init
  <2>2. /\ index \in [CAs -> SUBSET Certs]
        /\ file \in [Refs -> Certs \cup {None}]
        /\ rows \in [RowIds -> Rows \cup {None}]
        /\ loaded \in [Sweepers -> SUBSET RowIds]
        BY DEF Init
  <2> QED  BY <2>1, <2>2 DEF Init, TypeOK
<1>2. Inventory = {}
      BY DEF Init, Inventory
<1>3. Working /\ Lineage /\ Sweeping /\ Entered /\ Behind
      BY <1>2 DEF Init, Working, Lineage, Sweeping, Entered, Behind
<1> QED  BY <1>1, <1>2, <1>3 DEF CInv, RevocationReachesCa, Revoked

\* The CA that signs is one of the two.
LEMMA SignerType == Signer \in CAs
BY DEF Signer, CAs

\* What openssl generates from the indexes is a CRL per CA.
LEMMA GeneratedType == TypeOK => Generated \in [CAs -> SUBSET Certs]
BY DEF TypeOK, Generated

\* A request that ends keeps all that the inventory and the files are.
LEMMA FinishInv ==
    ASSUME CInv, Finish, cut' \in BOOLEAN,
           UNCHANGED <<ca, crl, published, rows, past, loaded, overtaken, strayed>>
    PROVE  CInv'
BY DEF CInv, TypeOK, Working, Lineage, Sweeping, Entered, Behind, RevocationReachesCa,
    Inventory, Revoked, Finish, ca, IssuedCert, HasIntermediate, Signer

\* A request that begins.
LEMMA BeginInv ==
    ASSUME CInv, NEW stage \in {"sign", "record", "revoke"}, NEW o \in Ops, Begin(stage, o),
           o.ca = "inter" => HasIntermediate,
           stage = "record" => file[o.ref] # None,
           stage = "revoke" => /\ o.row \in Inventory /\ rows[o.row].ref = o.ref
                               /\ file[o.ref] # None /\ o.ca = Signer
    PROVE  CInv'
BY DEF CInv, TypeOK, Working, Lineage, Sweeping, Entered, Behind, RevocationReachesCa,
    Inventory, Revoked, Begin, ca, history, IssuedCert, HasIntermediate, Signer

\* Each handler begins with what the steps after it rely on.
LEMMA Begins ==
    ASSUME CInv,
           \/ \E i \in Identities : IssueClient(i) \/ IssueMissing(i)
           \/ EnsureIntermediate
           \/ \E r \in RowIds : RevokeCertificate(r)
    PROVE  CInv'
<1> USE SignerType
<1>1. ASSUME NEW i \in Identities, IssueClient(i) \/ IssueMissing(i)
      PROVE  CInv'
  <2>1. ASSUME NEW b \in BOOLEAN,
               Begin("sign", [ref |-> i, ca |-> Signer, row |-> None, listed |-> b])
        PROVE  CInv'
    <3> DEFINE o == [ref |-> i, ca |-> Signer, row |-> None, listed |-> b]
    <3>1. o \in Ops
          BY DEF Ops, Refs
    <3> QED  BY <2>1, <3>1, BeginInv DEF Signer
  <2> QED  BY <1>1, <2>1 DEF IssueClient, IssueMissing
<1>2. CASE EnsureIntermediate
  <2> DEFINE o == [ref |-> Inter, ca |-> "root", row |-> None, listed |-> TRUE]
  <2>1. o \in Ops
        BY DEF Ops, Refs, CAs
  <2>2. CASE HasIntermediate
        BY <1>2, <2>1, <2>2, BeginInv DEF EnsureIntermediate, HasIntermediate
  <2>3. CASE ~HasIntermediate
        BY <1>2, <2>1, <2>3, BeginInv DEF EnsureIntermediate
  <2> QED  BY <2>2, <2>3
<1>3. ASSUME NEW r \in RowIds, RevokeCertificate(r)
      PROVE  CInv'
  <2> DEFINE o == [ref |-> rows[r].ref, ca |-> FirstConfig, row |-> r, listed |-> TRUE]
  <2>1. o \in Ops
        BY <1>3 DEF CInv, TypeOK, RevokeCertificate, Inventory, Rows, Ops, FirstConfig
  <2> QED  BY <1>3, <2>1, BeginInv DEF RevokeCertificate, FirstConfig, Signer
<1> QED  BY <1>1, <1>2, <1>3

----------------------------------------------------------------------------
(***************************************************************************)
(* The steps of a request.                                                 *)
(***************************************************************************)

\* A signature gives a path a new certificate, with a serial no row has; the first of
\* the intermediate makes it the CA that signs, before it has signed any.
LEMMA SignInv ==
    ASSUME CInv, Sign
    PROVE  CInv'
<1>0. PICK c : c = [ca |-> op.ca, serial |-> next]
      OBVIOUS
<1>1. /\ op \in Ops /\ next \in 1..MaxSerial /\ next' = next + 1
      /\ file' = [file EXCEPT ![op.ref] = c] /\ file \in [Refs -> Certs \cup {None}]
      /\ UNCHANGED <<index, crl, published, rows, past, loaded, history>>
      /\ op.ca = "inter" => HasIntermediate
      BY <1>0, CertificatesAssumption DEF Sign, CInv, TypeOK, Working
<1>2. c \in Certs /\ c # None
      BY <1>0, <1>1, CertificatesAssumption DEF Certs, Ops
<1>3. /\ HasIntermediate => HasIntermediate'
      /\ \A ref \in Refs \ {op.ref} : file'[ref] = file[ref]
      /\ file'[op.ref] = c
      BY <1>1, <1>2 DEF HasIntermediate, Refs, Ops
<1>4. \/ pc' = "record" /\ op' = op
      \/ pc' = "idle" /\ op' = None
      BY DEF Sign, Finish
<1>5. TypeOK'
  <2>1. next' \in 1..(MaxSerial + 1)
        BY <1>1, CertificatesAssumption
  <2>2. file' \in [Refs -> Certs \cup {None}]
        BY <1>1, <1>2
  <2>3. pc' \in {"record", "idle"} /\ op' \in Ops \cup {None}
        BY <1>1, <1>4
  <2> QED  BY <1>1, <2>1, <2>2, <2>3 DEF CInv, TypeOK, history
<1>6. Working'
      BY <1>1, <1>2, <1>3, <1>4 DEF Working
<1>7. Lineage'
  <2>1. ASSUME NEW d \in Certs, IssuedCert(d)
        PROVE  d.serial < next' /\ (d.ca = "inter" => HasIntermediate')
        BY <1>1, <1>3, <2>1, CertificatesAssumption DEF IssuedCert, Certs
  <2>2. c.serial < next' /\ (c.ca = "inter" => HasIntermediate')
        BY <1>0, <1>1, <1>3, CertificatesAssumption
  <2>3. ASSUME NEW ref \in Refs, file'[ref] # None
        PROVE  IssuedCert(file[ref])'
    <3>1. CASE ref = op.ref
          BY <1>3, <2>2, <3>1 DEF IssuedCert
    <3>2. CASE ref # op.ref
      <4>1. file'[ref] = file[ref] /\ file[ref] \in Certs /\ IssuedCert(file[ref])
            BY <1>1, <1>3, <2>3, <3>2 DEF CInv, Lineage
      <4> QED  BY <2>1, <4>1 DEF IssuedCert
    <3> QED  BY <3>1, <3>2
  <2>4. ASSUME NEW r \in Inventory
        PROVE  IssuedCert(rows[r].cert)'
    <3>1. rows'[r] = rows[r] /\ rows[r].cert \in Certs /\ IssuedCert(rows[r].cert)
          BY <1>1 DEF CInv, TypeOK, Lineage, Inventory, Rows
    <3> QED  BY <2>1, <3>1 DEF IssuedCert
  <2>5. Inventory' = Inventory
        BY <1>1 DEF Inventory
  <2> QED  BY <2>3, <2>4, <2>5 DEF Lineage
<1>8. Sweeping'
      BY <1>1 DEF CInv, Sweeping, Inventory, Revoked, history
<1>9. Entered' /\ Behind'
      BY <1>1, <1>3, <1>4 DEF CInv, Entered, Behind
<1>10. RevocationReachesCa'
  <2> SUFFICES ASSUME NEW r \in RowIds, Revoked(r)', file'[rows[r].ref] = rows[r].cert,
                      rows[r].cert.ca = Signer'
               PROVE  \/ rows[r].cert \in index[rows[r].cert.ca]
                      \/ rows[r].cert \in strayed \cap index["root"]
      BY <1>1 DEF RevocationReachesCa, history
  <2>1. /\ Revoked(r) /\ r \in Inventory /\ rows[r] \in Rows /\ IssuedCert(rows[r].cert)
        BY <1>1 DEF Revoked, Inventory, CInv, TypeOK, Lineage
  <2>2. rows[r].cert # c /\ rows[r].ref \in Refs
        BY <1>0, <1>1, <2>1 DEF IssuedCert, Rows, Certs
  <2>3. file[rows[r].ref] = rows[r].cert
        BY <1>3, <2>2
  <2>4. rows[r].cert.ca = Signer
        BY <1>3, <2>1 DEF Signer, IssuedCert
  <2> QED  BY <2>1, <2>3, <2>4 DEF CInv, RevocationReachesCa
<1> QED  BY <1>5, <1>6, <1>7, <1>8, <1>9, <1>10 DEF CInv

\* A new row shows as active the certificate that is at its path.
LEMMA RecordInv ==
    ASSUME CInv, Record
    PROVE  CInv'
<1>1. /\ op \in Ops /\ file[op.ref] \in Certs /\ IssuedCert(file[op.ref])
      /\ UNCHANGED <<next, file, index, crl, published, past, loaded, cut, overtaken, strayed>>
      /\ pc' = "idle" /\ op' = None
      BY DEF Record, CInv, TypeOK, Working, Lineage, Finish, ca, history, Ops
<1>2. CASE rows' = rows
      BY <1>1, <1>2, FinishInv DEF Finish, CInv, TypeOK, ca
<1>3. CASE \E r \in RowIds \ Inventory : rows' = [rows EXCEPT ![r] = NewRow(op.ref)]
  <2>1. PICK r \in RowIds \ Inventory : rows' = [rows EXCEPT ![r] = NewRow(op.ref)]
        BY <1>3
  <2>2. NewRow(op.ref) \in Rows /\ NewRow(op.ref).status = "active"
        /\ NewRow(op.ref).cert = file[op.ref]
        BY <1>1 DEF NewRow, Rows, Ops
  <2>3. /\ rows' \in [RowIds -> Rows \cup {None}]
        /\ \A q \in RowIds \ {r} : rows'[q] = rows[q]
        /\ rows'[r] = NewRow(op.ref) /\ rows'[r] # None
        BY <2>1, <2>2, CertificatesAssumption DEF CInv, TypeOK
  <2>4. Inventory' = Inventory \cup {r} /\ \A q \in RowIds : Revoked(q)' => Revoked(q) /\ q # r
        BY <2>2, <2>3 DEF Inventory, Revoked
  <2>5. \A c : IssuedCert(c)' <=> IssuedCert(c)
        BY <1>1 DEF IssuedCert, HasIntermediate
  <2>6. TypeOK'
        BY <1>1, <2>3 DEF CInv, TypeOK
  <2>7. Working' /\ Entered' /\ Behind'
        BY <1>1 DEF CInv, Working, Entered, Behind, HasIntermediate
  <2>8. Lineage'
    <3>1. \A ref \in Refs : file[ref] # None => IssuedCert(file[ref])
          BY DEF CInv, Lineage
    <3>2. \A q \in Inventory' : IssuedCert(rows'[q].cert)
          BY <1>1, <2>2, <2>3, <2>4 DEF CInv, Lineage, Inventory
    <3>3. /\ \A ref \in Refs : file'[ref] # None => IssuedCert(file'[ref])
          /\ \A c : IssuedCert(c)' <=> IssuedCert(c)
          BY <1>1, <2>5, <3>1
    <3> QED  BY <1>1, <3>2, <3>3 DEF Lineage, IssuedCert, HasIntermediate
  <2>9. Sweeping'
    <3>1. Inventory \subseteq RowIds
          BY DEF Inventory
    <3> QED  BY <1>1, <2>4, <3>1 DEF CInv, Sweeping
  <2>10. RevocationReachesCa'
    <3> SUFFICES ASSUME NEW q \in RowIds, Revoked(q)', file[rows'[q].ref] = rows'[q].cert,
                        rows'[q].cert.ca = Signer'
                 PROVE  \/ rows'[q].cert \in index[rows'[q].cert.ca]
                        \/ rows'[q].cert \in strayed \cap index["root"]
        BY <1>1 DEF RevocationReachesCa
    <3>1. Signer' = Signer
          BY <1>1 DEF Signer, HasIntermediate
    <3>2. Revoked(q) /\ q # r
          BY <2>4
    <3>3. rows'[q] = rows[q]
          BY <2>3, <3>2
    <3> QED  BY <3>1, <3>2, <3>3 DEF CInv, RevocationReachesCa
  <2> QED  BY <2>6, <2>7, <2>8, <2>9, <2>10 DEF CInv
<1>4. Inventory # RowIds => (CHOOSE x \in RowIds \ Inventory : TRUE) \in RowIds \ Inventory
      BY DEF Inventory
<1> QED  BY <1>2, <1>3, <1>4 DEF Record

\* openssl enters the certificate in an index, or the request goes on with the other.
LEMMA CaRevokeInv ==
    ASSUME CInv, CaRevoke
    PROVE  CInv'
<1>1. /\ pc = "revoke" /\ op \in Ops /\ file[op.ref] \in Certs
      /\ UNCHANGED <<next, file, crl, published, rows, past, loaded, cut, overtaken>>
      /\ op.ca = "inter" => HasIntermediate
      BY DEF CaRevoke, CInv, TypeOK, Working, Ops, Inventory
<1>2. Signer' = Signer /\ (HasIntermediate' <=> HasIntermediate) /\ Inventory' = Inventory
      BY <1>1 DEF Signer, HasIntermediate, Inventory
<1>3. CASE /\ index' = [index EXCEPT ![op.ca] = @ \cup {file[op.ref]}]
           /\ strayed' = IF op.ca = "inter" THEN strayed \ {file[op.ref]} ELSE strayed
           /\ pc' = "crl" /\ op' = op
  <2>1. /\ index' \in [CAs -> SUBSET Certs]
        /\ \A a \in CAs : index[a] \subseteq index'[a]
        /\ file[op.ref] \in index'[op.ca]
        BY <1>1, <1>3 DEF CInv, TypeOK, Ops
  <2>2. /\ strayed' \subseteq Certs
        /\ \A c \in strayed : c \in strayed' \/ c \in index'[Signer]
        /\ op.ca = "inter" => Signer = "inter"
        BY <1>1, <1>3, <2>1 DEF CInv, TypeOK, Signer
  <2>3. TypeOK' /\ Working' /\ Sweeping'
        BY <1>1, <1>2, <1>3, <2>1, <2>2 DEF CInv, TypeOK, Working, Sweeping, Revoked
  <2>4. Lineage'
        BY <1>1, <1>2 DEF CInv, Lineage, IssuedCert
  <2>5. Entered' /\ Behind'
        BY <1>1, <1>2, <1>3, <2>1, <2>2, SignerType DEF CInv, Entered, Behind
  <2>6. RevocationReachesCa'
    <3>1. "root" \in CAs
          BY DEF CAs
    <3> QED  BY <1>1, <1>2, <2>1, <2>2, <3>1, SignerType DEF CInv, RevocationReachesCa, Revoked
  <2> QED  BY <2>3, <2>4, <2>5, <2>6 DEF CInv
<1>4. CASE /\ TryRoot /\ index' = index
           /\ strayed' = strayed \cup ({file[op.ref]} \ index["inter"])
  <2>1. /\ op' \in Ops /\ op'.ca = "root" /\ op'.ref = op.ref /\ op'.row = op.row
        /\ pc' = "revoke"
        /\ Signer = "inter"
        BY <1>1, <1>4 DEF TryRoot, Ops, CAs, Signer
  <2>2. strayed' \subseteq Certs /\ strayed \subseteq strayed'
        BY <1>1, <1>4 DEF CInv, TypeOK
  <2>3. TypeOK' /\ Working' /\ Sweeping' /\ Behind'
        BY <1>1, <1>2, <1>4, <2>1, <2>2
        DEF CInv, TypeOK, Working, Sweeping, Revoked, Behind, TryRoot
  <2>4. Entered'
        BY <1>1, <1>2, <1>4, <2>1 DEF Entered
  <2>5. Lineage' /\ RevocationReachesCa'
        BY <1>1, <1>2, <1>4, <2>2 DEF CInv, Lineage, IssuedCert, RevocationReachesCa, Revoked
  <2> QED  BY <2>3, <2>4, <2>5 DEF CInv
<1>5. CASE Finish /\ index' = index /\ strayed' = strayed
      BY <1>1, <1>5, FinishInv DEF CInv, TypeOK, ca
<1> QED  BY <1>3, <1>4, <1>5 DEF CaRevoke

\* A CRL is generated, or that fails; either way the index has the certificate.
LEMMA RevokeCrlInv ==
    ASSUME CInv, RevokeCrl
    PROVE  CInv'
<1>1. /\ pc = "crl" /\ op \in Ops
      /\ UNCHANGED <<next, file, index, published, rows, past, loaded, overtaken, strayed>>
      /\ op.ca = "inter" => HasIntermediate
      /\ file[op.ref] \in index[op.ca]
      /\ crl' \in BOOLEAN /\ cut' \in BOOLEAN
      BY DEF RevokeCrl, CInv, TypeOK, Working, Entered, ca
<1>2. \/ pc' = "mark" /\ op' = op
      \/ TryRoot
      \/ Finish
      BY DEF RevokeCrl
<1>3. Signer' = Signer /\ (HasIntermediate' <=> HasIntermediate) /\ Inventory' = Inventory
      BY <1>1 DEF Signer, HasIntermediate, Inventory
<1>4. TypeOK'
      BY <1>1, <1>2 DEF CInv, TypeOK, TryRoot, Finish, Ops, CAs
<1>5. Working' /\ Entered'
  <2>1. CASE pc' = "mark" /\ op' = op
        BY <1>1, <1>3, <2>1 DEF CInv, Working, Entered
  <2>2. CASE TryRoot
    <3>1. /\ op' \in Ops /\ op'.ca = "root" /\ op'.ref = op.ref /\ op'.row = op.row
          /\ pc' = "revoke" /\ Signer = "inter" /\ op.ca = "inter"
          BY <1>1, <2>2 DEF TryRoot, Ops, CAs, Signer
    <3> QED  BY <1>1, <1>3, <3>1 DEF CInv, Working, Entered
  <2>3. CASE Finish
        BY <2>3 DEF Finish, Working, Entered
  <2> QED  BY <1>2, <2>1, <2>2, <2>3
<1>6. Lineage' /\ Sweeping' /\ Behind' /\ RevocationReachesCa'
      BY <1>1, <1>3
      DEF CInv, Lineage, IssuedCert, Sweeping, Behind, RevocationReachesCa, Revoked
<1> QED  BY <1>4, <1>5, <1>6 DEF CInv

\* The row of the inventory is marked after the index has its certificate.
LEMMA MarkInv ==
    ASSUME CInv, Mark
    PROVE  CInv'
<1>1. /\ pc = "mark" /\ op \in Ops /\ op.row \in Inventory /\ rows[op.row].ref = op.ref
      /\ file[op.ref] # None
      /\ UNCHANGED <<next, file, index, crl, published, past, op, loaded, cut, strayed>>
      /\ pc' = "publish"
      BY DEF Mark, CInv, Working, Entered, ca
<1>2. /\ op.row \in RowIds /\ rows[op.row] \in Rows
      /\ Inventory \subseteq RowIds
      BY <1>1 DEF CInv, TypeOK, Inventory
<1>3. /\ rows' \in [RowIds -> Rows \cup {None}]
      /\ rows'[op.row] \in Rows
      /\ rows'[op.row].ref = rows[op.row].ref /\ rows'[op.row].cert = rows[op.row].cert
      /\ \A q \in RowIds \ {op.row} : rows'[q] = rows[q]
      BY <1>2 DEF Mark, CInv, TypeOK, Rows
<1>4. /\ overtaken' \subseteq RowIds /\ overtaken \subseteq overtaken'
      /\ \A s \in Sweepers : op.row \in loaded[s] => op.row \in overtaken'
      BY <1>2 DEF Mark, CInv, TypeOK
<1>5. Inventory' = Inventory
      BY <1>1, <1>2, <1>3, CertificatesAssumption DEF Inventory
<1>6. Signer' = Signer /\ (HasIntermediate' <=> HasIntermediate)
      BY <1>1 DEF Signer, HasIntermediate
<1>7. TypeOK'
      BY <1>1, <1>3, <1>4 DEF CInv, TypeOK
<1>8. Working' /\ Entered' /\ Behind'
      BY <1>1, <1>3, <1>5, <1>6 DEF CInv, Working, Entered, Behind
<1>9. Lineage'
      BY <1>1, <1>2, <1>3, <1>5, <1>6 DEF CInv, Lineage, IssuedCert
<1>10. Sweeping'
  <2> SUFFICES ASSUME NEW s \in Sweepers, NEW r \in loaded[s], Revoked(r)'
               PROVE  r \in overtaken'
      BY <1>1, <1>5 DEF Sweeping, CInv
  <2>1. CASE r = op.row
        BY <1>4, <2>1
  <2>2. CASE r # op.row
    <3>1. r \in RowIds /\ Revoked(r)
          BY <1>2, <1>3, <1>5, <2>2 DEF CInv, Sweeping, Revoked
    <3> QED  BY <1>4, <3>1 DEF CInv, Sweeping
  <2> QED  BY <2>1, <2>2
<1>11. file[op.ref] \in index[Signer] \/ file[op.ref] \in strayed \cap index["root"]
       BY <1>1, SignerType DEF CInv, Working, Entered, Signer, Ops, CAs
<1>12. RevocationReachesCa'
  <2> SUFFICES ASSUME NEW r \in RowIds, Revoked(r)', file[rows'[r].ref] = rows'[r].cert,
                      rows'[r].cert.ca = Signer
               PROVE  \/ rows'[r].cert \in index[rows'[r].cert.ca]
                      \/ rows'[r].cert \in strayed \cap index["root"]
      BY <1>1, <1>6 DEF RevocationReachesCa
  <2>1. CASE r = op.row
        BY <1>1, <1>3, <1>11, <2>1
  <2>2. CASE r # op.row
    <3>1. rows'[r] = rows[r] /\ Revoked(r)
          BY <1>3, <1>5, <2>2 DEF Revoked
    <3> QED  BY <3>1 DEF CInv, RevocationReachesCa
  <2> QED  BY <2>1, <2>2
<1> QED  BY <1>7, <1>8, <1>9, <1>10, <1>12 DEF CInv

\* What is published is generated from the indexes, which only grow.
LEMMA PublishInv ==
    ASSUME CInv, Publish \/ DownloadCrl
    PROVE  CInv'
<1>1. /\ UNCHANGED <<next, file, index, rows, past, loaded, overtaken, strayed>>
      /\ crl' \in BOOLEAN /\ cut' \in BOOLEAN
      /\ published' \in {published, Generated}
      /\ (pc' = "idle" /\ op' = None) \/ (pc' = pc /\ op' = op)
      BY GeneratedType DEF Publish, DownloadCrl, Finish, CInv, TypeOK, ca, history
<1>2. Signer' = Signer /\ (HasIntermediate' <=> HasIntermediate) /\ Inventory' = Inventory
      BY <1>1 DEF Signer, HasIntermediate, Inventory
<1>3. TypeOK'
      BY <1>1, GeneratedType DEF CInv, TypeOK
<1>4. Working' /\ Entered' /\ Lineage' /\ Sweeping' /\ RevocationReachesCa'
      BY <1>1, <1>2
      DEF CInv, Working, Entered, Lineage, IssuedCert, Sweeping, RevocationReachesCa, Revoked
<1>5. Behind'
  <2>1. CASE published' = published
        BY <1>1, <1>2, <2>1 DEF CInv, Behind
  <2>2. CASE published' = Generated
        BY <1>1, <1>2, <2>2 DEF Behind, Generated, CAs
  <2> QED  BY <1>1, <2>1, <2>2
<1> QED  BY <1>3, <1>4, <1>5 DEF CInv

\* A request that fails leaves what it has done.
LEMMA FailInv ==
    ASSUME CInv, Fail
    PROVE  CInv'
<1>1. cut' \in BOOLEAN
      BY DEF Fail, CInv, TypeOK
<1> QED  BY <1>1, FinishInv DEF Fail

\* Expiry and the sweeps leave everything but the status of rows alone.
LEMMA SweepInv ==
    ASSUME CInv,
           Expire \/ \E s \in Sweepers : SweepRead(s) \/ SweepCommit(s) \/ SweepFail(s)
    PROVE  CInv'
<1>1. UNCHANGED <<next, file, index, crl, published, pc, op, cut, overtaken, strayed>>
      BY DEF Expire, SweepRead, SweepCommit, SweepFail, ca, history
<1>2. Signer' = Signer /\ (HasIntermediate' <=> HasIntermediate)
      BY <1>1 DEF Signer, HasIntermediate
<1>3. Inventory \subseteq RowIds /\ Due \subseteq Inventory
      BY DEF Inventory, Due
<1>4. /\ loaded' \in [Sweepers -> SUBSET RowIds]
      /\ \A s \in Sweepers : loaded'[s] \subseteq loaded[s] \/ loaded'[s] = Due
      BY <1>3 DEF Expire, SweepRead, SweepCommit, SweepFail, CInv, TypeOK
<1>5. past' \subseteq Certs
      BY DEF Expire, SweepRead, SweepCommit, SweepFail, CInv, TypeOK, Inventory, Rows
<1>6. /\ rows' \in [RowIds -> Rows \cup {None}]
      /\ \A r \in RowIds : \/ rows'[r] = rows[r]
                          \/ /\ rows[r] # None /\ rows'[r] # None
                             /\ rows'[r].ref = rows[r].ref /\ rows'[r].cert = rows[r].cert
                             /\ rows'[r].status = "expired"
  <2>1. CASE rows' = rows
        BY <2>1 DEF CInv, TypeOK
  <2>2. ASSUME NEW s \in Sweepers, SweepCommit(s)
        PROVE  <1>6!1 /\ <1>6!2
    <3>1. ASSUME NEW r \in RowIds
          PROVE  \/ rows'[r] = rows[r] /\ rows'[r] \in Rows \cup {None}
                 \/ /\ rows[r] \in Rows
                    /\ rows'[r] = [rows[r] EXCEPT !.status = "expired"]
          BY <2>2 DEF SweepCommit, CInv, TypeOK, Sweeping, Inventory
    <3>2. ASSUME NEW x \in Rows, NEW y, y = [x EXCEPT !.status = "expired"]
          PROVE  y \in Rows /\ y.ref = x.ref /\ y.cert = x.cert /\ y.status = "expired"
          BY <3>2 DEF Rows
    <3>3. rows' = [r \in RowIds |-> rows'[r]]
          BY <2>2 DEF SweepCommit
    <3>4. \A r \in RowIds : rows'[r] \in Rows \cup {None}
          BY <3>1, <3>2
    <3>5. rows' \in [RowIds -> Rows \cup {None}]
          BY <3>3, <3>4
    <3> QED  BY <3>1, <3>2, <3>5, CertificatesAssumption
  <2> QED  BY <2>1, <2>2 DEF Expire, SweepRead, SweepFail
<1>7. Inventory' = Inventory
      BY <1>6 DEF Inventory
<1>8. \A r \in RowIds : Revoked(r)' => Revoked(r) /\ rows'[r] = rows[r]
      BY <1>6, <1>7 DEF Revoked
<1>9. TypeOK'
      BY <1>1, <1>4, <1>5, <1>6 DEF CInv, TypeOK
<1>10. Working' /\ Entered' /\ Behind'
      BY <1>1, <1>2, <1>3, <1>6, <1>7 DEF CInv, Working, Entered, Behind
<1>11. Lineage'
      BY <1>1, <1>2, <1>3, <1>6, <1>7 DEF CInv, Lineage, IssuedCert
<1>12. Sweeping'
  <2>1. \A r \in Due : ~Revoked(r)
        BY DEF Due, Revoked
  <2> QED  BY <1>1, <1>3, <1>4, <1>7, <1>8, <2>1 DEF CInv, Sweeping
<1>13. RevocationReachesCa'
      BY <1>1, <1>2, <1>8 DEF CInv, RevocationReachesCa
<1> QED  BY <1>9, <1>10, <1>11, <1>12, <1>13 DEF CInv

----------------------------------------------------------------------------
\* CInv is inductive: one case for each action.
LEMMA CertificatesStep == CInv /\ [Next]_vars => CInv'
<1> SUFFICES ASSUME CInv, [Next]_vars PROVE CInv'
    OBVIOUS
<1>1. CASE UNCHANGED vars
  <2>1. UNCHANGED <<next, file, index, crl, published, rows, past, pc, op, loaded, cut,
                    overtaken, strayed>>
        BY <1>1 DEF vars, ca, history
  <2> QED  BY <2>1 DEF CInv, TypeOK, Working, Lineage, Sweeping, Entered, Behind,
              RevocationReachesCa, Inventory, Revoked, IssuedCert, HasIntermediate, Signer
<1>2. CASE Continue
      BY <1>2, SignInv, RecordInv, CaRevokeInv, RevokeCrlInv, MarkInv, PublishInv DEF Continue
<1> QED  BY <1>1, <1>2, Begins, PublishInv, FailInv, SweepInv DEF Next

\* So it holds always.
LEMMA CertificatesInvariant == Spec => []CInv
BY InitInv, CertificatesStep, PTL DEF Spec

\* Every variable has its type: what is signed has a serial, what is revoked is there.
THEOREM CertificatesTypes == Spec => []TypeOK
<1>1. CInv => TypeOK
      BY DEF CInv
<1> QED  BY <1>1, CertificatesInvariant, PTL

\* revoke_certificate: what the inventory shows as revoked, and is still at its path and
\* of the CA that signs, is in that CA's index, whatever step failed or was repeated;
\* or the intermediate's run failed though its index did not show the certificate, and
\* then the root's index has it.
THEOREM CertificatesRevocation == Spec => []RevocationReachesCa
<1>1. CInv => RevocationReachesCa
      BY DEF CInv
<1> QED  BY <1>1, CertificatesInvariant, PTL

\* publish_lab_crl never takes a revoked certificate off the published CRL.
THEOREM CertificatesCrl == Spec => CrlNeverForgets
<1>1. ASSUME CInv, [Next]_vars
      PROVE  [published # None => \A a \in CAs : published[a] \subseteq published'[a]]_vars
  <2>1. CASE published' = published
        BY <2>1
  <2>2. CASE published' = Generated
        BY <1>1, <2>2 DEF CInv, Behind, Generated, CAs
  <2>3. CASE Publish
        BY <2>2, <2>3 DEF Publish
  <2>4. CASE \E i \in Identities : IssueClient(i) \/ IssueMissing(i)
        BY <2>1, <2>4 DEF IssueClient, IssueMissing, Begin
  <2>5. CASE EnsureIntermediate \/ \E r \in RowIds : RevokeCertificate(r)
        BY <2>1, <2>5 DEF EnsureIntermediate, RevokeCertificate, Begin
  <2>6. CASE Sign \/ Record \/ CaRevoke \/ RevokeCrl \/ Mark
        BY <2>1, <2>6 DEF Sign, Record, CaRevoke, RevokeCrl, Mark
  <2>7. CASE DownloadCrl \/ Fail \/ Expire
        BY <2>1, <2>7 DEF DownloadCrl, Fail, Expire
  <2>8. CASE \E s \in Sweepers : SweepRead(s) \/ SweepCommit(s) \/ SweepFail(s)
        BY <2>1, <2>8 DEF SweepRead, SweepCommit, SweepFail
  <2>9. CASE UNCHANGED vars
        BY <2>1, <2>9 DEF vars
  <2> QED  BY <1>1, <2>3, <2>4, <2>5, <2>6, <2>7, <2>8, <2>9 DEF Next, Continue
<1> QED  BY <1>1, CertificatesInvariant, PTL DEF Spec, CrlNeverForgets

\* sweep_expired_certificates does not overwrite a revocation, unless it was committed
\* after the sweep had read the row.
THEOREM CertificatesSweep == Spec => RevokedStaysRevoked
<1>1. ASSUME CInv, [Next]_vars
      PROVE  [\A r \in RowIds \ overtaken : Revoked(r) => Revoked(r)']_vars
  <2> SUFFICES ASSUME NEW r \in RowIds \ overtaken, Revoked(r)
               PROVE  Revoked(r)'
      OBVIOUS
  <2>1. CASE rows' = rows
        BY <2>1 DEF Revoked, Inventory
  <2>2. CASE Record
    <3>1. \A x \in RowIds \ Inventory : x # r
          BY DEF Revoked
    <3> QED  BY <1>1, <2>2, <3>1 DEF Record, Revoked, Inventory, CInv, TypeOK
  <2>3. CASE Mark
        BY <1>1, <2>3, CertificatesAssumption DEF Mark, Revoked, Inventory, CInv, TypeOK, Rows
  <2>4. ASSUME NEW s \in Sweepers, SweepCommit(s)
        PROVE  Revoked(r)'
    <3>1. r \notin loaded[s]
          BY <1>1 DEF CInv, Sweeping
    <3> QED  BY <2>4, <3>1 DEF SweepCommit, Revoked, Inventory
  <2>5. CASE \E i \in Identities : IssueClient(i) \/ IssueMissing(i)
        BY <2>1, <2>5 DEF IssueClient, IssueMissing, Begin
  <2>6. CASE EnsureIntermediate \/ \E q \in RowIds : RevokeCertificate(q)
        BY <2>1, <2>6 DEF EnsureIntermediate, RevokeCertificate, Begin
  <2>7. CASE Sign \/ CaRevoke \/ RevokeCrl \/ Publish \/ DownloadCrl
        BY <2>1, <2>7 DEF Sign, CaRevoke, RevokeCrl, Publish, DownloadCrl
  <2>8. CASE Fail \/ Expire \/ UNCHANGED vars
        BY <2>1, <2>8 DEF Fail, Expire, vars
  <2>9. ASSUME NEW s \in Sweepers, SweepRead(s) \/ SweepFail(s)
        PROVE  Revoked(r)'
        BY <2>1, <2>9 DEF SweepRead, SweepFail
  <2> QED  BY <1>1, <2>2, <2>3, <2>4, <2>5, <2>6, <2>7, <2>8, <2>9 DEF Next, Continue
<1> QED  BY <1>1, CertificatesInvariant, PTL DEF Spec, RevokedStaysRevoked

=============================================================================
