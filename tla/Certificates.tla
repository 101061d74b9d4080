---------------------------- MODULE Certificates ----------------------------
(***************************************************************************)
(* The certificate authority of one lab: OpenSSL's database on disk, the   *)
(* inventory in the table `certificates`, and the CRL.                     *)
(*                                                                         *)
(* A certificate lives in four places that change one after the other: the *)
(* file certs/<name>.crt, which the next issue for that name overwrites;   *)
(* the index of the CA that signed it; a row of the inventory, which       *)
(* refers to the file by its path; and, once revoked, the CRL.  An         *)
(* optional intermediate CA, with an index and a CRL of its own, signs     *)
(* client certificates from its creation on.                               *)
(*                                                                         *)
(* Issuing, creating the intermediate and revoking run one at a time here: *)
(* neither the code nor `openssl ca` locks the files.  Inventory requests  *)
(* and the start-up task, which mark expired rows, run beside them.        *)
(* `cut`, `overtaken` and `strayed` are history.                           *)
(*                                                                         *)
(* `openssl ca -revoke` is external: it enters a certificate that the      *)
(* index does not show as revoked, whoever signed it.  It fails for one    *)
(* that the index shows, and may fail for any other (a full disk, a key    *)
(* that cannot be read).                                                   *)
(***************************************************************************)
EXTENDS Naturals, FiniteSets

CONSTANTS
    Identities,  \* names that client certificates are issued for
    Inter,       \* the name of the intermediate CA's own file
    RowIds,      \* primary keys of certificates
    Sweepers,    \* inventory requests, and the start-up task
    None,        \* no file, no row
    MaxSerial    \* bound: certificates the two CAs sign

CAs == {"root", "inter"}

Refs == Identities \cup {Inter}

Certs == [ca: CAs, serial: 1..MaxSerial]

Rows == [ref: Refs, cert: Certs, status: {"active", "revoked", "expired"}]

ASSUME CertificatesAssumption ==
    /\ Inter \notin Identities
    /\ None \notin RowIds \cup Certs \cup Rows
    /\ MaxSerial \in Nat \ {0}

Ops == [ref: Refs, ca: CAs, row: RowIds \cup {None}, listed: BOOLEAN]

VARIABLES
    next,       \* the next serial number; the CAs' ranges are disjoint
    file,       \* file[ref]: the certificate at its path, or None
    index,      \* index[ca]: the certificates its database shows as revoked
    crl,        \* there is a crl.pem; all that is done with it is to generate it again
    published,  \* the lab's CRL among the trust material, or None
    rows,       \* rows[r]: the inventory
    past,       \* the certificates that have expired
    pc, op,     \* where the CA request is, and what it works on
    loaded,     \* loaded[s]: the rows sweeper s is about to mark
    cut,        \* history: a revocation ended before it was published
    overtaken,  \* history: rows revoked while a sweeper held them
    strayed     \* history: certificates that the intermediate's run failed to revoke
                \* and that its index does not show

ca == <<next, file, index>>
history == <<cut, overtaken, strayed>>
vars == <<ca, crl, published, rows, past, pc, op, loaded, history>>

----------------------------------------------------------------------------
HasIntermediate == file[Inter] # None

\* _signing_cnf.
Signer == IF HasIntermediate THEN "inter" ELSE "root"

Inventory == {r \in RowIds : rows[r] # None}

\* Wrong on purpose (the column default of the status).
NewRow_DefaultStatus(ref) == [ref |-> ref, cert |-> file[ref], status |-> "pending"]

\* What issue_client or ensure_intermediate inserts, of the certificate it finds at the
\* path.
NewRow(ref) == [ref |-> ref, cert |-> file[ref], status |-> "active"]

\* Wrong on purpose (the index of the root comes first).
FirstConfig_Root == "root"

\* The CA whose index a revocation tries first.
FirstConfig == Signer

\* Wrong on purpose (the signing CA's part only).
Generated_SigningOnly == [a \in CAs |-> IF a = Signer THEN index[a] ELSE {}]

\* generate_crl: the root's part, and the intermediate's if there is one.
Generated == [a \in CAs |-> IF a = "root" \/ HasIntermediate THEN index[a] ELSE {}]

\* Wrong on purpose (whatever its status).
Due_AnyStatus == {r \in Inventory : rows[r].cert \in past}

\* The rows a sweep marks.
Due == {r \in Inventory : rows[r].status = "active" /\ rows[r].cert \in past}

TypeOK ==
    /\ next \in 1..(MaxSerial + 1)
    /\ file \in [Refs -> Certs \cup {None}]
    /\ index \in [CAs -> SUBSET Certs]
    /\ crl \in BOOLEAN
    /\ published \in [CAs -> SUBSET Certs] \cup {None}
    /\ rows \in [RowIds -> Rows \cup {None}]
    /\ past \subseteq Certs
    /\ pc \in {"idle", "sign", "record", "revoke", "crl", "mark", "publish"}
    /\ op \in Ops \cup {None}
    /\ loaded \in [Sweepers -> SUBSET RowIds]
    /\ cut \in BOOLEAN
    /\ overtaken \subseteq RowIds
    /\ strayed \subseteq Certs

\* The root exists; nothing was issued.
Init ==
    /\ next = 1
    /\ file = [ref \in Refs |-> None]
    /\ index = [a \in CAs |-> {}]
    /\ crl = FALSE
    /\ published = None
    /\ rows = [r \in RowIds |-> None]
    /\ past = {}
    /\ pc = "idle"
    /\ op = None
    /\ loaded = [s \in Sweepers |-> {}]
    /\ cut = FALSE
    /\ overtaken = {}
    /\ strayed = {}

----------------------------------------------------------------------------
(***************************************************************************)
(* Issuing.  The downloads and the EAP-TLS test issue a certificate of     *)
(* their own if a file is missing, and enter nothing in the inventory.     *)
(* The file may be the key or the .p12, so the certificate may be there.   *)
(***************************************************************************)

Begin(stage, o) ==
    /\ pc = "idle"
    /\ pc' = stage
    /\ op' = o
    /\ UNCHANGED <<ca, crl, published, rows, past, loaded, history>>

IssueClient(i) ==
    Begin("sign", [ref |-> i, ca |-> Signer, row |-> None, listed |-> TRUE])

IssueMissing(i) ==
    Begin("sign", [ref |-> i, ca |-> Signer, row |-> None, listed |-> FALSE])

\* The root signs the intermediate, unless its file is there already.
EnsureIntermediate ==
    Begin(IF HasIntermediate THEN "record" ELSE "sign",
          [ref |-> Inter, ca |-> "root", row |-> None, listed |-> TRUE])

Finish == pc' = "idle" /\ op' = None

\* `openssl ca` enters the certificate in the index and writes the file.
Sign ==
    /\ pc = "sign"
    /\ next <= MaxSerial
    /\ next' = next + 1
    /\ file' = [file EXCEPT ![op.ref] = [ca |-> op.ca, serial |-> next]]
    /\ \/ /\ op.listed
          /\ pc' = "record"
          /\ UNCHANGED op
       \/ /\ ~op.listed
          /\ Finish
    /\ UNCHANGED <<index, crl, published, rows, past, loaded, history>>

\* db.add(Certificate(...)); the intermediate is entered once.
Record ==
    /\ pc = "record"
    /\ \/ /\ op.ref = Inter /\ \E r \in Inventory : rows[r].ref = Inter
          /\ UNCHANGED rows
       \/ /\ op.ref = Inter => \A r \in Inventory : rows[r].ref # Inter
          /\ Inventory # RowIds
          /\ LET r == CHOOSE x \in RowIds \ Inventory : TRUE
             IN  rows' = [rows EXCEPT ![r] = NewRow(op.ref)]
    /\ Finish
    /\ UNCHANGED <<ca, crl, published, past, loaded, history>>

----------------------------------------------------------------------------
(***************************************************************************)
(* Revoking: OpenSSL's index, the CRL, the row, and the publication.       *)
(***************************************************************************)

RevokeCertificate(r) ==
    /\ r \in Inventory
    /\ rows[r].status # "revoked"
    /\ file[rows[r].ref] # None
    /\ Begin("revoke", [ref |-> rows[r].ref, ca |-> FirstConfig, row |-> r, listed |-> TRUE])

\* Whatever the error of openssl, `revoke` tries the root's configuration, once.
TryRoot ==
    /\ op.ca = "inter"
    /\ op' = [op EXCEPT !.ca = "root"]
    /\ pc' = "revoke"

\* `openssl ca -revoke` of the certificate that is at the row's path.
CaRevoke ==
    /\ pc = "revoke"
    /\ LET cert == file[op.ref] IN
       \/ /\ cert \notin index[op.ca]
          /\ index' = [index EXCEPT ![op.ca] = @ \cup {cert}]
          /\ strayed' = IF op.ca = "inter" THEN strayed \ {cert} ELSE strayed
          /\ pc' = "crl"
          /\ UNCHANGED op
       \/ /\ TryRoot
          /\ strayed' = strayed \cup ({cert} \ index["inter"])
          /\ UNCHANGED index
       \/ /\ op.ca = "root"
          /\ Finish
          /\ UNCHANGED <<index, strayed>>
    /\ UNCHANGED <<next, file, crl, published, rows, past, loaded, cut, overtaken>>

\* generate_crl, within the same try block as -revoke; it may fail after the root's part.
RevokeCrl ==
    /\ pc = "crl"
    /\ \/ /\ crl' = TRUE
          /\ pc' = "mark"
          /\ UNCHANGED <<op, cut>>
       \/ /\ TryRoot \/ (op.ca = "root" /\ Finish)
          /\ crl' \in {crl, TRUE}
          /\ cut' = TRUE
    /\ UNCHANGED <<ca, published, rows, past, loaded, overtaken, strayed>>

\* row.status = revoked; db.commit().
Mark ==
    /\ pc = "mark"
    /\ rows' = [rows EXCEPT ![op.row].status = "revoked"]
    /\ overtaken' = overtaken \cup ({op.row} \cap UNION {loaded[s] : s \in Sweepers})
    /\ pc' = "publish"
    /\ UNCHANGED <<ca, crl, published, past, op, loaded, cut, strayed>>

\* publish_lab_crl generates the CRL again.
Publish ==
    /\ pc = "publish"
    /\ crl' = TRUE
    /\ published' = Generated
    /\ cut' = FALSE
    /\ Finish
    /\ UNCHANGED <<ca, rows, past, loaded, overtaken, strayed>>

\* GET /crl.pem generates the CRL if there is none.
DownloadCrl ==
    /\ pc = "idle"
    /\ ~crl
    /\ crl' = TRUE
    /\ UNCHANGED <<ca, published, rows, past, pc, op, loaded, history>>

\* The request fails between two steps, or the process ends: nothing is undone.
Fail ==
    /\ pc # "idle"
    /\ cut' = (cut \/ pc \in {"crl", "mark", "publish"})
    /\ Finish
    /\ UNCHANGED <<ca, crl, published, rows, past, loaded, overtaken, strayed>>

----------------------------------------------------------------------------
(***************************************************************************)
(* Expiry.                                                                 *)
(***************************************************************************)

Expire ==
    /\ \E r \in Inventory : past' = past \cup {rows[r].cert}
    /\ UNCHANGED <<ca, crl, published, rows, pc, op, loaded, history>>

\* sweep_expired_certificates reads the rows it will change, ...
SweepRead(s) ==
    /\ loaded[s] = {}
    /\ loaded' = [loaded EXCEPT ![s] = Due]
    /\ UNCHANGED <<ca, crl, published, rows, past, pc, op, history>>

\* ... and commits: the UPDATE selects them by primary key.
SweepCommit(s) ==
    /\ loaded[s] # {}
    /\ rows' = [r \in RowIds |->
                   IF r \in loaded[s] THEN [rows[r] EXCEPT !.status = "expired"] ELSE rows[r]]
    /\ loaded' = [loaded EXCEPT ![s] = {}]
    /\ UNCHANGED <<ca, crl, published, past, pc, op, history>>

SweepFail(s) ==
    /\ loaded[s] # {}
    /\ loaded' = [loaded EXCEPT ![s] = {}]
    /\ UNCHANGED <<ca, crl, published, rows, past, pc, op, history>>

----------------------------------------------------------------------------
Continue == Sign \/ Record \/ CaRevoke \/ RevokeCrl \/ Mark \/ Publish

Next ==
    \/ \E i \in Identities : IssueClient(i) \/ IssueMissing(i)
    \/ EnsureIntermediate \/ DownloadCrl
    \/ \E r \in RowIds : RevokeCertificate(r)
    \/ Continue \/ Fail
    \/ Expire
    \/ \E s \in Sweepers : SweepRead(s) \/ SweepCommit(s) \/ SweepFail(s)

Spec == Init /\ [][Next]_vars

\* The request thread keeps running.
FairSpec == Spec /\ WF_vars(Continue)

----------------------------------------------------------------------------
(***************************************************************************)
(* Properties.                                                             *)
(***************************************************************************)

Revoked(r) == r \in Inventory /\ rows[r].status = "revoked"

\* A row shows a certificate as revoked only if the CA that signed it has recorded
\* the revocation, as long as the certificate is still the one at the row's path and
\* its CA is the one that signs: whatever step of a revocation failed, however often
\* it was retried, and whatever else was issued.  Only the run of `openssl ca -revoke`
\* for the intermediate may not fail on a certificate that its index does not show:
\* then the root, which did not sign it, records it instead.
RevocationReachesCa ==
    \A r \in RowIds :
        Revoked(r) /\ file[rows[r].ref] = rows[r].cert /\ rows[r].cert.ca = Signer =>
            \/ rows[r].cert \in index[rows[r].cert.ca]
            \/ rows[r].cert \in strayed \cap index["root"]

\* What the trust material has once listed as revoked stays listed, although the
\* CRL is put together again from two indexes each time.
CrlNeverForgets ==
    [][published # None =>
          \A a \in CAs : published[a] \subseteq published'[a]]_vars

\* Expiry does not overwrite a revocation that was there when the sweep began.
RevokedStaysRevoked ==
    [][\A r \in RowIds \ overtaken : Revoked(r) => Revoked(r)']_vars

\* A revocation in an index comes to be in the published CRL, unless a request was cut
\* short on the way.
Unpublished ==
    \E a \in CAs : index[a] # {} /\ (published = None \/ ~(index[a] \subseteq published[a]))

RevocationIsPublished == (Unpublished /\ ~cut) ~> (~Unpublished \/ cut)

\* usage.md: revoking a client certificate records it in the CA database.  The row
\* names the certificate, by its serial.
RevokedIsRecorded ==
    \A r \in RowIds :
        Revoked(r) /\ rows[r].ref # Inter => rows[r].cert \in index[rows[r].cert.ca]

=============================================================================
