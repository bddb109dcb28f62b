------------------------------ MODULE Methods ------------------------------
(***************************************************************************)
(* The methods of the typed services (proxmox/access ... proxmox/storage): *)
(* what each one checks before it sends anything, which form keys it       *)
(* writes, which release it asks for and what it makes of the answer; and  *)
(* beside it what the mock server's handlers refuse and answer.  The two   *)
(* sides are written apart, in different packages, and have to fit.        *)
(*                                                                         *)
(* A method's inputs are named as the wire names them.  Node names and     *)
(* VMIDs that only travel in the path are left out.                        *)
(***************************************************************************)
EXTENDS Integers, FiniteSets

(***************************************************************************)
(* checked: inputs the method refuses to do without                        *)
(* form:    checked inputs it writes to the form                           *)
(* filled:  keys the encoder writes whatever the spec holds                *)
(* late:    keys that are set after the caller's Extra, which cannot touch *)
(*          them                                                           *)
(* spec:    whether it takes a pointer to a spec with an Extra             *)
(* since:   minor release of 9 that it asks the capabilities for           *)
(* task:    whether it reads a UPID from the answer                        *)
(***************************************************************************)
Call(checked) == [checked |-> checked, form |-> {}, filled |-> {}, late |-> {},
                  spec |-> FALSE, since |-> 0, task |-> "none"]

\* A form without an Extra.
Body(path, form) == [Call(path \union form) EXCEPT !.form = form, !.late = form]

\* A form of a spec and its Extra (svcutil.EncodeWithExtra).
Spec(path, form) == [Call(path \union form) EXCEPT !.form = form, !.spec = TRUE]

\* TaskRef on the answer; Maybe takes an empty answer for a finished change.
Task(m)     == [m EXCEPT !.task = "always"]
Maybe(m)    == [m EXCEPT !.task = "maybe"]
Since(n, m) == [m EXCEPT !.since = n]

\* No release has it: the method refuses every call.
Never == 99

Read == Call({})

\* One table of what several files or handlers define; no name is in two.
Joined(tables) == [name \in UNION {DOMAIN t : t \in tables} |->
                     (CHOOSE t \in tables : name \in DOMAIN t)[name]]

-----------------------------------------------------------------------------
(* access                                                                  *)

users == [ListUsers |-> Read, GetUser |-> Call({"userid"}),
          CreateUser |-> Spec({}, {"userid"}), UpdateUser |-> Spec({"userid"}, {}),
          DeleteUser |-> Call({"userid"})]

groups == [ListGroups |-> Read, GetGroup |-> Call({"groupid"}),
           CreateGroup |-> Spec({}, {"groupid"}), UpdateGroup |-> Spec({"groupid"}, {}),
           DeleteGroup |-> Call({"groupid"})]

roles == [ListRoles |-> Read, GetRole |-> Call({"roleid"}),
          CreateRole |-> Spec({}, {"roleid"}), UpdateRole |-> Spec({"roleid"}, {}),
          DeleteRole |-> Call({"roleid"})]

\* "to" stands for the users, groups or tokens, of which one is needed.
acl == [ListACLs |-> Read,
        SetACL |-> [Spec({}, {"path", "roles", "to"}) EXCEPT !.late = {"roles", "to"}]]

userToken == {"userid", "tokenid"}

tokens == [ListTokens |-> Call({"userid"}), GetToken |-> Call(userToken),
           CreateToken |-> [Spec(userToken, {}) EXCEPT !.spec = FALSE],
           UpdateToken |-> Spec(userToken, {}), RevokeToken |-> Call(userToken),
           ClearTokenComment |-> Since(1, Call(userToken)),
           RegenerateTokenSecret |-> Since(2, Call(userToken))]

-----------------------------------------------------------------------------
(* ceph, cluster, metrics, pbs                                             *)

osds == [ListOSDs |-> Read, CreateOSD |-> Task(Spec({}, {"dev"})),
         DestroyOSD |-> Task(Read)]

cephPools == [ListPools |-> Read, GetPool |-> Call({"name"}),
              CreatePool |-> Task(Spec({}, {"name"})), DeletePool |-> Task(Call({"name"}))]

mirror == [GetMirrorStatus |-> Since(Never, Read), EnableMirroring |-> Since(Never, Read),
           DisableMirroring |-> Since(Never, Read)]

cephStatus == [GetStatus |-> Read, GetClusterConfig |-> Read]

clusterConfig ==
    [CreateCluster |-> Spec({}, {"clustername"}), JoinInfo |-> Read,
     JoinCluster |-> Spec({}, {"hostname", "password", "fingerprint"}),
     ListConfigNodes |-> Read]

clusterOptions == [GetOptions |-> Read, SetOptions |-> Spec({}, {})]

clusterReads == [ListResources |-> Read, GetStatus |-> Read]

rrd == [GetNodeRRD |-> Read, GetVMRRD |-> Call({"kind"})]

metricServers == [ListMetricServers |-> Read, GetMetricServer |-> Call({"id"}),
                  CreateMetricServer |-> Spec({"id"}, {"type", "server"}),
                  UpdateMetricServer |-> Spec({"id"}, {}),
                  DeleteMetricServer |-> Call({"id"})]

nodeStatus == [GetNodeStatus |-> Call({"node"})]

otel == [GetOTelConfig |-> Since(Never, Read), SetOTelConfig |-> Since(Never, Read)]

backups == [ListNodeBackups |-> Call({"storage"}),
            CreateBackup |-> Task(Spec({}, {"storage"})),
            VerifyBackup |-> Since(Never, Read)]

\* restoreBody: the archive is set after Extra.
restores ==
    [RestoreQEMU |-> Task([Spec({}, {"vmid", "archive"}) EXCEPT !.late = {"archive"}]),
     RestoreLXC |-> Task([Spec({}, {"vmid", "archive"}) EXCEPT !.late = {"archive"}])]

backupJobs == [ListBackupJobs |-> Read, GetBackupJob |-> Call({"id"}),
               CreateBackupJob |-> Spec({}, {"storage"}), UpdateBackupJob |-> Spec({"id"}, {}),
               DeleteBackupJob |-> Call({"id"})]

-----------------------------------------------------------------------------
(* firewall: a node has no IPSets (requireIPSets), so the scope is an      *)
(* input that can be wrong.                                                *)

ipsets == [ListIPSets |-> Call({"scope"}), CreateIPSet |-> Spec({"scope"}, {"name"}),
           RenameIPSet |-> Since(1, Body({"scope"}, {"name", "rename"})),
           DeleteIPSet |-> Call({"scope", "name"}),
           ListIPSetEntries |-> Call({"scope", "name"}),
           AddIPSetEntry |-> Spec({"scope", "name"}, {"cidr"}),
           DeleteIPSetEntry |-> Call({"scope", "name", "cidr"})]

firewallOptions == [GetOptions |-> Read, SetOptions |-> Spec({}, {})]

firewallRules == [ListRules |-> Read, GetRule |-> Read,
                  CreateRule |-> Spec({}, {"type", "action"}),
                  UpdateRule |-> Spec({}, {}), DeleteRule |-> Read]

-----------------------------------------------------------------------------
(* ha                                                                      *)

arm == [ArmHA |-> Since(2, Read), DisarmHA |-> Since(2, Body({}, {"resource-mode"}))]

crs == [GetCRSSettings |-> Read, SetCRSSettings |-> Body({}, {"crs"})]

dlb == [GetDLBStatus |-> Since(Never, Read), SetDLBConfig |-> Since(Never, Read)]

placement == [MigrateResource |-> Body({"sid"}, {"node"}),
              RelocateResource |-> Body({"sid"}, {"node"})]

replication == [ListReplicationJobs |-> Read, GetReplicationJob |-> Read,
                CreateReplicationJob |-> Spec({}, {"id", "target"}),
                UpdateReplicationJob |-> Spec({"id"}, {}),
                DeleteReplicationJob |-> Call({"id"})]

haResources == [ListResources |-> Read, GetResource |-> Read,
                AddResource |-> Spec({}, {"sid"}), UpdateResource |-> Spec({"sid"}, {}),
                RemoveResource |-> Call({"sid"})]

haRulesCalls == [ListRules |-> Read, GetRule |-> Read,
                 CreateRule |-> Spec({}, {"rule", "type"}), UpdateRule |-> Spec({"rule"}, {}),
                 DeleteRule |-> Call({"rule"})]

haStatus == [GetManagerStatus |-> Read, HAStatusCurrent |-> Read]

-----------------------------------------------------------------------------
(* lxc and qemu                                                            *)

numbered(m, key) == [m EXCEPT !.filled = {key}]

lxcGuests == [List |-> Read, Get |-> Read, Config |-> Read,
              SetConfig |-> Maybe(Spec({}, {})),
              Create |-> numbered(Task(Spec({}, {"ostemplate"})), "vmid"),
              Clone |-> numbered(Task(Spec({}, {})), "newid"), Delete |-> Task(Read)]

oci == [PullOCITemplate |-> Since(1, Task(Spec({"storage"}, {"url", "filename"})))]

powerCalls == [Start |-> Task(Read), Stop |-> Task(Read), Shutdown |-> Task(Read),
               Reboot |-> Task(Read), Suspend |-> Task(Read), Resume |-> Task(Read)]

lxcPower == powerCalls
qemuPower == powerCalls

snapshots == [Snapshots |-> Read, CreateSnapshot |-> Task(Spec({}, {"snapname"})),
              RollbackSnapshot |-> Task(Call({"name"})),
              DeleteSnapshot |-> Task(Call({"name"}))]

lxcSnapshots == snapshots
qemuSnapshots == snapshots

qemuGuests == [List |-> Read, Get |-> Read, Config |-> Read,
               SetConfig |-> Maybe(Spec({}, {})),
               Create |-> numbered(Task(Spec({}, {})), "vmid"),
               Clone |-> numbered(Task(Spec({}, {})), "newid"), Delete |-> Task(Read)]

\* AddDisk, RemoveDisk, AddNIC and RemoveNIC are a SetConfig of the slot.
moveDiskUnchecked == [MoveDisk |-> Task(Spec({}, {"disk"}))]
moveDisk == [MoveDisk |-> Task(Spec({}, {"disk", "storage"}))]
devices  == [AddDisk |-> Maybe(Body({}, {"slot", "storage", "size"})),
             RemoveDisk |-> Maybe(Body({}, {"slot"})),
             AddNIC |-> Maybe(Body({}, {"slot", "model"})),
             RemoveNIC |-> Maybe(Body({}, {"slot"})),
             ResizeDisk |-> Maybe(Body({}, {"disk", "size"}))]

migrate  == [Migrate |-> Task(Spec({}, {"target"}))]
template == [ConvertToTemplate |-> Maybe(Read)]

agent == [AgentPing |-> Read, AgentExec |-> Body({}, {"command"}),
          AgentExecStatus |-> Read]

-----------------------------------------------------------------------------
(* nodes                                                                   *)

\* A dns plugin needs its provider's data; applyPluginData refuses data that
\* renders nothing, and sets api and data after Extra.
acmePluginCalls ==
    [ListACMEPlugins |-> Read, GetACMEPlugin |-> Call({"id"}),
     CreateACMEPlugin |-> [Spec({}, {"id", "data"}) EXCEPT !.late = {"data"}],
     UpdateACMEPlugin |-> Spec({"id"}, {}), DeleteACMEPlugin |-> Call({"id"})]

acmeReads == [GetACMEChallengeSchema |-> Read, ListACMEDirectories |-> Read,
              GetACMEMeta |-> Read]

aptPackages     == [ListAptUpdates |-> Read, RefreshAptCache |-> Task(Read)]
aptRepositories == [ListRepositories |-> Read, UpdateRepository |-> Spec({}, {"path"})]

customCerts == [GetNodeCertificates |-> Read, DeleteCustomCertificate |-> Read,
                UploadCustomCertificate |-> Spec({}, {"certificates"})]

acmeAccountCalls ==
    [ListACMEAccounts |-> Read, GetACMEAccount |-> Call({"name"}),
     RegisterACMEAccount |->
         Task([Spec({}, {"name", "contact"}) EXCEPT !.late = {"contact"}]),
     UpdateACMEAccount |-> Task(Spec({"name"}, {})),
     DeactivateACMEAccount |-> Task(Call({"name"}))]

acmeCerts == [OrderNodeCertificate |-> Task(Read), RenewNodeCertificate |-> Task(Read),
              RevokeNodeCertificate |-> Task(Read)]

disks == [ListDisks |-> Read, GetDiskSMART |-> Call({"disk"}),
          InitializeDisk |-> Task(Body({}, {"disk"}))]

interfaces == [ListInterfaces |-> Read, GetInterface |-> Read,
               CreateInterface |-> Spec({}, {"iface", "type"}),
               UpdateInterface |-> Spec({"iface"}, {}), DeleteInterface |-> Call({"iface"}),
               ApplyNetworkConfig |-> Maybe(Read)]

-----------------------------------------------------------------------------
(* sdn                                                                     *)

applySDN == [ApplySDN |-> Read]

zoneCalls == [ListZones |-> Read, GetZone |-> Read, CreateZone |-> Spec({}, {"zone", "type"}),
              UpdateZone |-> Spec({"zone"}, {}), DeleteZone |-> Call({"zone"})]

vnetCalls == [ListVNets |-> Read, GetVNet |-> Read, CreateVNet |-> Spec({}, {"vnet", "zone"}),
              UpdateVNet |-> Spec({"vnet"}, {}), DeleteVNet |-> Call({"vnet"})]

subnetCalls == [ListSubnets |-> Read, GetSubnet |-> Read,
                CreateSubnet |-> Spec({"vnet"}, {"subnet"}),
                UpdateSubnet |-> Spec({"vnet", "subnet"}, {}),
                DeleteSubnet |-> Call({"vnet", "subnet"})]

\* Some protocols ask for 9.2 and the others for nothing.
fabricCalls ==
    [ListFabrics |-> Read, GetFabric |-> Read,
     CreateFabric |-> Spec({}, {"id", "protocol"}), UpdateFabric |-> Spec({"id"}, {}),
     CreateAdvancedFabric |-> Since(2, Spec({}, {"id", "protocol"})),
     UpdateAdvancedFabric |-> Since(2, Spec({"id"}, {})),
     DeleteFabric |-> Call({"id"})]

fabricNodeCalls ==
    [ListFabricNodes |-> Call({"fabric"}), GetFabricNode |-> Call({"fabric", "node_id"}),
     CreateFabricNode |-> Spec({"fabric"}, {"node_id", "protocol"}),
     UpdateFabricNode |-> Spec({"fabric", "node_id"}, {}),
     DeleteFabricNode |-> Call({"fabric", "node_id"})]

sdnStatus == [SDNStatus |-> Call({"node"}), ZoneContent |-> Call({"node", "zone"}),
              ZoneBridges |-> Call({"node", "zone"}), ZoneIPVRF |-> Call({"node", "zone"}),
              VNetMACVRF |-> Call({"node", "vnet"}),
              FabricInterfaces |-> Call({"node", "fabric"}),
              FabricNeighbors |-> Call({"node", "fabric"}),
              FabricRoutes |-> Call({"node", "fabric"})]

-----------------------------------------------------------------------------
(* storage                                                                 *)

content == [ListContent |-> Read, GetVolume |-> Read]

datastores == [ListDatastores |-> Read, GetDatastore |-> Read,
               CreateDatastore |-> Spec({}, {"storage", "type"}),
               UpdateDatastore |-> Spec({"storage"}, {}),
               DeleteDatastore |-> Call({"storage"})]

nodeStorage == [ListNodeStorage |-> Read, NodeStorageStatus |-> Read]

\* The content type is the method's own and the multipart form has no Extra.
uploads ==
    LET upload == [Task(Body({}, {"filename", "reader"})) EXCEPT !.filled = {"content"},
                                                                !.late = @ \union {"content"}]
    IN  [UploadISO |-> upload, UploadDiskImage |-> upload]

volumes == [CreateVolume |-> Spec({}, {"filename", "size"}), DeleteVolume |-> Maybe(Read)]

zfs == [ListZFSPools |-> Read, GetZFSPool |-> Read,
        CreateZFSPool |->
            Task([Spec({}, {"name", "raidlevel", "devices"}) EXCEPT !.late = {"devices"}]),
        ExpandRAIDZ |-> Since(Never, Read)]

volumeSnapshots == [VolumeSnapshots |-> Since(Never, Read),
                    CreateVolumeSnapshot |-> Since(Never, Read),
                    DeleteVolumeSnapshot |-> Since(Never, Read)]

-----------------------------------------------------------------------------
\* The accessors of Client.
Service ==
    [access   |-> Joined({users, groups, roles, acl, tokens}),
     ceph     |-> Joined({osds, cephPools, mirror, cephStatus}),
     cluster  |-> Joined({clusterConfig, clusterOptions, clusterReads}),
     firewall |-> Joined({ipsets, firewallOptions, firewallRules}),
     ha       |-> Joined({arm, crs, dlb, placement, replication, haResources,
                          haRulesCalls, haStatus}),
     lxc      |-> Joined({lxcGuests, oci, lxcPower, lxcSnapshots}),
     metrics  |-> Joined({rrd, metricServers, nodeStatus, otel}),
     nodes    |-> Joined({acmePluginCalls, acmeReads, aptPackages, aptRepositories,
                          customCerts, acmeAccountCalls, acmeCerts, disks, interfaces}),
     pbs      |-> Joined({backups, restores, backupJobs}),
     qemu     |-> Joined({qemuGuests, qemuPower, qemuSnapshots, moveDisk, devices,
                          migrate, template, agent}),
     sdn      |-> Joined({applySDN, zoneCalls, vnetCalls, subnetCalls, fabricCalls,
                          fabricNodeCalls, sdnStatus}),
     storage  |-> Joined({content, datastores, nodeStorage, uploads, volumes, zfs,
                          volumeSnapshots})]

\* What EncodeWithExtra and the body builders put in the form when the caller's
\* Extra sets the keys of `blanked' to nothing.
EncodeWithExtra(m, blanked) == (m.form \union m.filled) \ (blanked \ m.late)

\* TaskRef, and the methods that take an empty answer for a change that is
\* done, on an answer that is a UPID or null.
TaskRef(m, answer) ==
    IF m.task = "always" /\ answer = "null" THEN "invalid" ELSE "ok"

-----------------------------------------------------------------------------
(* The mock server's side of these calls.                                  *)

guestAsks == [Create |-> {"vmid"}, Clone |-> {"newid"}, CreateSnapshot |-> {"snapname"}]

\* The form keys without which a handler answers 400.
Asks ==
    [access   |-> [CreateUser |-> {"userid"}, CreateGroup |-> {"groupid"},
                   CreateRole |-> {"roleid"}, SetACL |-> {"path", "roles"}],
     ceph     |-> [CreatePool |-> {"name"}, CreateOSD |-> {"dev"}],
     cluster  |-> [CreateCluster |-> {"clustername"},
                   JoinCluster |-> {"hostname", "password", "fingerprint"}],
     firewall |-> [CreateIPSet |-> {"name"}, RenameIPSet |-> {"name"},
                   AddIPSetEntry |-> {"cidr"}],
     ha       |-> [CreateReplicationJob |-> {"id"}, DisarmHA |-> {"resource-mode"},
                   MigrateResource |-> {"node"}, RelocateResource |-> {"node"},
                   AddResource |-> {"sid"}, CreateRule |-> {"rule"}],
     lxc      |-> Joined({[PullOCITemplate |-> {"url", "filename"}], guestAsks}),
     metrics  |-> << >>,
     nodes    |-> [CreateACMEPlugin |-> {"id"}, CreateInterface |-> {"iface"},
                   InitializeDisk |-> {"disk"}, RegisterACMEAccount |-> {"name"},
                   UploadCustomCertificate |-> {"certificates"}],
     pbs      |-> [CreateBackup |-> {"storage"}, CreateBackupJob |-> {"storage"},
                   RestoreQEMU |-> {"vmid"}, RestoreLXC |-> {"vmid"}],
     qemu     |-> Joined({[MoveDisk |-> {"disk", "storage"}, Migrate |-> {"target"},
                           AgentExec |-> {"command"}], guestAsks}),
     sdn      |-> [CreateZone |-> {"zone"}, CreateVNet |-> {"vnet"},
                   CreateSubnet |-> {"subnet"}, CreateFabric |-> {"id"},
                   CreateAdvancedFabric |-> {"id"}, CreateFabricNode |-> {"node_id"}],
     storage  |-> [CreateDatastore |-> {"storage", "type"}, CreateVolume |-> {"filename"},
                   CreateZFSPool |-> {"name"}, UploadISO |-> {"content", "filename"},
                   UploadDiskImage |-> {"content", "filename"}]]

guestWorkers == {"Create", "Clone", "Delete", "CreateSnapshot", "RollbackSnapshot",
                 "DeleteSnapshot"} \union DOMAIN powerCalls

\* The methods whose handlers answer with the UPID of a task (finishedTask).
Workers ==
    [access   |-> {}, firewall |-> {}, ha |-> {}, metrics |-> {}, sdn |-> {},
     ceph     |-> {"CreatePool", "DeletePool", "CreateOSD", "DestroyOSD"},
     cluster  |-> {"CreateCluster", "JoinCluster"},
     lxc      |-> {"PullOCITemplate"} \union guestWorkers,
     nodes    |-> {"ApplyNetworkConfig", "RefreshAptCache", "InitializeDisk",
                   "OrderNodeCertificate", "RenewNodeCertificate", "RevokeNodeCertificate",
                   "RegisterACMEAccount", "UpdateACMEAccount", "DeactivateACMEAccount"},
     pbs      |-> {"CreateBackup", "RestoreQEMU", "RestoreLXC"},
     qemu     |-> {"ConvertToTemplate", "MoveDisk", "Migrate"} \union guestWorkers,
     storage  |-> {"UploadISO", "UploadDiskImage", "DeleteVolume", "CreateZFSPool"}]

\* What the handler of a method answers to a form.
Answer(svc, name, form) ==
    IF name \in DOMAIN Asks[svc] /\ ~(Asks[svc][name] \subseteq form) THEN "bad request"
    ELSE IF name \in Workers[svc] THEN "upid" ELSE "null"
=============================================================================
