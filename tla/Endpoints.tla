------------------------------ MODULE Endpoints ------------------------------
(***************************************************************************)
(* What the calls of the web client (dtos/api.ts) carry.  A transfer       *)
(* object is the set of facts its fields are about; an operation writes    *)
(* the facts of its request or shows those of its response; a request that *)
(* deletes names what is deleted, not what goes with it.  Two operations   *)
(* have to do with each other when one shows what the other writes.        *)
(***************************************************************************)
EXTENDS FiniteSets

Facts == {
  "student", "teacher", \* which users there are, and their names
  "password",
  "member",     \* which students are in a class
  "teaches",    \* which teachers have a class
  "class",      \* which classes there are, and their names
  "group",      \* which assignment groups there are, names and settings
  "dates",      \* start and deadline, and the status that follows from them
  "roster",     \* which students have an assignment of a group
  "archived",
  "plan",       \* the tasks of an assignment
  "attempt",    \* attempts, their status and drafts
  "submit",     \* submissions, and the rates computed from them
  "template", "setting", "version",
  "session", "sessions" } \* the user's own GNS3 session, others' sessions

\* Operations: a GET shows its response; the others write their request (a
\* POST that only asks writes nothing).
Shows(response) == [writes |-> {}, shows |-> response]
Writes(request) == [writes |-> request, shows |-> {}]

----------------------------------------------------------------------------
(***************************************************************************)
(* Users and classes.                                                      *)
(***************************************************************************)
AddUserReq         == {"student", "teacher", "password", "member", "teaches"}
EditUserReq        == {"student", "teacher", "password", "member", "teaches"}
DeleteUsersReq     == {"student", "teacher"}
UserDto            == {"student", "teacher", "member", "teaches", "class"}
QueryUsersRes      == UserDto
QueryUserDetailsRes == {"student", "teacher", "group", "submit", "class", "member", "teaches", "dates", "roster"}

userAddUser         == Writes(AddUserReq)
userEditUser        == Writes(EditUserReq)
userDeleteUsers     == Writes(DeleteUsersReq)
userQueryUsers      == Shows(QueryUsersRes)
userQueryUserDetails == Shows(QueryUserDetailsRes)

AddStudentToClassReq    == {"member"}
AddTeacherToClassReq    == {"teaches"}
CreateClassReq          == {"class", "teaches"}
EditClassReq            == {"class", "teaches", "member"}
DeleteClassesReq        == {"class"}
ClassDto                == {"class", "teaches", "member"}
ClassDetailsStudentsDto == {"member", "student"}
ClassDetailsTeachersDto == {"teaches", "teacher"}
QueryClassesRes         == ClassDto
QueryClassDetailsRes    == {"class", "submit", "dates", "group"}
                             \cup ClassDetailsStudentsDto \cup ClassDetailsTeachersDto

classAddStudentToClass == Writes(AddStudentToClassReq)
classAddTeacherToClass == Writes(AddTeacherToClassReq)
classCreateClass       == Writes(CreateClassReq)
classEditClass         == Writes(EditClassReq)
classDeleteClasses     == Writes(DeleteClassesReq)
classQueryClasses      == Shows(QueryClassesRes)
classQueryClassDetails == Shows(QueryClassDetailsRes)

----------------------------------------------------------------------------
(***************************************************************************)
(* Assignment groups and templates.                                        *)
(***************************************************************************)
CreateAGBaseReq   == {"group", "dates", "roster"}
CreateIDNetAGReq  == CreateAGBaseReq \cup {"plan"}
CreateSubnetAGReq == CreateAGBaseReq \cup {"plan"}
EditAGBaseReq     == {"group", "dates", "roster"}
EditIDNetAGReq    == EditAGBaseReq
EditSubnetAGReq   == EditAGBaseReq
DeleteIDNetAGsReq  == {"group"}
DeleteSubnetAGsReq == {"group"}
ArchiveAGReq      == {"archived", "dates"}
ReopenStudentAssignmentAttemptReq == {"attempt"}

AGBaseDto == {"group", "class", "submit", "roster", "dates", "archived"}
AssignmentGroupDto == AGBaseDto
IDNetAGDto         == AGBaseDto
SubnetAGDto        == AGBaseDto
AGSubmitDetailsBaseDto == {"student", "roster", "submit", "attempt"}
IDNetAGSubmitDetailsDto  == AGSubmitDetailsBaseDto
SubnetAGSubmitDetailsDto == AGSubmitDetailsBaseDto
QueryAssignmentGroupsRes == AssignmentGroupDto
QueryIDNetAGDetailRes    == IDNetAGDto \cup IDNetAGSubmitDetailsDto
QuerySubnetAGDetailRes   == SubnetAGDto \cup SubnetAGSubmitDetailsDto

assignmentGroupCreateIdNetAssignmentGroup    == Writes(CreateIDNetAGReq)
assignmentGroupCreateSubnetAssignmentGroup   == Writes(CreateSubnetAGReq)
assignmentGroupEditIdNetAssignmentGroup      == Writes(EditIDNetAGReq)
assignmentGroupEditSubnetAssignmentGroup     == Writes(EditSubnetAGReq)
assignmentGroupDeleteIdNetAssignmentGroups   == Writes(DeleteIDNetAGsReq)
assignmentGroupDeleteSubnetAssignmentGroups  == Writes(DeleteSubnetAGsReq)
assignmentGroupArchiveAssignmentGroup        == Writes(ArchiveAGReq)
assignmentGroupReopenStudentAssignmentAttempt == Writes(ReopenStudentAssignmentAttemptReq)
assignmentGroupQueryAssignmentGroups         == Shows(QueryAssignmentGroupsRes)
assignmentGroupQueryIdNetAssignmentGroupDetails  == Shows(QueryIDNetAGDetailRes)
assignmentGroupQuerySubnetAssignmentGroupDetails == Shows(QuerySubnetAGDetailRes)

CreateAGTemplateReq  == {"template"}
EditAGTemplateReq    == {"template"}
DeleteAGTemplatesReq == {"template"}
AGTemplateDto        == {"template"}
QueryAGTemplatesRes  == AGTemplateDto

aGTemplateCreateAGTemplate  == Writes(CreateAGTemplateReq)
aGTemplateEditAGTemplate    == Writes(EditAGTemplateReq)
aGTemplateDeleteAGTemplates == Writes(DeleteAGTemplatesReq)
aGTemplateQueryAGTemplates  == Shows(QueryAGTemplatesRes)

----------------------------------------------------------------------------
(***************************************************************************)
(* Assignments of a student, attempts and submissions.                     *)
(***************************************************************************)
AssignmentDto       == {"group", "dates", "teaches", "class", "roster", "archived"}
IDNetAssignmentDto  == AssignmentDto \cup {"submit"}
SubnetAssignmentDto == AssignmentDto \cup {"submit"}
QueryIDNetAssignmentsRes  == IDNetAssignmentDto
QuerySubnetAssignmentsRes == SubnetAssignmentDto
QueryAssignmentSubmitDetailsFullBaseRes   == {"group", "dates", "student", "submit"}
QueryIDNetAssignmentSubmitDetailsFullRes  == QueryAssignmentSubmitDetailsFullBaseRes \cup {"plan"}
QuerySubnetAssignmentSubmitDetailsFullRes == QueryAssignmentSubmitDetailsFullBaseRes \cup {"plan"}
QueryAssignmentDataForSubmitBaseRes   == {"group", "student", "class", "dates", "submit"}
QueryIDNetAssignmentDataForSubmitRes  == QueryAssignmentDataForSubmitBaseRes \cup {"plan"}
QuerySubnetAssignmentDataForSubmitRes == QueryAssignmentDataForSubmitBaseRes \cup {"plan"}

assignmentQueryIdNetAssignments  == Shows(QueryIDNetAssignmentsRes)
assignmentQuerySubnetAssignments == Shows(QuerySubnetAssignmentsRes)
assignmentQueryIdNetAssignmentSubmitDetailsFull  == Shows(QueryIDNetAssignmentSubmitDetailsFullRes)
assignmentQuerySubnetAssignmentSubmitDetailsFull == Shows(QuerySubnetAssignmentSubmitDetailsFullRes)
assignmentSubmitQueryIdNetAssignmentDataForSubmit  == Shows(QueryIDNetAssignmentDataForSubmitRes)
assignmentSubmitQuerySubnetAssignmentDataForSubmit == Shows(QuerySubnetAssignmentDataForSubmitRes)

SubmitAssignmentBaseReq   == {"submit", "attempt"}
SubmitIDNetAssignmentReq  == SubmitAssignmentBaseReq
SubmitSubnetAssignmentReq == SubmitAssignmentBaseReq
CreateAssignmentSubmissionAttemptReq    == {"attempt"}
SaveAssignmentSubmissionAttemptDraftReq == {"attempt"}
ReopenAssignmentSubmissionAttemptReq    == {"attempt"}
GetAssignmentSubmissionAttemptRes       == {"attempt"}

assignmentSubmitSubmitIdNetAssignment  == Writes(SubmitIDNetAssignmentReq)
assignmentSubmitSubmitSubnetAssignment == Writes(SubmitSubnetAssignmentReq)
assignmentSubmitCreateOrGetAssignmentAttempt ==
  [writes |-> CreateAssignmentSubmissionAttemptReq, shows |-> GetAssignmentSubmissionAttemptRes]
assignmentSubmitGetCurrentAssignmentAttempt == Shows(GetAssignmentSubmissionAttemptRes)
assignmentSubmitSaveAssignmentAttemptDraft  == Writes(SaveAssignmentSubmissionAttemptDraftReq)
assignmentSubmitLockAssignmentAttempt       == Writes(SaveAssignmentSubmissionAttemptDraftReq)
assignmentSubmitReopenAssignmentAttempt     == Writes(ReopenAssignmentSubmissionAttemptReq)

----------------------------------------------------------------------------
(***************************************************************************)
(* Dashboards, settings, GNS3, updates.                                    *)
(***************************************************************************)
DashboardResBase         == {"setting", "group", "dates"}
QueryAdminDashboardRes   == DashboardResBase \cup {"class", "member", "student", "teacher", "submit"}
QueryTeacherDashboardRes == DashboardResBase \cup {"class", "teaches", "member", "student", "teacher", "submit"}
QueryStudentDashboardRes == DashboardResBase \cup {"class", "member", "teaches", "roster", "submit"}

dashboardQueryAdminDashboard   == Shows(QueryAdminDashboardRes)
dashboardQueryTeacherDashboard == Shows(QueryTeacherDashboardRes)
dashboardQueryStudentDashboard == Shows(QueryStudentDashboardRes)

AppConfigDto        == {"setting"}
EditAppSettinReq    == {"setting"}
AppSettingDto       == {"setting"}
QueryAppSettingRes  == AppSettingDto

appConfigGetAppConfig       == Shows(AppConfigDto)
appSettingsEditAppSetting   == Writes(EditAppSettinReq)
appSettingsQueryAppSettings == Shows(QueryAppSettingRes)

StartSessionReq  == {"session", "sessions"}
StopSessionReq   == {"session", "sessions"}
ExtendSessionReq == {"session", "sessions"}
ForceStopAllRes  == {"session", "sessions"}
Gns3SessionBase  == {"session", "sessions"}
QuerySessionRes  == Gns3SessionBase
QuerySessionHistoryRes == Gns3SessionBase

gns3StartSession  == Writes(StartSessionReq)
gns3StopSession   == Writes(StopSessionReq)
gns3ExtendSession == Writes(ExtendSessionReq)
gns3ForceStopAll  == Writes(ForceStopAllRes)
gns3QuerySession        == Shows(QuerySessionRes)
gns3QuerySessionHistory == Shows(QuerySessionHistoryRes)

UpdaterVersionInfoRes == {"version"}
updaterGetVersionInfo == Shows(UpdaterVersionInfoRes)

----------------------------------------------------------------------------
(***************************************************************************)
(* The generated API classes; logging in, probing the directory and the    *)
(* two streams are left out.                                               *)
(***************************************************************************)
AGTemplateApi == {
  aGTemplateCreateAGTemplate, aGTemplateDeleteAGTemplates, aGTemplateEditAGTemplate,
  aGTemplateQueryAGTemplates}
AppConfigApi == {appConfigGetAppConfig}
AppSettingsApi == {appSettingsEditAppSetting, appSettingsQueryAppSettings}
AssignmentApi == {
  assignmentQueryIdNetAssignmentSubmitDetailsFull, assignmentQueryIdNetAssignments,
  assignmentQuerySubnetAssignmentSubmitDetailsFull, assignmentQuerySubnetAssignments}
AssignmentGroupApi == {
  assignmentGroupArchiveAssignmentGroup, assignmentGroupCreateIdNetAssignmentGroup,
  assignmentGroupCreateSubnetAssignmentGroup, assignmentGroupDeleteIdNetAssignmentGroups,
  assignmentGroupDeleteSubnetAssignmentGroups, assignmentGroupEditIdNetAssignmentGroup,
  assignmentGroupEditSubnetAssignmentGroup, assignmentGroupQueryAssignmentGroups,
  assignmentGroupQueryIdNetAssignmentGroupDetails,
  assignmentGroupQuerySubnetAssignmentGroupDetails,
  assignmentGroupReopenStudentAssignmentAttempt}
AssignmentSubmitApi == {
  assignmentSubmitCreateOrGetAssignmentAttempt, assignmentSubmitGetCurrentAssignmentAttempt,
  assignmentSubmitLockAssignmentAttempt, assignmentSubmitQueryIdNetAssignmentDataForSubmit,
  assignmentSubmitQuerySubnetAssignmentDataForSubmit, assignmentSubmitReopenAssignmentAttempt,
  assignmentSubmitSaveAssignmentAttemptDraft, assignmentSubmitSubmitIdNetAssignment,
  assignmentSubmitSubmitSubnetAssignment}
ClassApi == {
  classAddStudentToClass, classAddTeacherToClass, classCreateClass, classDeleteClasses,
  classEditClass, classQueryClassDetails, classQueryClasses}
DashboardApi == {
  dashboardQueryAdminDashboard, dashboardQueryStudentDashboard, dashboardQueryTeacherDashboard}
Gns3Api == {
  gns3ExtendSession, gns3ForceStopAll, gns3QuerySession, gns3QuerySessionHistory,
  gns3StartSession, gns3StopSession}
UpdaterApi == {updaterGetVersionInfo}
UserApi == {userAddUser, userDeleteUsers, userEditUser, userQueryUserDetails, userQueryUsers}

Operations == UNION {AGTemplateApi, AppConfigApi, AppSettingsApi, AssignmentApi,
                     AssignmentGroupApi, AssignmentSubmitApi, ClassApi, DashboardApi, Gns3Api,
                     UpdaterApi, UserApi}

\* Facts is the whole vocabulary.
ASSUME EndpointsAssumption == \A op \in Operations : op.writes \cup op.shows \subseteq Facts

============================================================================
