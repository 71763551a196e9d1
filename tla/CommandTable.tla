--------------------------- MODULE CommandTable ---------------------------
(***************************************************************************)
(* The handlers of the remote command server (command_server.cpp), by what *)
(* each of them takes from its argument list before its one call of the    *)
(* controller's SDK.  A handler pops the elements of the list in order and *)
(* converts each of them: with stoi, stod or stof (a number), as it is (a  *)
(* string), or by copying it into a char array that nobody clears, bounds  *)
(* or terminates (a buffer).  The operators below follow the file, group   *)
(* by group.  What the SDK does with the arguments, the widths they are    *)
(* cut to and the wording of the answer are left out.                      *)
(***************************************************************************)
EXTENDS Naturals, Sequences

Num(n) == [i \in 1..n |-> "number"]
Str(n) == [i \in 1..n |-> "string"]
Buf(n) == [i \in 1..n |-> "buffer"]
None == <<>>

(* Handlers whose kinds do not depend on the arguments, as pairs of a name *)
(* and the kinds it takes.                                                 *)
Takes(kinds, names) == names \X {kinds}

(* Handlers that hand the whole argument string on, commas included.       *)
All == <<"rest">>

(* Handlers that copy the whole string into a char array and terminate it   *)
(* if it fits; a longer one is not copied and the array handed on unset.    *)
Name == <<"name">>

ModeAndTool ==
  Takes(None, {"ComputeTool", "ComputeTcp4"})
  \union Takes(Num(1), {"DragTeachSwitch", "RobotEnable", "Mode", "SetSpeed",
         "SetToolPoint", "SetTcp4RefPoint"})
  \union Takes(Num(9), {"SetToolCoord", "SetToolList"})
  \union Takes(Num(13), {"SetExToolCoord"})

ToolListAndFrames ==
  Takes(Num(1), {"SetRobotInstallPos"})
  \union Takes(Num(2), {"SetLoadWeight", "SetRobotInstallAngle"})
  \union Takes(Num(3), {"SetLoadCoord"})
  \union Takes(Num(7), {"SetWObjCoord", "SetWObjList"})
  \union Takes(Num(8), {"SetAnticollision"})
  \union Takes(Num(13), {"SetExToolList"})

CollisionAndFriction ==
  Takes(None, {"ResetAllError"})
  \union Takes(Num(1), {"FrictionCompensationOnOff"})
  \union Takes(Num(3), {"SetCollisionStrategy"})
  \union Takes(Num(6), {"SetLimitPositive", "SetLimitNegtive",
         "SetFrictionValue_level", "SetFrictionValue_wall",
         "SetFrictionValue_ceiling", "SetFrictionValue_freedom"})

GripperAndOutputs ==
  Takes(Num(2), {"ActGripper"}) \union Takes(Num(3), {"SetAO", "SetToolAO"})
  \union Takes(Num(4), {"MoveGripper", "SetDO", "SetToolDO"})

AuxOutputsAndExtAxes ==
  Takes(None, {"ExtAxisGetCoord"}) \union Takes(Num(1), {"StopExtAxisJog"})
  \union Takes(Num(2), {"ExtAxisServoOn"}) \union Takes(Num(3), {"SetAuxAO"})
  \union Takes(Num(4), {"SetAuxDO", "ExtAxisSetHoming"})
  \union Takes(Num(5), {"ExtAxisStartJog", "ExtAxisMove"})

ExtAxisSync ==
  Takes(None, {"ExtAxisComputeECoordSys", "ExtDevLoadUDPDriver"})
  \union Takes(Num(1), {"ExtAxisSetRefPoint"})
  \union Takes(Num(9), {"ExtAxisActiveECoordSys", "SetAxisDHParaConfig"})
  \union Takes(Num(29), {"ExtAxisSyncMoveJ", "ExtAxisSyncMoveL"})

Jogging ==
  Takes(None, {"ImmStopJOG"}) \union Takes(Num(1), {"StopJOG"})
  \union Takes(Num(6), {"StartJOG"})

CircleAndServoJ ==
  Takes(None, {"Circle", "SplineStart"}) \union Takes(Num(11), {"ServoJ"})

SplineEnds ==
  Takes(None, {"SplineEnd"}) \union Takes(Num(1), {"NewSplineStart"})

StopOffsetAndAuxServo ==
  Takes(None, {"NewSplineEnd", "StopMotion", "PointsOffsetDisable"})
  \union Takes(Num(2), {"AuxServoEnable", "AuxServoSetControlMode",
         "AuxServoSetTargetSpeed"})
  \union Takes(Num(3), {"AuxServoSetTargetPos"})
  \union Takes(Num(6), {"AuxServoSetParam"})
  \union Takes(Num(7), {"PointsOffsetEnable"})

AuxServoAndScripts ==
  Takes(None, {"ScriptStart", "ScriptStop", "ScriptPause", "ScriptResume",
         "GetVersion", "GetMsgVersion", "GetRobotVersion"})
  \union Takes(Name, {"ScriptLoad"})
  \union Takes(Num(1), {"AuxServoClearError", "AuxServoSetStatusID"})
  \union Takes(Num(2), {"AuxServoSetTargetTorque"})
  \union Takes(Num(4), {"AuxServoHoming"})

StatusAndTractor ==
  Takes(None, {"GetControllerVersion", "GetDHCompensation",
         "GetWeldingBreakOffState", "GetErrorCode", "TractorHoming"})
  \union Takes(Num(1), {"GetTCPOffset", "TractorEnable"})
  \union Takes(Num(2), {"TractorMoveL"}) \union Takes(Num(3), {"TractorMoveC"})
  \union Takes(Num(8), {"GetInverseKin"})

TractorAndTrajectoryJ ==
  Takes(None, {"TractorStop", "MoveTrajectoryJ", "GetTrajectoryPointNum"})
  \union Takes(All, {"TrajectoryJUpLoad", "TrajectoryJDelete", "LuaUpload"})
  \union Takes(Name, {"GetTrajectoryStartPose"})
  \union Takes(Num(2), {"SetTrajectoryJSpeed"})
  \union Takes(Str(2), {"LuaDownLoad"})
  \union Takes(Buf(1) \o Num(1), {"LoadTrajectoryJ"})

LuaFilesAndArcBreak ==
  Takes(None, {"GetLuaList", "WeldingGetCheckArcInterruptionParam"})
  \union Takes(All, {"LuaDelete"})
  \union Takes(Num(2), {"WeldingSetCheckArcInterruptionParam"})
  \union Takes(Num(4), {"WeldingSetCurrent", "WeldingSetVoltage",
         "WeldingSetReWeldAfterBreakOffParam"})
  \union Takes(Num(7), {"ComputeToolCoordWithPoints"})
  \union Takes(Num(8), {"ComputeWObjCoordWithPoints"})

ArcBreakAndInputs ==
  Takes(None, {"WeldingGetReWeldAfterBreakOffParam",
         "WeldingStartReWeldAfterBreakOff", "WeldingAbortWeldAfterBreakOff",
         "GetDIConfig"}) \union Takes(Num(8), {"SetDIConfig"})
  \union Takes(Str(1) \o Num(3), {"PhotoelectricSensorTCPCalibration"})

InputsAndOutputLevels ==
  Takes(None, {"GetDOConfig", "GetToolDIConfig", "GetDIConfigLevel"})
  \union Takes(Num(2), {"SetToolDIConfig"})
  \union Takes(Num(8), {"SetDOConfig", "SetDIConfigLevel"})

OutputAndStandardLevels ==
  Takes(None, {"GetDOConfigLevel", "GetToolDIConfigLevel", "GetStandardDILevel",
         "GetStandardDOLevel"}) \union Takes(Num(2), {"SetToolDIConfigLevel"})
  \union Takes(Num(8), {"SetDOConfigLevel", "SetStandardDILevel",
         "SetStandardDOLevel"})

ExtDeviceSetup ==
  Takes(None, {"ExtDevGetUDPComParam"})
  \union Takes(Num(1), {"SetExAxisCmdDoneTime", "SetRobotPosToAxis"})
  \union Takes(Str(2), {"OpenLuaDownload"})
  \union Takes(Str(1) \o Num(9), {"ExtDevSetUDPComParam"})

WeldRelationAndWire ==
  Takes(Num(2), {"SetForwardWireFeed"})
  \union Takes(Num(3), {"ARCStart", "ARCEnd"})
  \union Takes(Num(5), {"WeldingSetCurrentRelation",
         "WeldingSetVoltageRelation"})
  \union Takes(Num(13), {"ExtAxisParamConfig"})

WireAndArcTracing ==
  Takes(Num(1), {"ArcWeldTraceAIChannelCurrent", "ArcWeldTraceAIChannelVoltage",
         "SetArcDoneExtDiNum", "SetWeldReadyExtDiNum"})
  \union Takes(Num(2), {"SetReverseWireFeed", "SetExtDIWeldBreakOffRecover"})
  \union Takes(Num(4), {"ArcWeldTraceCurrentPara", "ArcWeldTraceVoltagePara"})

WeldSignals ==
  Takes(Num(1), {"SetAirControlExtDoNum", "SetArcStartExtDoNum",
         "SetWireReverseFeedExtDoNum", "SetWireForwardFeedExtDoNum",
         "SetExDevProtocol", "LoadCtrlOpenLUA"})
  \union Takes(Num(2), {"SetWireSearchExtDIONum"})
  \union Takes(Str(1), {"OpenLuaUpload"})
  \union Takes(Num(1) \o Str(1), {"SetCtrlOpenLUAName"})

ServoProtocolParameters ==
  Takes(None, {"WeldingGetCurrentRelation", "WeldingGetVoltageRelation",
         "GetExDevProtocol", "AuxServoGetAcc"})
  \union Takes(Num(1), {"UnloadCtrlOpenLUA", "AuxServoGetParam"})
  \union Takes(Num(2), {"AuxServoSetAcc", "AuxServoSetEmergencyStopAcc"})

ServoAccAndDevices ==
  Takes(None, {"AuxServoGetEmergencyStopAcc", "ExtDevUDPClientComReset",
         "ExtDevUDPClientComClose", "GetCtrlOpenLUAName", "AllOpenLuaDelete",
         "GetSDKVersion", "GetControllerIP", "IsInDragTeach"})
  \union Takes(Num(2), {"SetAspirated"}) \union Takes(Str(1), {"OpenLuaDelete"})

DigitalAndAnalogReads ==
  Takes(Num(2), {"GetDI", "GetToolDI", "GetAI", "GetToolAI"})
  \union Takes(Num(4), {"WaitDI", "WaitToolDI"})
  \union Takes(Num(5), {"WaitMultiDI"})

SpiralAndServoCart ==
  Takes(Num(1), {"ServoMoveStart", "ServoMoveEnd"})
  \union Takes(Num(22), {"ServoCart"}) \union Takes(Num(35), {"NewSpiral"})

PauseAndAnalogWaits ==
  Takes(None, {"PauseMotion", "ResumeMotion", "GetAxlePointRecordBtnState",
         "GetToolDO", "GetDO"}) \union Takes(Num(2), {"SetSysVarValue"})
  \union Takes(Num(5), {"WaitAI", "WaitToolAI"})
  \union Takes(Num(13), {"MoveCart"})

FramePointsAndLimits ==
  Takes(None, {"ComputeExTCF", "GetRobotInstallAngle"})
  \union Takes(Num(1), {"SetExTCPPoint", "SetWObjCoordPoint", "WaitMs",
         "GetSysVarValue"}) \union Takes(Num(2), {"ComputeWObjCoord"})
  \union Takes(Num(6), {"SetLimitNegative"})

ActualJointsAndSpeeds ==
  Takes(Num(1), {"GetActualJointPosDegree", "GetActualJointSpeedsDegree",
         "GetActualJointAccDegree", "GetTargetTCPCompositeSpeed",
         "GetActualTCPCompositeSpeed", "GetTargetTCPSpeed",
         "GetActualTCPSpeed"})

PosesAndInverseKin ==
  Takes(Num(1), {"GetActualTCPPose", "GetActualTCPNum", "GetActualWObjNum",
         "GetActualToolFlangePose"})
  \union Takes(Num(13), {"GetInverseKinRef", "GetInverseKinHasSolution"})

KinematicsAndPayload ==
  Takes(Num(1), {"GetJointTorques", "GetTargetPayload", "GetTargetPayloadCog",
         "GetWObjOffset"}) \union Takes(Num(6), {"GetForwardKin"})
  \union Takes(Num(13), {"GetInverseKinExaxis"})

SoftLimitsAndTeaching ==
  Takes(None, {"GetSystemClock", "GetRobotCurJointsConfig",
         "GetDefaultTransVel", "GetRobotMotionDone", "GetRobotErrorCode",
         "GetMotionQueueLength"})
  \union Takes(Buf(1), {"GetRobotTeachingPoint"})
  \union Takes(Num(1), {"GetJointSoftLimitDeg"})
  \union Takes(Num(1) \o Buf(1) \o Num(3), {"SetTPDParam"})

TpdAndTrajectoryForce ==
  Takes(None, {"SetWebTPDStop"})
  \union Takes(Buf(1), {"SetTPDDelete", "LoadTPD", "GetTPDStartPose"})
  \union Takes(Num(1), {"SetTrajectoryJForceFx"})
  \union Takes(Num(6), {"SetTrajectoryJForceTorque"})
  \union Takes(Buf(1) \o Num(2), {"MoveTPD"})
  \union Takes(Num(1) \o Buf(1) \o Num(3), {"SetTPDStart"})

TrajectoryForceAndPrograms ==
  Takes(None, {"GetCurrentLine", "ProgramRun", "ProgramPause"})
  \union Takes(Buf(1), {"ProgramLoad", "GetLoadedProgram"})
  \union Takes(Num(1), {"SetTrajectoryJForceFy", "SetTrajectoryJForceFz",
         "SetTrajectoryJTorqueTx", "SetTrajectoryJTorqueTy",
         "SetTrajectoryJTorqueTz"})
  \union Takes(Num(1) \o Buf(1), {"LoadDefaultProgConfig"})

ProgramStateAndGripper ==
  Takes(None, {"ProgramResume", "ProgramStop", "GetProgramState",
         "GetGripperConfig", "GetGripperMotionDone", "GetGripperActivateStatus",
         "GetGripperCurPosition", "GetGripperCurSpeed", "GetGripperCurCurrent"})
  \union Takes(Num(4), {"SetGripperConfig"})

GripperStateAndForceSensor ==
  Takes(None, {"GetGripperVoltage", "GetGripperTemp", "GetGripperRotNum",
         "GetGripperRotSpeed", "GetGripperRotTorque"})
  \union Takes(Num(4), {"FT_SetConfig"})
  \union Takes(Num(8), {"ComputePrePick", "ComputePostPick"})

ForceSensorIdentification ==
  Takes(None, {"FT_GetConfig", "FT_PdIdenCompute", "FT_PdCogIdenCompute"})
  \union Takes(Num(1), {"FT_Activate", "FT_SetZero", "FT_PdIdenRecord",
         "FT_GetForceTorqueRCS"}) \union Takes(Num(2), {"FT_PdCogIdenRecord"})
  \union Takes(Num(7), {"FT_SetRCS"})

ForceOriginAndGuard ==
  Takes(Num(1), {"FT_GetForceTorqueOrigin"}) \union Takes(Num(26), {"FT_Guard"})

ForceControlAndSpiral ==
  Takes(Num(5), {"FT_SpiralSearch"}) \union Takes(Num(32), {"FT_Control"})

ForceInsertion ==
  Takes(None, {"FT_CalCenterStart", "FT_CalCenterEnd", "FT_ComplianceStop",
         "LoadIdentifyDynFilterInit", "LoadIdentifyDynVarInit"})
  \union Takes(Num(2), {"FT_ComplianceStart"})
  \union Takes(Num(6), {"FT_LinInsertion"})
  \union Takes(Num(7), {"FT_FindSurface"})
  \union Takes(Num(8), {"FT_RotInsertion"})

LoadIdentifyAndConveyor ==
  Takes(None, {"ConveyorPointIORecord", "ConveyorPointARecord",
         "ConveyorRefPointRecord", "ConveyorPointBRecord"})
  \union Takes(Num(1), {"ConveyorStartEnd", "ConveyorIODetect",
         "ConveyorGetTrackData", "ConveyorTrackStart"})
  \union Takes(Num(12), {"LoadIdentifyGetResult"})
  \union Takes(Num(13), {"LoadIdentifyMain"})

ConveyorAndTrack ==
  Takes(None, {"ConveyorTrackEnd", "GetSSHKeygen"})
  \union Takes(Buf(1), {"ComputeFileMD5"})
  \union Takes(Num(3), {"ConveyorCatchPointComp"})
  \union Takes(Num(9), {"ConveyorSetParam"})
  \union Takes(Buf(1) \o Num(8), {"TrackMoveL"})
  \union Takes(Num(1) \o Buf(4), {"SetSSHScpCmd"})

SafetyVersionsAndPointTables ==
  Takes(None, {"GetRobotEmergencyStopState", "GetSDKComState",
         "GetSafetyStopState", "GetHardwareVersion", "GetFirmwareVersion"})
  \union Takes(Str(1), {"PointTableSwitch", "PointTableUpLoad"})
  \union Takes(Str(2), {"PointTableDownLoad"})

WeaveParameters ==
  Takes(Num(1), {"WeaveStart", "WeaveEnd"})
  \union Takes(Num(9), {"WeaveOnlineSetPara"})
  \union Takes(Str(2), {"PointTableUpdateLua"})
  \union Takes(Num(14), {"WeaveSetPara"})

SegmentWeldAndLogger ==
  Takes(Num(1), {"SetLoggerLevel", "AuxServoGetStatus", "SetOaccScale"})
  \union Takes(Num(49), {"SegmentWeldStart"})
  \union Takes(Num(1) \o Str(1) \o Num(1), {"LoggerInit"})

MovingOutputsAndAuxWaits ==
  Takes(None, {"MoveAOStop", "MoveToolAOStop", "ExtDevUnloadUDPDriver"})
  \union Takes(Num(1), {"SetAuxDIFilterTime"})
  \union Takes(Num(2), {"SetAuxAIFilterTime"})
  \union Takes(Num(4), {"MoveAOStart", "MoveToolAOStart", "WaitAuxDI"})
  \union Takes(Num(5), {"WaitAuxAI"})

AuxReadsAndPositioner ==
  Takes(None, {"PositionorComputeECoordSys"})
  \union Takes(Num(1), {"PositionorSetRefPoint"})
  \union Takes(Num(2), {"GetAuxDI", "GetAuxAI"})
  \union Takes(Num(6), {"SetRefPointInExAxisEnd"})

ExtSyncArcAndWireSearch ==
  Takes(Num(7), {"WireSearchStart", "WireSearchEnd"})
  \union Takes(Num(56), {"ExtAxisSyncMoveC"})

WireOffsetAndArcTrace ==
  Takes(Num(1), {"ArcWeldTraceExtAIChannelConfig"})
  \union Takes(Str(1), {"WireSearchWait"})
  \union Takes(Num(19), {"ArcWeldTraceControl"})
  \union Takes(Str(1) \o Num(6), {"SetPointToDatabase"})
  \union Takes(Num(2) \o Str(12), {"GetWireSearchOffset"})

ForceDrag ==
  Takes(None, {"GetForceAndTorqueDragState", "GetForceSensorPayload",
         "GetForceSensorPayloadCog"})
  \union Takes(Num(1), {"SetForceSensorDragAutoFlag", "SetForceSensorPayload"})
  \union Takes(Num(3), {"SetForceSensorPayloadCog"})
  \union Takes(Num(30), {"EndForceDragControl"})

SensorPayloadAndSegments ==
  Takes(None, {"ForceSensorAutoComputeLoad", "ForceSensorComputeLoad"})
  \union Takes(Num(1), {"ForceSensorSetSaveDataFlag", "WeldingGetProcessParam"})
  \union Takes(Num(9), {"WeldingSetProcessParam"})
  \union Takes(Num(13), {"GetSegmentWeldPoint"})

AxleSensorAndOutputReset ==
  Takes(None, {"AxleSensorConfigGet"})
  \union Takes(Num(1), {"AxleSensorActivate"})
  \union Takes(Num(2), {"SetOutputResetCtlBoxDO", "SetOutputResetCtlBoxAO",
         "SetOutputResetAxleDO", "SetOutputResetAxleAO", "SetOutputResetExtDO",
         "SetOutputResetExtAO"}) \union Takes(Num(4), {"AxleSensorConfig"})

WeaveSimulationAndCollision ==
  Takes(Num(1), {"WeaveStartSim", "WeaveEndSim", "WeaveInspectStart",
         "WeaveInspectEnd", "SetStaticCollisionOnOff", "ServoJTStart"})
  \union Takes(Num(2), {"SetOutputResetSmartToolDO",
         "SetCollisionDetectionMethod", "SetPowerLimit"})

ServoTorqueAndSampling ==
  Takes(None, {"GetRobotRealtimeStateSamplePeriod", "GetJointDriverTemperature",
         "GetJointDriverTorque", "ArcWeldTraceReplayStart",
         "ArcWeldTraceReplayEnd"})
  \union Takes(Num(1), {"ServoJTEnd", "SetRobotRealtimeStateSamplePeriod"})
  \union Takes(Num(7), {"ServoJT"})

MultilayerAndAxle ==
  Takes(None, {"AngularSpeedEnd", "GetSoftwareUpgradeState",
         "GetAxleCommunicationParam"})
  \union Takes(Num(1), {"AngularSpeedStart", "SetAxleFileType"})
  \union Takes(Num(7), {"SetAxleCommunicationParam"})
  \union Takes(Num(12), {"MultilayerOffsetTrsfToBase"})
  \union Takes(Str(1) \o Num(1), {"SoftwareUpgrade"})

AxleLuaEnabling ==
  Takes(None, {"GetAxleLuaEnableStatus", "GetAxleLuaEnableDeviceType",
         "GetAxleLuaEnableDevice"})
  \union Takes(Num(1), {"SetAxleLuaEnable", "SetRecoverAxleLuaErr",
         "SetAxleLuaGripperFunc"})
  \union Takes(Num(3), {"SetAxleLuaEnableDeviceType"})

AxleLuaFiles ==
  Takes(None, {"SetSysServoBootMode", "SingularAvoidEnd"})
  \union Takes(Num(1), {"GetAxleLuaGripperFunc",
         "SetWeldMachineCtrlModeExtDoNum"})
  \union Takes(Num(2), {"SetCtrlOpenLuaErrCode", "SetWeldMachineCtrlMode"})
  \union Takes(Num(4), {"SingularAvoidStart"})
  \union Takes(Str(1), {"AxleLuaUpload"})
  \union Takes(Num(2) \o Str(1), {"SlaveFileWrite"})

PlanningAndLaserRecord ==
  Takes(None, {"PtpFIRPlanningEnd", "LinArcFIRPlanningEnd",
         "LaserTrackingLaserOff", "LaserTrackingTrackOff"})
  \union Takes(Num(1), {"LaserTrackingLaserOn", "LaserTrackingTrackOn"})
  \union Takes(Num(2), {"PtpFIRPlanningStart"})
  \union Takes(Num(4), {"LinArcFIRPlanningStart"})
  \union Takes(Num(8), {"LaserTrackingSearchStart"})
  \union Takes(Num(10), {"LaserSensorRecord"})

LaserTracking ==
  Takes(None, {"LaserTrackingSearchStop", "UnLoadPosSensorDriver"})
  \union Takes(Num(1), {"LaserTrackingSensorSamplePeriod",
         "LoadPosSensorDriver"})
  \union Takes(Num(2), {"LaserTrackingLaserOnOff", "LaserTrackingTrackOnOff"})
  \union Takes(Num(5), {"LaserTrackingSearchStart_xyz"})
  \union Takes(Num(7), {"LaserTrackingSearchStart_point"})
  \union Takes(Str(1) \o Num(1), {"LaserTrackingSensorConfig"})

LaserReplayAndSeam ==
  Takes(None, {"MoveLTR"})
  \union Takes(Num(2), {"LaserSensorRecord1", "LaserSensorReplay",
         "MoveToLaserRecordStart", "MoveToLaserRecordEnd"})
  \union Takes(Num(9), {"LaserSensorRecordandReplay"})
  \union Takes(Num(11), {"MoveToLaserSeamPos"})

SeamAndCustomCollision ==
  Takes(None, {"WeaveChangeEnd", "MoveTrajectoryLA",
         "CustomCollisionDetectionEnd"})
  \union Takes(Num(4), {"WeaveChangeStart"})
  \union Takes(Num(7), {"GetLaserSeamPos"})
  \union Takes(Num(14), {"CustomCollisionDetectionStart"})
  \union Takes(Buf(1) \o Num(8), {"LoadTrajectoryLA"})

SmoothingAndLogs ==
  Takes(None, {"GetRobotSN", "ShutDownRobotOS", "ConveyorComDetectTrigger"})
  \union Takes(Num(1), {"AccSmoothStart", "AccSmoothEnd", "ConveyorComDetect"})
  \union Takes(Num(5), {"WeldingSetVoltageGradualChangeStart"})
  \union Takes(Str(1), {"RbLogDownload", "AllDataSourceDownload",
         "DataPackageDownload"})

GradualWeldAndFocus ==
  Takes(None, {"WeldingSetVoltageGradualChangeEnd",
         "WeldingSetCurrentGradualChangeEnd", "GetSmarttoolBtnState",
         "GetWideBoxTempFanMonitorParam"})
  \union Takes(Num(1), {"ComputeFocusCalib"})
  \union Takes(Num(2), {"SetWideBoxTempFanMonitorParam"})
  \union Takes(Num(5), {"WeldingSetCurrentGradualChangeStart", "FocusStart"})
  \union Takes(Num(7), {"SetFocusCalibPoint"})

FocusAndUpgrades ==
  Takes(None, {"FocusEnd"}) \union Takes(Num(1), {"SetRobotType"})
  \union Takes(Num(3), {"SetFocusPosition"})
  \union Takes(Str(1), {"SetEncoderUpgrade", "JointAllParamUpgrade"})
  \union Takes(Num(1) \o Str(1), {"SetJointFirmwareUpgrade",
         "SetCtrlFirmwareUpgrade", "SetEndFirmwareUpgrade"})

LaserPointsAndFieldBus ==
  Takes(None, {"GetFieldBusConfig"})
  \union Takes(Num(1), {"LaserRecordPoint", "SetExAxisRobotPlan"})
  \union Takes(Num(3), {"SetReConnectParam"})
  \union Takes(Num(10), {"FieldBusSlaveWriteDO", "FieldBusSlaveWriteAO"})

FieldBusAndSucker ==
  Takes(Num(1), {"GetSuckerState"})
  \union Takes(Num(2), {"FieldBusSlaveReadDI", "FieldBusSlaveReadAI"})
  \union Takes(Num(3), {"FieldBusSlaveWaitDI"})
  \union Takes(Num(4), {"FieldBusSlaveWaitAI"})
  \union Takes(Num(22), {"SetSuckerCtrl"})

SuckerImpedanceAndFrames ==
  Takes(Num(1), {"SetTorqueDetectionSwitch", "GetToolCoordWithID",
         "GetWObjCoordWithID"}) \union Takes(Num(3), {"WaitSuckerState"})
  \union Takes(Num(30), {"ImpedanceControlStartStop"})

FramesAndKernel ==
  Takes(None, {"GetCurToolCoord", "GetCurWObjCoord", "GetCurExToolCoord",
         "GetCurExAxisCoord", "GetKernelUpgradeResult"})
  \union Takes(Num(1), {"GetExToolCoordWithID", "GetExAxisCoordWithID",
         "GetTargetPayloadWithID"}) \union Takes(Str(1), {"KernelUpgrade"})

CustomWeave ==
  Takes(None, {"JointSensitivityCalibration", "JointSensitivityCollect"})
  \union Takes(Num(1), {"CustomWeaveGetPara", "JointSensitivityEnable",
         "Sleep"}) \union Takes(Num(45), {"CustomWeaveSetPara"})

QueueAndFeedForward ==
  Takes(None, {"MotionQueueClear", "GetSlavePortErrCounter",
         "GetVelFeedForwardRatio", "RobotMCULogCollect"})
  \union Takes(Num(1), {"SlavePortErrCounterClear"})
  \union Takes(Num(6), {"SetVelFeedForwardRatio"})

IntersectLineStart ==
  Takes(Num(79), {"MoveToIntersectLineStart"})

IntersectLineAndHysteresis ==
  Takes(None, {"JointHysteresisError", "JointRepeatability"})
  \union Takes(Num(79), {"MoveIntersectLine"})

AdmittanceAndTcp ==
  Takes(Num(7), {"SerCoderCompenParams"})
  \union Takes(Num(14), {"TCPComputeXYZ"})
  \union Takes(Num(20), {"TCPComputeRPY"})
  \union Takes(Num(31), {"SetAdmittanceParams"})

TcpRecordAndAxleGenCom ==
  Takes(None, {"TCPRecordFlangePosStart", "TCPRecordFlangePosEnd",
         "TCPGetRecordFlangePos", "MoveStationary", "GetProgramRunErrCode"})
  \union Takes(Num(1), {"SetAxleGenComEnable", "GetAxleGenComCycleData"})
  \union Takes(Num(2), {"SndRcvAxleGenComCmdData"})
  \union Takes(Num(3), {"SetRobotStopOnComDisc"})

ComStopAndTpdStart ==
  Takes(None, {"OriginPointWeaveEnd"})
  \union Takes(Num(1), {"GetRobotStopOnComDisc", "SetRobotRealtimeStatePeriod"})
  \union Takes(Num(3), {"SetVelReducePara", "SetUserLEDColor"})
  \union Takes(Num(9), {"OriginPointWeaveStart"})
  \union Takes(Str(1), {"SendUDPFrame"})
  \union Takes(Buf(1) \o Num(2), {"MoveToTPDStart"})

(* _fr_function_list without the commands CommandServer treats itself.     *)
Handlers ==
  ModeAndTool \union ToolListAndFrames \union CollisionAndFriction \union
  GripperAndOutputs \union AuxOutputsAndExtAxes \union ExtAxisSync \union
  Jogging \union CircleAndServoJ \union SplineEnds \union StopOffsetAndAuxServo
  \union AuxServoAndScripts \union StatusAndTractor \union TractorAndTrajectoryJ
  \union LuaFilesAndArcBreak \union ArcBreakAndInputs \union
  InputsAndOutputLevels \union OutputAndStandardLevels \union ExtDeviceSetup
  \union WeldRelationAndWire \union WireAndArcTracing \union WeldSignals \union
  ServoProtocolParameters \union ServoAccAndDevices \union DigitalAndAnalogReads
  \union SpiralAndServoCart \union PauseAndAnalogWaits \union
  FramePointsAndLimits \union ActualJointsAndSpeeds \union PosesAndInverseKin
  \union KinematicsAndPayload \union SoftLimitsAndTeaching \union
  TpdAndTrajectoryForce \union TrajectoryForceAndPrograms \union
  ProgramStateAndGripper \union GripperStateAndForceSensor \union
  ForceSensorIdentification \union ForceOriginAndGuard \union
  ForceControlAndSpiral \union ForceInsertion \union LoadIdentifyAndConveyor
  \union ConveyorAndTrack \union SafetyVersionsAndPointTables \union
  WeaveParameters \union SegmentWeldAndLogger \union MovingOutputsAndAuxWaits
  \union AuxReadsAndPositioner \union ExtSyncArcAndWireSearch \union
  WireOffsetAndArcTrace \union ForceDrag \union SensorPayloadAndSegments \union
  AxleSensorAndOutputReset \union WeaveSimulationAndCollision \union
  ServoTorqueAndSampling \union MultilayerAndAxle \union AxleLuaEnabling \union
  AxleLuaFiles \union PlanningAndLaserRecord \union LaserTracking \union
  LaserReplayAndSeam \union SeamAndCustomCollision \union SmoothingAndLogs
  \union GradualWeldAndFocus \union FocusAndUpgrades \union
  LaserPointsAndFieldBus \union FieldBusAndSucker \union
  SuckerImpedanceAndFrames \union FramesAndKernel \union CustomWeave \union
  QueueAndFeedForward \union IntersectLineStart \union
  IntersectLineAndHysteresis \union AdmittanceAndTcp \union
  TcpRecordAndAxleGenCom \union ComStopAndTpdStart

Table == [c \in {h[1] : h \in Handlers} |-> (CHOOSE h \in Handlers : h[1] = c)[2]]
===========================================================================
